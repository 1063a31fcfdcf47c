---------------------- MODULE RegulatoryRuleSetProofs ----------------------
(***************************************************************************)
(* Proofs about the editions of an instrument, for any editions, contents, *)
(* sources, people and calendar.                                           *)
(***************************************************************************)
EXTENDS RegulatoryRuleSet, TLAPS

\* What a row says of its evidence and of the edition it replaces.
Bukti(r) ==
    /\ r.manifes # TanpaManifes => r.manifes = [isi |-> r.isi, sumber |-> r.sumber]
    /\ r.dampak.isi # Kosong =>
         /\ r.dampak.isi = r.isi
         /\ r.dampak.pendahulu = r.menggantikan
         /\ r.dampak.isiPendahulu =
              IF r.menggantikan = Kosong THEN Kosong ELSE edisi[r.menggantikan].isi
    /\ r.menggantikan # Kosong => Diterbitkan(r.menggantikan)

\* Reviewer and approver of a row, given the contributors to its edition.
Telaah(r, K) ==
    /\ r.status \in {"none", "draft", "submitted"} => r.penelaah = Kosong
    /\ r.status \in {"none", "draft", "submitted", "reviewed"} => r.penyetuju = Kosong
    /\ \A p \in {r.penelaah, r.penyetuju} \ {Kosong} :
         p \notin {r.pembuat, r.pengaju} /\ p \notin K /\ r.penelaah # r.penyetuju

\* An activation has validated the candidate whose row it holds.
Kunci(e) == Terkunci(e) => edisi[e].status \in Proses /\ Siap(edisi[e])

Sah(e) == Diterbitkan(e) => edisi[e].isi # Kosong /\ Siap(edisi[e])

\* The line of succession of the published editions.
Suksesi(e) ==
    /\ edisi[e].status = "active" => edisi[e].to = 0
    /\ edisi[e].status = "superseded" =>
         \E f \in Edisi :
           /\ Diterbitkan(f)
           /\ edisi[f].menggantikan = e
           /\ edisi[e].to = edisi[f].from - 1
           /\ edisi[e].from <= edisi[e].to
    /\ \A f \in Edisi :
         Diterbitkan(f) /\ edisi[f].menggantikan = edisi[e].menggantikan => e = f
    /\ edisi[e].menggantikan # Kosong =>
         edisi[edisi[e].menggantikan].status = "superseded"
    /\ Aktif # {}

Garis ==
    /\ \A e, f \in Aktif : e = f
    /\ \A e \in Edisi : Diterbitkan(e) => Suksesi(e)

EditionInv ==
    /\ TypeOK
    /\ \A e \in Edisi : Bukti(edisi[e]) /\ Telaah(edisi[e], kontributor[e])
    /\ \A e \in Edisi : Kunci(e) /\ Sah(e)
    /\ Garis

LEMMA KosongBukan ==
    Kosong \notin Edisi /\ Kosong \notin Orang /\ Kosong \notin Isi /\ Kosong \notin Sumber
BY EditionAssumption

LEMMA PetugasOrang == \A e \in Edisi : \A p \in Petugas[e] : p \in Orang
BY EditionAssumption

LEMMA RowTypes ==
    ASSUME NEW r \in Row
    PROVE  /\ r.status \in {"none"} \cup Proses \cup Terbit
           /\ r.from \in Tanggal /\ r.to \in 0 .. MaxTanggal
           /\ r.menggantikan \in Atau(Edisi) /\ r.isi \in Atau(Isi)
           /\ r.sumber \in Atau(Sumber) /\ r.sah \in BOOLEAN
           /\ r.manifes \in Manifes /\ r.dampak \in Dampak
           /\ r.pembuat \in Atau(Orang) /\ r.pengaju \in Atau(Orang)
           /\ r.penelaah \in Atau(Orang) /\ r.penyetuju \in Atau(Orang)
BY DEF Row

LEMMA TanpaTypes == TanpaManifes \in Manifes /\ TanpaDampak \in Dampak
BY DEF TanpaManifes, Manifes, TanpaDampak, Dampak, Atau

LEMMA BaruRow ==
    ASSUME NEW status \in {"none", "draft"}, NEW from \in Tanggal,
           NEW a \in Atau(Edisi), NEW isi \in Atau(Isi), NEW sumber \in Atau(Sumber),
           NEW p \in Atau(Orang)
    PROVE  Baru(status, from, a, isi, sumber, p) \in Row
BY TanpaTypes, EditionAssumption DEF Baru, Row, Atau, Proses

LEMMA InitEditionInv == Init => EditionInv
<1>. SUFFICES ASSUME Init PROVE EditionInv
  OBVIOUS
<1>. USE EditionAssumption
<1>1. 1 \in Tanggal
  BY DEF Tanggal
<1>2. ASSUME NEW e \in Edisi
      PROVE  \E s \in {"none", "draft"} :
               edisi[e] = Baru(s, 1, Kosong, Kosong, Kosong, Kosong)
  BY DEF Init
<1>3. TypeOK
  <2>1. edisi \in [Edisi -> Row]
    BY <1>1, BaruRow DEF Init, Atau
  <2>. QED
    BY <1>1, <2>1 DEF Init, TypeOK, Luang, Aktivasi, Atau
<1>4. ASSUME NEW e \in Edisi
      PROVE  /\ Bukti(edisi[e]) /\ Telaah(edisi[e], kontributor[e])
             /\ Kunci(e) /\ ~Diterbitkan(e)
  BY <1>2 DEF Baru, Bukti, Telaah, Kunci, Terkunci, Luang, Diterbitkan, Terbit,
              TanpaDampak, Init
<1>5. Garis
  BY <1>4 DEF Garis, Aktif, Diterbitkan, Terbit
<1>. QED
  BY <1>3, <1>4, <1>5 DEF EditionInv, Sah

\* An unpublished, unlocked row changes and stays unpublished.
LEMMA OneRow ==
    ASSUME EditionInv, NEW e \in Edisi, NEW row \in Row,
           edisi' = [edisi EXCEPT ![e] = row],
           ~Diterbitkan(e), row.status \notin Terbit, ~Terkunci(e),
           UNCHANGED <<aktivasi, hariIni>>,
           kontributor' \in [Edisi -> SUBSET Orang],
           \A x \in Edisi : x # e => kontributor'[x] = kontributor[x],
           Bukti(row), Telaah(row, kontributor'[e])
    PROVE  EditionInv'
<1>. USE DEF EditionInv
<1>1. TypeOK'
  BY DEF TypeOK
<1>2. edisi'[e] = row /\ \A x \in Edisi : x # e => edisi'[x] = edisi[x]
  BY DEF TypeOK
<1>3. \A x \in Edisi : Diterbitkan(x)' = Diterbitkan(x)
  BY <1>2 DEF Diterbitkan
<1>4. \A x \in Edisi : Diterbitkan(x) => x # e /\ edisi'[x] = edisi[x]
  BY <1>2
<1>5. Aktif' = Aktif
  BY <1>2 DEF Aktif, Diterbitkan, Terbit
<1>6. ASSUME NEW x \in Edisi PROVE (Bukti(edisi[x]) /\ Telaah(edisi[x], kontributor[x]))'
  <2>1. PICK r \in Row : /\ edisi'[x] = r /\ Bukti(r) /\ Telaah(r, kontributor'[x])
    BY <1>2 DEF TypeOK
  <2>2. r.menggantikan \in Atau(Edisi)
    BY RowTypes
  <2>3. r.menggantikan # Kosong => /\ Diterbitkan(r.menggantikan)'
                                   /\ edisi'[r.menggantikan].isi = edisi[r.menggantikan].isi
    BY <1>3, <1>4, <2>1, <2>2 DEF Bukti, Atau
  <2>4. Bukti(r)'
    BY <2>1, <2>3 DEF Bukti
  <2>. QED
    BY <2>1, <2>4 DEF Bukti, Telaah
<1>7. ASSUME NEW x \in Edisi PROVE (Kunci(x) /\ Sah(x))'
  <2>1. Kunci(x)'
    BY <1>2 DEF Kunci, Terkunci
  <2>2. Sah(x)'
    BY <1>3, <1>4 DEF Sah
  <2>. QED
    BY <2>1, <2>2
<1>8. Garis'
  <2>1. ASSUME NEW x \in Edisi, Diterbitkan(x) PROVE Suksesi(x)'
    <3>1. Suksesi(x) /\ edisi'[x] = edisi[x] /\ edisi[x].menggantikan \in Atau(Edisi)
      BY <1>4, <2>1, RowTypes DEF Garis, TypeOK
    <3>2. edisi[x].menggantikan # Kosong =>
            edisi'[edisi[x].menggantikan].status = "superseded"
      BY <1>4, <3>1 DEF Suksesi, Atau, Diterbitkan, Terbit
    <3>. QED
      BY <1>3, <1>4, <1>5, <3>1, <3>2 DEF Suksesi
  <2>. QED
    BY <1>3, <1>5, <2>1 DEF Garis
<1>. QED
  BY <1>1, <1>6, <1>7, <1>8

(***************************************************************************)
(* The steps on a draft.                                                   *)
(***************************************************************************)

LEMMA CloneStep ==
    ASSUME EditionInv, NEW p \in Orang, NEW e \in Edisi, NEW from \in Tanggal,
           NEW ulang \in BOOLEAN, CloneActive(p, e, from, ulang)
    PROVE  EditionInv'
<1>. USE KosongBukan DEF EditionInv
<1>1. PICK a \in Edisi :
        /\ edisi[a].status = "active"
        /\ Ubah(e, Baru("draft", from, a, edisi[a].isi,
                        IF ulang THEN edisi[a].sumber ELSE Kosong, p))
  BY DEF CloneActive
<1>2. edisi[a].isi \in Atau(Isi) /\ edisi[a].sumber \in Atau(Sumber)
  BY RowTypes DEF TypeOK
<1>3. PICK sumber \in Atau(Sumber) :
        edisi' = [edisi EXCEPT ![e] = Baru("draft", from, a, edisi[a].isi, sumber, p)]
  BY <1>1, <1>2 DEF Ubah, Atau
<1>4. PICK row \in Row : row = Baru("draft", from, a, edisi[a].isi, sumber, p)
  BY <1>2, BaruRow DEF Atau
<1>5. Bukti(row) /\ \A K : Telaah(row, K)
  BY <1>1, <1>4 DEF Baru, Bukti, Telaah, TanpaDampak, Diterbitkan, Terbit
<1>6. ~Diterbitkan(e) /\ ~Terkunci(e) /\ row.status \notin Terbit
  BY <1>4 DEF CloneActive, Diterbitkan, Terbit, Kunci, Proses, Baru
<1>. QED
  BY <1>3, <1>4, <1>5, <1>6, OneRow DEF CloneActive, Berperan, TypeOK

\* A draft whose content or source changes, without its evidence.
LEMMA SuntingRow ==
    ASSUME EditionInv, NEW e \in Edisi, edisi[e].status = "draft",
           NEW r \in Row, r.status = "draft", r.menggantikan = edisi[e].menggantikan,
           r.penelaah = edisi[e].penelaah, r.penyetuju = edisi[e].penyetuju
    PROVE  /\ TanpaBukti(r) \in Row
           /\ TanpaBukti(r).status = "draft"
           /\ Bukti(TanpaBukti(r))
           /\ \A K : Telaah(TanpaBukti(r), K)
<1>1. /\ TanpaBukti(r) \in Row
      /\ TanpaBukti(r).status = "draft"
      /\ TanpaBukti(r).menggantikan = r.menggantikan
      /\ TanpaBukti(r).penelaah = r.penelaah
      /\ TanpaBukti(r).penyetuju = r.penyetuju
      /\ TanpaBukti(r).manifes = TanpaManifes
      /\ TanpaBukti(r).dampak = TanpaDampak
  BY TanpaTypes DEF Row, TanpaBukti
<1>2. /\ r.menggantikan # Kosong => Diterbitkan(r.menggantikan)
      /\ r.penelaah = Kosong /\ r.penyetuju = Kosong
  BY DEF EditionInv, Bukti, Telaah
<1>. QED
  BY <1>1, <1>2 DEF Bukti, Telaah, TanpaDampak

LEMMA SuntingStep ==
    ASSUME EditionInv, NEW p \in Orang, NEW e \in Edisi,
           \/ \E isi \in Isi : UbahButir(p, e, isi) \/ ReplaceDraftItems(p, e, isi)
           \/ \E pdf \in Sumber : VerifySourceDocument(p, e, pdf)
    PROVE  EditionInv'
<1>. USE DEF EditionInv
<1>1. PICK r \in Row : /\ edisi' = [edisi EXCEPT ![e] = TanpaBukti(r)]
                       /\ r.status = edisi[e].status
                       /\ r.menggantikan = edisi[e].menggantikan
                       /\ r.penelaah = edisi[e].penelaah
                       /\ r.penyetuju = edisi[e].penyetuju
  <2>1. edisi[e] \in Row
    BY DEF TypeOK
  <2>2. CASE \E isi \in Isi : UbahButir(p, e, isi) \/ ReplaceDraftItems(p, e, isi)
    <3>1. PICK isi \in Isi :
            edisi' = [edisi EXCEPT ![e] = TanpaBukti([edisi[e] EXCEPT !.isi = isi])]
      BY <2>2 DEF UbahButir, ReplaceDraftItems, Ubah
    <3>2. [edisi[e] EXCEPT !.isi = isi] \in Row
      BY <2>1 DEF Row, Atau
    <3>. QED
      BY <2>1, <3>1, <3>2 DEF Row
  <2>3. CASE \E pdf \in Sumber : VerifySourceDocument(p, e, pdf)
    <3>1. PICK pdf \in Sumber :
            edisi' = [edisi EXCEPT ![e] =
                        TanpaBukti([edisi[e] EXCEPT !.sumber = pdf, !.sah = FALSE])]
      BY <2>3 DEF VerifySourceDocument, Ubah
    <3>2. [edisi[e] EXCEPT !.sumber = pdf, !.sah = FALSE] \in Row
      BY <2>1 DEF Row, Atau
    <3>. QED
      BY <2>1, <3>1, <3>2 DEF Row
  <2>. QED
    BY <2>2, <2>3
<1>2. /\ edisi[e].status = "draft" /\ ~Terkunci(e)
      /\ UNCHANGED <<aktivasi, hariIni>>
      /\ kontributor' = kontributor \/ Berperan(p, e)
  BY DEF UbahButir, ReplaceDraftItems, VerifySourceDocument, Berstatus
<1>3. /\ kontributor' \in [Edisi -> SUBSET Orang]
      /\ \A x \in Edisi : x # e => kontributor'[x] = kontributor[x]
  BY <1>2 DEF Berperan, TypeOK
<1>4. ~Diterbitkan(e) /\ "draft" \notin Terbit
  BY <1>2 DEF Diterbitkan, Terbit
<1>. QED
  BY <1>1, <1>2, <1>3, <1>4, SuntingRow, OneRow

LEMMA PindaiStep ==
    ASSUME EditionInv, NEW e \in Edisi, NEW bersih \in BOOLEAN, PindaiSumber(e, bersih)
    PROVE  EditionInv'
<1>. USE DEF EditionInv
<1>. DEFINE row == [edisi[e] EXCEPT !.sah = bersih]
<1>1. edisi[e] \in Row
  BY DEF TypeOK
<1>2. /\ row \in Row /\ row.status = edisi[e].status
      /\ row.isi = edisi[e].isi /\ row.sumber = edisi[e].sumber
      /\ row.manifes = edisi[e].manifes /\ row.dampak = edisi[e].dampak
      /\ row.menggantikan = edisi[e].menggantikan
      /\ row.pembuat = edisi[e].pembuat /\ row.pengaju = edisi[e].pengaju
      /\ row.penelaah = edisi[e].penelaah /\ row.penyetuju = edisi[e].penyetuju
  BY <1>1 DEF Row
<1>. HIDE DEF row
<1>3. Bukti(row) /\ Telaah(row, kontributor[e])
  BY <1>2 DEF Bukti, Telaah
<1>4. /\ edisi' = [edisi EXCEPT ![e] = row]
      /\ ~Diterbitkan(e) /\ row.status \notin Terbit /\ ~Terkunci(e)
  BY <1>2 DEF PindaiSumber, Berstatus, Ubah, row, Diterbitkan, Terbit
<1>. QED
  BY <1>2, <1>3, <1>4, OneRow DEF PindaiSumber, TypeOK

LEMMA ManifesStep ==
    ASSUME EditionInv, NEW p \in Orang, NEW e \in Edisi,
           VerifyCompletenessManifest(p, e)
    PROVE  EditionInv'
<1>. USE DEF EditionInv
<1>. DEFINE manifes == [isi |-> edisi[e].isi, sumber |-> edisi[e].sumber]
            row == [edisi[e] EXCEPT !.manifes = manifes, !.dampak = TanpaDampak]
<1>1. edisi[e] \in Row /\ manifes \in Manifes
  BY RowTypes DEF TypeOK, Manifes
<1>2. /\ row \in Row /\ row.status = edisi[e].status
      /\ row.isi = edisi[e].isi /\ row.sumber = edisi[e].sumber
      /\ row.manifes = manifes /\ row.dampak = TanpaDampak
      /\ row.menggantikan = edisi[e].menggantikan
      /\ row.penelaah = edisi[e].penelaah /\ row.penyetuju = edisi[e].penyetuju
  BY <1>1, TanpaTypes DEF Row
<1>3. /\ edisi' = [edisi EXCEPT ![e] = row]
      /\ edisi[e].status = "draft" /\ ~Terkunci(e)
  BY DEF VerifyCompletenessManifest, Berstatus, Ubah
<1>. HIDE DEF row
<1>4. Bukti(row) /\ \A K : Telaah(row, K)
  BY <1>2, <1>3 DEF Bukti, Telaah, TanpaDampak
<1>5. ~Diterbitkan(e) /\ row.status \notin Terbit
  BY <1>2, <1>3 DEF Diterbitkan, Terbit
<1>. QED
  BY <1>2, <1>3, <1>4, <1>5, OneRow DEF VerifyCompletenessManifest, Berperan, TypeOK

LEMMA DampakStep ==
    ASSUME EditionInv, NEW p \in Orang, NEW e \in Edisi, GenerateImpactReport(p, e)
    PROVE  EditionInv'
<1>. USE DEF EditionInv
<1>. DEFINE a == edisi[e].menggantikan
            dampak == [isi |-> edisi[e].isi, pendahulu |-> a,
                       isiPendahulu |-> IF a = Kosong THEN Kosong ELSE edisi[a].isi]
            row == [edisi[e] EXCEPT !.dampak = dampak]
<1>1. edisi[e] \in Row /\ a \in Atau(Edisi)
  BY RowTypes DEF TypeOK
<1>2. dampak \in Dampak
  BY <1>1, RowTypes DEF TypeOK, Dampak, Atau
<1>3. /\ row \in Row /\ row.status = edisi[e].status
      /\ row.isi = edisi[e].isi /\ row.sumber = edisi[e].sumber
      /\ row.manifes = edisi[e].manifes /\ row.dampak = dampak
      /\ row.menggantikan = a
      /\ row.penelaah = edisi[e].penelaah /\ row.penyetuju = edisi[e].penyetuju
  BY <1>1, <1>2 DEF Row
<1>4. /\ edisi' = [edisi EXCEPT ![e] = row]
      /\ edisi[e].status = "draft" /\ ~Terkunci(e)
  BY DEF GenerateImpactReport, Berstatus, Ubah
<1>5. dampak.isi = edisi[e].isi /\ dampak.pendahulu = a
      /\ dampak.isiPendahulu = IF a = Kosong THEN Kosong ELSE edisi[a].isi
  OBVIOUS
<1>. HIDE DEF row, dampak
<1>6. Bukti(row) /\ \A K : Telaah(row, K)
  BY <1>3, <1>4, <1>5 DEF Bukti, Telaah
<1>7. ~Diterbitkan(e) /\ row.status \notin Terbit
  BY <1>3, <1>4 DEF Diterbitkan, Terbit
<1>. QED
  BY <1>3, <1>4, <1>6, <1>7, OneRow DEF GenerateImpactReport, Berperan, TypeOK

(***************************************************************************)
(* The steps of the review.                                                *)
(***************************************************************************)

\* Only the status and the names of the review change.
LEMMA TelaahRow ==
    ASSUME EditionInv, NEW e \in Edisi, NEW row \in Row,
           edisi' = [edisi EXCEPT ![e] = row],
           edisi[e].status \in Proses, row.status \in Proses, ~Terkunci(e),
           UNCHANGED <<kontributor, aktivasi, hariIni>>,
           row.isi = edisi[e].isi, row.sumber = edisi[e].sumber,
           row.manifes = edisi[e].manifes, row.dampak = edisi[e].dampak,
           row.menggantikan = edisi[e].menggantikan,
           Telaah(row, kontributor[e])
    PROVE  EditionInv'
<1>1. Bukti(row)
  BY DEF EditionInv, Bukti
<1>2. ~Diterbitkan(e) /\ row.status \notin Terbit
  BY DEF Diterbitkan, Terbit, Proses
<1>. QED
  BY <1>1, <1>2, OneRow DEF EditionInv, TypeOK

LEMMA SubmitStep ==
    ASSUME EditionInv, NEW p \in Orang, NEW e \in Edisi, Submit(p, e)
    PROVE  EditionInv'
<1>. DEFINE row == TanpaTelaah([edisi[e] EXCEPT !.status = "submitted", !.pengaju = p])
<1>1. edisi[e] \in Row
  BY DEF EditionInv, TypeOK
<1>2. /\ row \in Row /\ row.status = "submitted"
      /\ row.isi = edisi[e].isi /\ row.sumber = edisi[e].sumber
      /\ row.manifes = edisi[e].manifes /\ row.dampak = edisi[e].dampak
      /\ row.menggantikan = edisi[e].menggantikan
      /\ row.penelaah = Kosong /\ row.penyetuju = Kosong
  BY <1>1 DEF TanpaTelaah, Row, Atau, Proses
<1>3. /\ edisi' = [edisi EXCEPT ![e] = row]
      /\ edisi[e].status = "draft" /\ ~Terkunci(e)
      /\ UNCHANGED <<kontributor, aktivasi, hariIni>>
  BY DEF Submit, Berstatus, Ubah
<1>. HIDE DEF row
<1>4. Telaah(row, kontributor[e])
  BY <1>2 DEF Telaah
<1>. QED
  BY <1>2, <1>3, <1>4, TelaahRow DEF Proses

LEMMA ReviewStepInv ==
    ASSUME EditionInv, NEW p \in Orang, NEW e \in Edisi, Review(p, e)
    PROVE  EditionInv'
<1>. DEFINE row == [edisi[e] EXCEPT !.status = "reviewed", !.penelaah = p]
<1>1. edisi[e] \in Row
  BY DEF EditionInv, TypeOK
<1>2. /\ row \in Row /\ row.status = "reviewed"
      /\ row.isi = edisi[e].isi /\ row.sumber = edisi[e].sumber
      /\ row.manifes = edisi[e].manifes /\ row.dampak = edisi[e].dampak
      /\ row.menggantikan = edisi[e].menggantikan
      /\ row.pembuat = edisi[e].pembuat /\ row.pengaju = edisi[e].pengaju
      /\ row.penelaah = p /\ row.penyetuju = edisi[e].penyetuju
  BY <1>1 DEF Row, Atau, Proses
<1>3. /\ edisi' = [edisi EXCEPT ![e] = row]
      /\ edisi[e].status = "submitted" /\ ~Terkunci(e) /\ Mandiri(p, e)
      /\ UNCHANGED <<kontributor, aktivasi, hariIni>>
  BY DEF Review, Berstatus, Ubah
<1>. HIDE DEF row
<1>4. Telaah(row, kontributor[e])
  BY <1>2, <1>3, KosongBukan DEF EditionInv, Telaah, Mandiri
<1>. QED
  BY <1>2, <1>3, <1>4, TelaahRow DEF Proses

LEMMA ApproveStep ==
    ASSUME EditionInv, NEW p \in Orang, NEW e \in Edisi, Approve(p, e)
    PROVE  EditionInv'
<1>. DEFINE row == [edisi[e] EXCEPT !.status = "approved", !.penyetuju = p]
<1>1. edisi[e] \in Row
  BY DEF EditionInv, TypeOK
<1>2. /\ row \in Row /\ row.status = "approved"
      /\ row.isi = edisi[e].isi /\ row.sumber = edisi[e].sumber
      /\ row.manifes = edisi[e].manifes /\ row.dampak = edisi[e].dampak
      /\ row.menggantikan = edisi[e].menggantikan
      /\ row.pembuat = edisi[e].pembuat /\ row.pengaju = edisi[e].pengaju
      /\ row.penelaah = edisi[e].penelaah /\ row.penyetuju = p
  BY <1>1 DEF Row, Atau, Proses
<1>3. /\ edisi' = [edisi EXCEPT ![e] = row]
      /\ edisi[e].status = "reviewed" /\ ~Terkunci(e) /\ Mandiri(p, e)
      /\ p # edisi[e].penelaah
      /\ UNCHANGED <<kontributor, aktivasi, hariIni>>
  BY DEF Approve, Berstatus, Ubah
<1>. HIDE DEF row
<1>4. Telaah(row, kontributor[e])
  BY <1>2, <1>3, KosongBukan DEF EditionInv, Telaah, Mandiri
<1>. QED
  BY <1>2, <1>3, <1>4, TelaahRow DEF Proses

LEMMA ReturnStep ==
    ASSUME EditionInv, NEW e \in Edisi, ReturnToDraft(e)
    PROVE  EditionInv'
<1>. DEFINE row == TanpaTelaah([edisi[e] EXCEPT !.status = "draft", !.pengaju = Kosong])
<1>1. edisi[e] \in Row
  BY DEF EditionInv, TypeOK
<1>2. /\ row \in Row /\ row.status = "draft"
      /\ row.isi = edisi[e].isi /\ row.sumber = edisi[e].sumber
      /\ row.manifes = edisi[e].manifes /\ row.dampak = edisi[e].dampak
      /\ row.menggantikan = edisi[e].menggantikan
      /\ row.penelaah = Kosong /\ row.penyetuju = Kosong
  BY <1>1 DEF TanpaTelaah, Row, Atau, Proses
<1>3. /\ edisi' = [edisi EXCEPT ![e] = row]
      /\ edisi[e].status \in Proses /\ ~Terkunci(e)
      /\ UNCHANGED <<kontributor, aktivasi, hariIni>>
  BY DEF ReturnToDraft, Ubah
<1>. HIDE DEF row
<1>4. Telaah(row, kontributor[e])
  BY <1>2 DEF Telaah
<1>. QED
  BY <1>2, <1>3, <1>4, TelaahRow DEF Proses

(***************************************************************************)
(* Activation.                                                             *)
(***************************************************************************)

\* The rows stay as they are and no activation holds an unchecked one.
LEMMA RowsStep ==
    ASSUME EditionInv, UNCHANGED <<edisi, kontributor>>, hariIni' \in Tanggal,
           aktivasi' \in [Edisi -> Aktivasi],
           \A e \in Edisi : Terkunci(e)' =>
             Terkunci(e) \/ (edisi[e].status \in Proses /\ Siap(edisi[e]))
    PROVE  EditionInv'
<1>. USE DEF EditionInv
<1>1. TypeOK'
  BY DEF TypeOK
<1>2. \A e \in Edisi : (Bukti(edisi[e]) /\ Telaah(edisi[e], kontributor[e]))'
  BY DEF Bukti, Telaah, Diterbitkan
<1>3. \A e \in Edisi : (Kunci(e) /\ Sah(e))'
  BY DEF Kunci, Sah, Diterbitkan, Siap, Lengkap, Terkunci
<1>4. Garis'
  BY DEF Garis, Suksesi, Aktif, Diterbitkan
<1>. QED
  BY <1>1, <1>2, <1>3, <1>4

LEMMA MulaiStep ==
    ASSUME EditionInv, NEW e \in Edisi, MulaiAktivasi(e)
    PROVE  EditionInv'
<1>1. PICK a \in Atau(Aktif) :
        aktivasi' = [aktivasi EXCEPT ![e] = [berjalan |-> TRUE, terlihat |-> a]]
  BY DEF MulaiAktivasi
<1>2. [berjalan |-> TRUE, terlihat |-> a] \in Aktivasi
  BY DEF Aktivasi, Atau, Aktif
<1>3. /\ aktivasi' \in [Edisi -> Aktivasi]
      /\ \A x \in Edisi : x # e => aktivasi'[x] = aktivasi[x]
  BY <1>1, <1>2 DEF EditionInv, TypeOK
<1>4. /\ edisi[e].status \in Proses /\ Siap(edisi[e])
      /\ UNCHANGED <<edisi, kontributor, hariIni>>
  BY DEF MulaiAktivasi
<1>5. hariIni' \in Tanggal
  BY <1>4 DEF EditionInv, TypeOK
<1>6. \A x \in Edisi : Terkunci(x)' =>
        Terkunci(x) \/ (edisi[x].status \in Proses /\ Siap(edisi[x]))
  BY <1>3, <1>4 DEF Terkunci
<1>. QED
  BY <1>3, <1>4, <1>5, <1>6, RowsStep

LEMMA BatalStep ==
    ASSUME EditionInv, NEW e \in Edisi, BatalAktivasi(e)
    PROVE  EditionInv'
<1>1. Luang \in Aktivasi /\ ~Luang.berjalan
  BY DEF Luang, Aktivasi, Atau
<1>2. /\ aktivasi' = [aktivasi EXCEPT ![e] = Luang]
      /\ UNCHANGED <<edisi, kontributor>> /\ hariIni' \in Tanggal
  BY DEF BatalAktivasi, EditionInv, TypeOK
<1>3. aktivasi' \in [Edisi -> Aktivasi] /\ \A x \in Edisi : Terkunci(x)' => Terkunci(x)
  BY <1>1, <1>2 DEF EditionInv, TypeOK, Terkunci
<1>. QED
  BY <1>2, <1>3, RowsStep

LEMMA HariStep ==
    ASSUME EditionInv, GantiHari
    PROVE  EditionInv'
<1>1. hariIni' \in Tanggal
  BY EditionAssumption DEF GantiHari, EditionInv, TypeOK, Tanggal
<1>2. UNCHANGED <<edisi, kontributor, aktivasi>>
  BY DEF GantiHari
<1>3. aktivasi' \in [Edisi -> Aktivasi] /\ \A x \in Edisi : Terkunci(x)' => Terkunci(x)
  BY <1>2 DEF EditionInv, TypeOK, Terkunci
<1>. QED
  BY <1>1, <1>2, <1>3, RowsStep

LEMMA SiapBukti ==
    ASSUME NEW e \in Edisi, edisi[e] \in Row, Bukti(edisi[e]), Siap(edisi[e])
    PROVE  /\ edisi[e].isi # Kosong /\ edisi[e].sah
           /\ edisi[e].manifes = [isi |-> edisi[e].isi, sumber |-> edisi[e].sumber]
           /\ edisi[e].dampak.isi = edisi[e].isi
           /\ edisi[e].dampak.pendahulu = edisi[e].menggantikan
           /\ edisi[e].dampak.isiPendahulu =
                IF edisi[e].menggantikan = Kosong THEN Kosong
                ELSE edisi[edisi[e].menggantikan].isi
<1>1. edisi[e].isi # Kosong
  BY EditionAssumption DEF Siap, Lengkap
<1>. QED
  BY <1>1 DEF Siap, Lengkap, Bukti

\* Publication: the candidate takes the place of the edition it was cloned
\* from, or the first place.
LEMMA ActivateStep ==
    ASSUME EditionInv, NEW e \in Edisi, Activate(e)
    PROVE  EditionInv'
<1>. USE DEF EditionInv
<1>. DEFINE a == Kini(e)
<1>1. /\ edisi[e].menggantikan = a
      /\ a # Kosong => /\ a \in Edisi /\ edisi[a].status = "active"
                       /\ edisi[e].from > edisi[a].from
      /\ Aktif \subseteq {a}
  <2>1. Mutakhir(edisi[e], a) /\ SatuAktif(a)
    BY DEF Activate
  <2>2. aktivasi[e].terlihat \in Atau(Edisi)
    BY DEF TypeOK, Aktivasi
  <2>3. a # Kosong => a \in Edisi /\ edisi[a].status = "active"
    BY <2>2 DEF Kini, Atau
  <2>. QED
    BY <2>1, <2>3 DEF Mutakhir, SatuAktif
<1>2. /\ edisi[e].status \in Proses /\ Siap(edisi[e]) /\ ~Diterbitkan(e)
      /\ UNCHANGED <<kontributor, hariIni>>
      /\ aktivasi' = [aktivasi EXCEPT ![e] = Luang]
  BY DEF Activate, Kunci, Diterbitkan, Terbit, Proses
<1>3. a # e
  BY <1>1, <1>2, KosongBukan DEF Proses
<1>4. PICK terbit, tutup :
        /\ terbit = [edisi[e] EXCEPT !.status = "active", !.to = 0]
        /\ tutup = IF a = Kosong THEN edisi[e]
                   ELSE [edisi[a] EXCEPT !.status = "superseded",
                                         !.to = HariSebelum(edisi[e].from)]
  OBVIOUS
<1>5. /\ edisi'[e] = terbit
      /\ a # Kosong => edisi'[a] = tutup
      /\ \A x \in Edisi : x # e /\ x # a => edisi'[x] = edisi[x]
      /\ DOMAIN edisi' = Edisi
      /\ edisi' = [x \in Edisi |-> edisi'[x]]
  <2>1. edisi' = [x \in Edisi |->
                   CASE x = e -> [edisi[x] EXCEPT !.status = "active", !.to = 0]
                     [] x = a -> [edisi[x] EXCEPT !.status = "superseded",
                                                  !.to = HariSebelum(edisi[e].from)]
                     [] OTHER -> edisi[x]]
    BY DEF Activate
  <2>. QED
    BY <1>1, <1>3, <1>4, <2>1
<1>6. edisi[e] \in Row /\ \A x \in Edisi : edisi[x] \in Row /\ edisi[x].from \in Nat \ {0}
  BY RowTypes DEF TypeOK, Tanggal
<1>7. /\ terbit \in Row /\ terbit.status = "active" /\ terbit.to = 0
      /\ terbit.from = edisi[e].from /\ terbit.menggantikan = edisi[e].menggantikan
      /\ terbit.isi = edisi[e].isi /\ terbit.sumber = edisi[e].sumber
      /\ terbit.sah = edisi[e].sah
      /\ terbit.manifes = edisi[e].manifes /\ terbit.dampak = edisi[e].dampak
      /\ terbit.pembuat = edisi[e].pembuat /\ terbit.pengaju = edisi[e].pengaju
      /\ terbit.penelaah = edisi[e].penelaah /\ terbit.penyetuju = edisi[e].penyetuju
  <2>1. 0 \in 0 .. MaxTanggal /\ "active" \in {"none"} \cup Proses \cup Terbit
    BY EditionAssumption DEF Terbit
  <2>. QED
    BY <1>4, <1>6, <2>1 DEF Row
<1>8. a # Kosong =>
        /\ tutup \in Row /\ tutup.status = "superseded"
        /\ tutup.to = edisi[e].from - 1
        /\ tutup.from = edisi[a].from /\ tutup.menggantikan = edisi[a].menggantikan
        /\ tutup.isi = edisi[a].isi /\ tutup.sumber = edisi[a].sumber
        /\ tutup.sah = edisi[a].sah
        /\ tutup.manifes = edisi[a].manifes /\ tutup.dampak = edisi[a].dampak
        /\ tutup.pembuat = edisi[a].pembuat /\ tutup.pengaju = edisi[a].pengaju
        /\ tutup.penelaah = edisi[a].penelaah /\ tutup.penyetuju = edisi[a].penyetuju
  <2>1. edisi[e].from - 1 \in 0 .. MaxTanggal
    BY <1>6, RowTypes, EditionAssumption DEF Tanggal
  <2>2. "superseded" \in {"none"} \cup Proses \cup Terbit
    BY DEF Terbit
  <2>. QED
    BY <1>1, <1>4, <1>6, <2>1, <2>2 DEF Row, HariSebelum
<1>. HIDE DEF a
<1>9. TypeOK'
  <2>1. edisi' \in [Edisi -> Row]
    <3>1. ASSUME NEW x \in Edisi PROVE edisi'[x] \in Row
      BY <1>1, <1>5, <1>6, <1>7, <1>8, KosongBukan
    <3>. QED
      BY <1>5, <3>1
  <2>2. Luang \in Aktivasi
    BY DEF Luang, Aktivasi, Atau
  <2>. QED
    BY <1>2, <2>1, <2>2 DEF TypeOK
\* What the properties look at stays the same in every row ...
<1>10. ASSUME NEW x \in Edisi
       PROVE  /\ edisi'[x].menggantikan = edisi[x].menggantikan
              /\ edisi'[x].from = edisi[x].from
              /\ edisi'[x].isi = edisi[x].isi /\ edisi'[x].sumber = edisi[x].sumber
              /\ edisi'[x].sah = edisi[x].sah
              /\ edisi'[x].manifes = edisi[x].manifes
              /\ edisi'[x].dampak = edisi[x].dampak
              /\ edisi'[x].pembuat = edisi[x].pembuat
              /\ edisi'[x].pengaju = edisi[x].pengaju
              /\ edisi'[x].penelaah = edisi[x].penelaah
              /\ edisi'[x].penyetuju = edisi[x].penyetuju
  <2>1. CASE x = e
    BY <1>5, <1>7, <2>1
  <2>2. CASE x = a
    BY <1>5, <1>8, <2>2, KosongBukan
  <2>3. CASE x # e /\ x # a
    BY <1>5, <2>3
  <2>. QED
    BY <2>1, <2>2, <2>3
\* ... but for the two editions that change places.
<1>11. /\ \A x \in Edisi : Diterbitkan(x)' <=> Diterbitkan(x) \/ x = e
       /\ \A x \in Edisi : (edisi'[x].status = "superseded")
                            <=> edisi[x].status = "superseded" \/ x = a
       /\ \A x \in Edisi : edisi'[x].status \notin Terbit => edisi'[x].status = edisi[x].status
       /\ Aktif' = {e}
  <2>1. edisi'[e].status = "active" /\ edisi[e].status \in Proses
    BY <1>2, <1>5, <1>7
  <2>2. a \in Edisi => edisi'[a].status = "superseded" /\ edisi[a].status = "active"
    BY <1>1, <1>5, <1>8, KosongBukan
  <2>3. \A x \in Edisi : x # e /\ x # a => edisi'[x].status = edisi[x].status
    BY <1>5
  <2>4. \A x \in Edisi : edisi[x].status = "active" => x = a
    BY <1>1 DEF Aktif
  <2>5. Aktif' = {e}
    BY <2>1, <2>2, <2>3, <2>4 DEF Aktif
  <2>. QED
    BY <1>3, <2>1, <2>2, <2>3, <2>5 DEF Diterbitkan, Terbit, Proses
<1>12. ASSUME NEW x \in Edisi PROVE Bukti(edisi[x])'
  <2>1. Bukti(edisi[x]) /\ edisi[x].menggantikan \in Atau(Edisi)
    BY <1>6, RowTypes
  <2>2. edisi[x].menggantikan # Kosong =>
          edisi'[edisi[x].menggantikan].isi = edisi[edisi[x].menggantikan].isi
    BY <1>10, <2>1 DEF Atau
  <2>. QED
    BY <1>10, <1>11, <2>1, <2>2 DEF Bukti, Atau
<1>13. ASSUME NEW x \in Edisi PROVE Telaah(edisi[x], kontributor[x])'
  BY <1>2, <1>10, <1>11 DEF Telaah, Terbit
<1>14. ASSUME NEW x \in Edisi PROVE (Kunci(x) /\ Sah(x))'
  <2>1. Siap(edisi[x])' <=> Siap(edisi[x])
    BY <1>10 DEF Siap, Lengkap
  <2>2. Kunci(x)'
    <3>1. CASE x = e
      BY <1>2, <3>1 DEF Kunci, Terkunci, Luang, TypeOK
    <3>2. CASE x # e
      <4>1. Terkunci(x)' => Terkunci(x) /\ x # a
        <5>1. Terkunci(x)' <=> Terkunci(x)
          BY <1>2, <3>2 DEF Terkunci, TypeOK
        <5>2. x = a => edisi[x].status = "active"
          BY <1>1, KosongBukan
        <5>. QED
          BY <5>1, <5>2 DEF Kunci, Proses
      <4>. QED
        BY <1>5, <2>1, <3>2, <4>1 DEF Kunci
    <3>. QED
      BY <3>1, <3>2
  <2>3. Sah(x)'
    <3>1. x = e => edisi[x].isi # Kosong
      BY <1>2, <1>6, SiapBukti
    <3>. QED
      BY <1>2, <1>10, <1>11, <2>1, <3>1 DEF Sah
  <2>. QED
    BY <2>2, <2>3
<1>15. ASSUME NEW x \in Edisi, Diterbitkan(x) PROVE x # e /\ Suksesi(x)
  BY <1>2, <1>15 DEF Garis
\* No published edition has the candidate's predecessor.
<1>16. \A f \in Edisi : Diterbitkan(f) => edisi[f].menggantikan # edisi[e].menggantikan
  <2>1. CASE a = Kosong
    <3>1. Aktif = {}
      BY <1>1, <2>1, KosongBukan DEF Aktif
    <3>. QED
      BY <1>15, <3>1 DEF Suksesi
  <2>2. CASE a # Kosong
    BY <1>1, <1>15, <2>2 DEF Suksesi
  <2>. QED
    BY <2>1, <2>2
<1>17. ASSUME NEW x \in Edisi, Diterbitkan(x)' PROVE Suksesi(x)'
  <2>1. (edisi[x].status = "active" => edisi[x].to = 0)'
    <3>1. edisi'[x].status = "active" => x = e
      BY <1>11 DEF Aktif
    <3>. QED
      BY <1>5, <1>7, <3>1
  <2>2. ASSUME edisi'[x].status = "superseded"
        PROVE  \E f \in Edisi :
                 /\ Diterbitkan(f)'
                 /\ edisi'[f].menggantikan = x
                 /\ edisi'[x].to = edisi'[f].from - 1
                 /\ edisi'[x].from <= edisi'[x].to
    <3>1. CASE x = a
      <4>1. x # Kosong
        BY KosongBukan
      <4>. QED
        BY <1>1, <1>5, <1>6, <1>7, <1>8, <1>11, <3>1, <4>1
    <3>2. CASE x # a
      <4>1. edisi[x].status = "superseded" /\ x # e /\ edisi'[x] = edisi[x]
        BY <1>2, <1>5, <1>11, <2>2, <3>2 DEF Proses
      <4>2. Suksesi(x)
        BY <1>15, <4>1 DEF Diterbitkan, Terbit
      <4>3. PICK f \in Edisi : /\ Diterbitkan(f)
                               /\ edisi[f].menggantikan = x
                               /\ edisi[x].to = edisi[f].from - 1
                               /\ edisi[x].from <= edisi[x].to
        BY <4>1, <4>2 DEF Suksesi
      <4>. QED
        BY <1>10, <1>11, <4>1, <4>3
    <3>. QED
      BY <3>1, <3>2
  <2>3. ASSUME NEW f \in Edisi, Diterbitkan(f)',
               edisi'[f].menggantikan = edisi'[x].menggantikan
        PROVE  x = f
    <3>1. edisi[f].menggantikan = edisi[x].menggantikan
      BY <1>10, <2>3
    <3>2. CASE x = e \/ f = e
      BY <1>11, <1>16, <1>17, <2>3, <3>1, <3>2
    <3>3. CASE x # e /\ f # e
      BY <1>11, <1>15, <1>17, <2>3, <3>1, <3>3 DEF Suksesi
    <3>. QED
      BY <3>2, <3>3
  <2>4. (edisi[x].menggantikan # Kosong =>
           edisi[edisi[x].menggantikan].status = "superseded")'
    <3>1. CASE x = e
      BY <1>1, <1>10, <1>11, <3>1
    <3>2. CASE x # e
      <4>1. Suksesi(x)
        BY <1>11, <1>15, <1>17, <3>2
      <4>2. edisi[x].menggantikan \in Atau(Edisi)
        BY <1>6, RowTypes
      <4>. QED
        BY <1>10, <1>11, <4>1, <4>2 DEF Suksesi, Atau
    <3>. QED
      BY <3>1, <3>2
  <2>5. Aktif' # {}
    BY <1>11
  <2>. QED
    BY <2>1, <2>2, <2>3, <2>4, <2>5 DEF Suksesi
<1>18. Garis'
  BY <1>11, <1>17 DEF Garis
<1>. QED
  BY <1>9, <1>12, <1>13, <1>14, <1>18

(***************************************************************************)
(* Theorems.                                                               *)
(***************************************************************************)

LEMMA NextEditionInv == EditionInv /\ [Next]_vars => EditionInv'
<1>. SUFFICES ASSUME EditionInv, [Next]_vars PROVE EditionInv'
  OBVIOUS
<1>1. ASSUME NEW e \in Edisi, NEW p \in Orang, DraftStep(p, e) PROVE EditionInv'
  BY <1>1, CloneStep, SuntingStep, ManifesStep, DampakStep DEF DraftStep
<1>2. ASSUME NEW e \in Edisi, NEW p \in Orang, ReviewStep(p, e) PROVE EditionInv'
  BY <1>2, SubmitStep, ReviewStepInv, ApproveStep DEF ReviewStep
<1>3. ASSUME NEW e \in Edisi,
             \/ \E bersih \in BOOLEAN : PindaiSumber(e, bersih)
             \/ ReturnToDraft(e)
             \/ MulaiAktivasi(e) \/ Activate(e) \/ BatalAktivasi(e)
      PROVE  EditionInv'
  BY <1>3, PindaiStep, ReturnStep, MulaiStep, ActivateStep, BatalStep
<1>4. ASSUME UNCHANGED vars PROVE EditionInv'
  <2>1. UNCHANGED <<edisi, kontributor>> /\ aktivasi' = aktivasi /\ hariIni' = hariIni
    BY <1>4 DEF vars
  <2>2. hariIni' \in Tanggal /\ aktivasi' \in [Edisi -> Aktivasi]
    BY <2>1 DEF EditionInv, TypeOK
  <2>3. \A x \in Edisi : Terkunci(x)' => Terkunci(x)
    BY <2>1 DEF Terkunci
  <2>. QED
    BY <2>1, <2>2, <2>3, RowsStep
<1>. QED
  BY <1>1, <1>2, <1>3, <1>4, HariStep, PetugasOrang DEF Next

LEMMA SpecEditionInv == Spec => []EditionInv
BY InitEditionInv, NextEditionInv, PTL DEF Spec

\* Every row, activation and date keeps its type.
THEOREM EditionsTyped == Spec => []TypeOK
<1>1. EditionInv => TypeOK
  BY DEF EditionInv
<1>. QED
  BY <1>1, SpecEditionInv, PTL

\* The published editions are one line of succession, without gap or overlap.
THEOREM EditionsInSuccession == Spec => []MasaBerlakuBersambung
<1>1. EditionInv => MasaBerlakuBersambung
  BY DEF EditionInv, Garis, Suksesi, MasaBerlakuBersambung
<1>. QED
  BY <1>1, SpecEditionInv, PTL

\* What is published is what was attested and compared.
THEOREM EditionsMatchEvidence == Spec => []TerbitSesuaiBukti
<1>1. ASSUME EditionInv, NEW e \in Edisi, Diterbitkan(e)
      PROVE  LET a == edisi[e].menggantikan IN
               /\ edisi[e].sah
               /\ edisi[e].manifes = [isi |-> edisi[e].isi, sumber |-> edisi[e].sumber]
               /\ edisi[e].dampak =
                    [isi |-> edisi[e].isi, pendahulu |-> a,
                     isiPendahulu |-> IF a = Kosong THEN Kosong ELSE edisi[a].isi]
  <2>1. edisi[e] \in Row /\ Bukti(edisi[e]) /\ Siap(edisi[e])
    BY <1>1 DEF EditionInv, TypeOK, Sah
  <2>2. edisi[e].dampak \in Dampak
    BY <2>1, RowTypes
  <2>. QED
    BY <2>1, <2>2, SiapBukti DEF Dampak
<1>2. EditionInv => TerbitSesuaiBukti
  BY <1>1 DEF TerbitSesuaiBukti
<1>. QED
  BY <1>2, SpecEditionInv, PTL

\* Reviewer and approver neither created the edition nor worked on it in any
\* round, did not submit it in this one, and are not each other.
THEOREM ReviewersIndependent == Spec => []PenelaahMandiri
<1>1. EditionInv => PenelaahMandiri
  BY DEF EditionInv, Telaah, PenelaahMandiri
<1>. QED
  BY <1>1, SpecEditionInv, PTL

(***************************************************************************)
(* The calendar: every publication takes over the days from its own first  *)
(* one on.                                                                 *)
(***************************************************************************)

\* Whoever is superseded ends before the edition in force begins.
Rapat ==
    \A a, x \in Edisi :
      edisi[a].status = "active" /\ edisi[x].status = "superseded" =>
        edisi[x].to < edisi[a].from

\* A candidate whose row is held has begun.
Tiba == \A e \in Edisi : Terkunci(e) => edisi[e].from <= hariIni

CalendarInv == EditionInv /\ Rapat /\ Tiba

\* The steps that publish nothing ...
Diam ==
    /\ \A x \in Edisi : /\ Diterbitkan(x)' = Diterbitkan(x)
                        /\ Diterbitkan(x) => edisi'[x] = edisi[x]
    /\ \A x \in Edisi : Terkunci(x)' =>
         \/ Terkunci(x) /\ edisi'[x] = edisi[x]
         \/ edisi'[x].from <= hariIni'
    /\ hariIni' = hariIni \/ (hariIni < MaxTanggal /\ hariIni' = hariIni + 1)

LEMMA DiamRow ==
    ASSUME EditionInv, NEW e \in Edisi, NEW row,
           edisi' = [edisi EXCEPT ![e] = row],
           ~Diterbitkan(e), row.status \notin Terbit, ~Terkunci(e),
           UNCHANGED <<aktivasi, hariIni>>
    PROVE  Diam
<1>1. edisi'[e] = row /\ \A x \in Edisi : x # e => edisi'[x] = edisi[x]
  BY DEF EditionInv, TypeOK
<1>2. \A x \in Edisi : Terkunci(x)' => Terkunci(x) /\ x # e
  BY DEF Terkunci
<1>. QED
  BY <1>1, <1>2 DEF Diam, Diterbitkan

\* ... are all but the last one of an activation.
LEMMA DraftDiam ==
    ASSUME EditionInv, NEW p \in Orang, NEW e \in Edisi, DraftStep(p, e)
    PROVE  Diam
<1>1. edisi[e] \in Row /\ "draft" \notin Terbit
  BY DEF EditionInv, TypeOK, Terbit
<1>2. ASSUME NEW from \in Tanggal, NEW ulang \in BOOLEAN, CloneActive(p, e, from, ulang)
      PROVE  Diam
  <2>0. PICK a \in Edisi :
          Ubah(e, Baru("draft", from, a, edisi[a].isi,
                       IF ulang THEN edisi[a].sumber ELSE Kosong, p))
    BY <1>2 DEF CloneActive
  <2>1. PICK row : /\ row = Baru("draft", from, a, edisi[a].isi,
                                 IF ulang THEN edisi[a].sumber ELSE Kosong, p)
                   /\ edisi' = [edisi EXCEPT ![e] = row]
    BY <2>0 DEF Ubah
  <2>2. row.status = "draft"
    BY <2>1 DEF Baru
  <2>3. ~Diterbitkan(e) /\ ~Terkunci(e) /\ UNCHANGED <<aktivasi, hariIni>>
    BY <1>2 DEF CloneActive, EditionInv, Kunci, Diterbitkan, Terbit, Proses
  <2>. QED
    BY <1>1, <2>1, <2>2, <2>3, DiamRow
<1>3. ASSUME NEW row, edisi' = [edisi EXCEPT ![e] = row], row.status = edisi[e].status,
             Berstatus(e, "draft"), UNCHANGED <<aktivasi, hariIni>>
      PROVE  Diam
  BY <1>1, <1>3, DiamRow DEF Berstatus, Diterbitkan
<1>4. ASSUME NEW isi \in Isi, UbahButir(p, e, isi) \/ ReplaceDraftItems(p, e, isi)
      PROVE  Diam
  <2>1. PICK row : /\ row = TanpaBukti([edisi[e] EXCEPT !.isi = isi])
                   /\ edisi' = [edisi EXCEPT ![e] = row]
    BY <1>4 DEF UbahButir, ReplaceDraftItems, Ubah
  <2>2. row.status = edisi[e].status
    BY <1>1, <2>1 DEF TanpaBukti, Row
  <2>. QED
    BY <1>3, <1>4, <2>1, <2>2 DEF UbahButir, ReplaceDraftItems
<1>5. ASSUME NEW pdf \in Sumber, VerifySourceDocument(p, e, pdf) PROVE Diam
  <2>1. PICK row : /\ row = TanpaBukti([edisi[e] EXCEPT !.sumber = pdf, !.sah = FALSE])
                   /\ edisi' = [edisi EXCEPT ![e] = row]
    BY <1>5 DEF VerifySourceDocument, Ubah
  <2>2. row.status = edisi[e].status
    BY <1>1, <2>1 DEF TanpaBukti, Row
  <2>. QED
    BY <1>3, <1>5, <2>1, <2>2 DEF VerifySourceDocument
<1>6. CASE VerifyCompletenessManifest(p, e)
  <2>1. PICK m, row : /\ row = [edisi[e] EXCEPT !.manifes = m, !.dampak = TanpaDampak]
                      /\ edisi' = [edisi EXCEPT ![e] = row]
    BY <1>6 DEF VerifyCompletenessManifest, Ubah
  <2>2. row.status = edisi[e].status
    BY <1>1, <2>1 DEF Row
  <2>. QED
    BY <1>3, <1>6, <2>1, <2>2 DEF VerifyCompletenessManifest
<1>7. CASE GenerateImpactReport(p, e)
  <2>1. PICK m, row : /\ row = [edisi[e] EXCEPT !.dampak = m]
                      /\ edisi' = [edisi EXCEPT ![e] = row]
    BY <1>7 DEF GenerateImpactReport, Ubah
  <2>2. row.status = edisi[e].status
    BY <1>1, <2>1 DEF Row
  <2>. QED
    BY <1>3, <1>7, <2>1, <2>2 DEF GenerateImpactReport
<1>. QED
  BY <1>2, <1>4, <1>5, <1>6, <1>7 DEF DraftStep

LEMMA ReviewDiam ==
    ASSUME EditionInv, NEW e \in Edisi,
           \/ \E p \in Orang : ReviewStep(p, e)
           \/ \E bersih \in BOOLEAN : PindaiSumber(e, bersih)
           \/ ReturnToDraft(e)
    PROVE  Diam
<1>1. edisi[e] \in Row
  BY DEF EditionInv, TypeOK
<1>2. \E row : edisi' = [edisi EXCEPT ![e] = row] /\ row.status \in Proses
  <2>. DEFINE P(row) == edisi' = [edisi EXCEPT ![e] = row] /\ row.status \in Proses
  <2>1. ASSUME NEW p \in Orang, Submit(p, e) PROVE \E row : P(row)
    <3>1. P(TanpaTelaah([edisi[e] EXCEPT !.status = "submitted", !.pengaju = p]))
      BY <1>1, <2>1 DEF Submit, Ubah, TanpaTelaah, Row, Proses
    <3>. QED
      BY <3>1
  <2>2. ASSUME NEW p \in Orang, Review(p, e) PROVE \E row : P(row)
    <3>1. P([edisi[e] EXCEPT !.status = "reviewed", !.penelaah = p])
      BY <1>1, <2>2 DEF Review, Ubah, Row, Proses
    <3>. QED
      BY <3>1
  <2>3. ASSUME NEW p \in Orang, Approve(p, e) PROVE \E row : P(row)
    <3>1. P([edisi[e] EXCEPT !.status = "approved", !.penyetuju = p])
      BY <1>1, <2>3 DEF Approve, Ubah, Row, Proses
    <3>. QED
      BY <3>1
  <2>4. ASSUME ReturnToDraft(e) PROVE \E row : P(row)
    <3>1. P(TanpaTelaah([edisi[e] EXCEPT !.status = "draft", !.pengaju = Kosong]))
      BY <1>1, <2>4 DEF ReturnToDraft, Ubah, TanpaTelaah, Row, Proses
    <3>. QED
      BY <3>1
  <2>5. ASSUME NEW bersih \in BOOLEAN, PindaiSumber(e, bersih) PROVE \E row : P(row)
    <3>1. P([edisi[e] EXCEPT !.sah = bersih])
      BY <1>1, <2>5 DEF PindaiSumber, Berstatus, Ubah, Row, Proses
    <3>. QED
      BY <3>1
  <2>. HIDE DEF P
  <2>6. \E row : P(row)
    BY <2>1, <2>2, <2>3, <2>4, <2>5 DEF ReviewStep
  <2>. QED
    BY <2>6 DEF P
<1>3. /\ edisi[e].status \in Proses /\ ~Terkunci(e)
      /\ UNCHANGED <<aktivasi, hariIni>>
  BY DEF ReviewStep, Submit, Review, Approve, PindaiSumber, ReturnToDraft, Berstatus, Proses
<1>4. PICK row : edisi' = [edisi EXCEPT ![e] = row] /\ row.status \in Proses
  BY <1>2
<1>5. ~Diterbitkan(e) /\ row.status \notin Terbit
  BY <1>3, <1>4 DEF Diterbitkan, Terbit, Proses
<1>. QED
  BY <1>3, <1>4, <1>5, DiamRow

LEMMA LockDiam ==
    ASSUME EditionInv,
           \/ \E e \in Edisi : MulaiAktivasi(e) \/ BatalAktivasi(e)
           \/ GantiHari \/ UNCHANGED vars
    PROVE  Diam
<1>1. edisi' = edisi
  BY DEF MulaiAktivasi, BatalAktivasi, GantiHari, vars
<1>2. \A x \in Edisi : Terkunci(x)' => Terkunci(x) \/ edisi'[x].from <= hariIni'
  <2>1. ASSUME NEW e \in Edisi, MulaiAktivasi(e)
        PROVE  \A x \in Edisi : Terkunci(x)' => Terkunci(x) \/ edisi'[x].from <= hariIni'
    <3>1. edisi[e].from <= hariIni /\ UNCHANGED <<edisi, hariIni>>
      BY <2>1 DEF MulaiAktivasi
    <3>2. \A x \in Edisi : x # e => aktivasi'[x] = aktivasi[x]
      BY <2>1 DEF MulaiAktivasi, EditionInv, TypeOK
    <3>. QED
      BY <3>1, <3>2 DEF Terkunci
  <2>2. ASSUME NEW e \in Edisi, BatalAktivasi(e)
        PROVE  \A x \in Edisi : Terkunci(x)' => Terkunci(x)
    BY <2>2 DEF BatalAktivasi, EditionInv, TypeOK, Terkunci, Luang
  <2>3. CASE GantiHari \/ UNCHANGED vars
    BY <2>3 DEF GantiHari, vars, Terkunci
  <2>. QED
    BY <2>1, <2>2, <2>3
<1>3. hariIni' = hariIni \/ (hariIni < MaxTanggal /\ hariIni' = hariIni + 1)
  BY DEF MulaiAktivasi, BatalAktivasi, GantiHari, vars
<1>. QED
  BY <1>1, <1>2, <1>3 DEF Diam, Diterbitkan

LEMMA NextDiam ==
    ASSUME EditionInv, [Next]_vars
    PROVE  Diam \/ \E e \in Edisi : Activate(e)
<1>1. ASSUME NEW e \in Edisi, NEW p \in Petugas[e], DraftStep(p, e) PROVE Diam
  BY <1>1, DraftDiam, PetugasOrang
<1>2. ASSUME NEW e \in Edisi, NEW p \in Petugas[e], ReviewStep(p, e) PROVE Diam
  BY <1>2, ReviewDiam, PetugasOrang
<1>. QED
  BY <1>1, <1>2, ReviewDiam, LockDiam DEF Next

\* What publication of e does to the rows: it closes the edition in force, if
\* there is one.
Terbitan(e, a) ==
    /\ a \in Atau(Edisi) /\ a # e /\ Aktif \subseteq {a}
    /\ edisi[e].menggantikan = a
    /\ edisi[e].status \in Proses /\ edisi[e].isi \in Isi
    /\ /\ edisi'[e].status = "active"
       /\ edisi'[e].from = edisi[e].from
       /\ edisi'[e].isi = edisi[e].isi
       /\ edisi'[e].menggantikan = a
    /\ a # Kosong => /\ edisi[a].status = "active" /\ edisi[a].from < edisi[e].from
                     /\ edisi'[a].status = "superseded"
                     /\ edisi'[a].to = edisi[e].from - 1
                     /\ edisi'[a].from = edisi[a].from
                     /\ edisi'[a].isi = edisi[a].isi
                     /\ edisi'[a].menggantikan = edisi[a].menggantikan
    /\ \A x \in Edisi : x # e /\ x # a => edisi'[x] = edisi[x]
    /\ \A x \in Edisi : Terkunci(x)' => Terkunci(x) /\ x # e
    /\ Terkunci(e)
    /\ hariIni' = hariIni

LEMMA ActivateTerbitan ==
    ASSUME EditionInv, NEW e \in Edisi, Activate(e)
    PROVE  \E a : Terbitan(e, a)
<1>. USE DEF EditionInv
<1>1. PICK a : a = Kini(e)
  OBVIOUS
<1>2. a \in Atau(Edisi) /\ (a # Kosong => edisi[a].status = "active")
  <2>1. aktivasi[e].terlihat \in Atau(Edisi)
    BY DEF TypeOK, Aktivasi
  <2>. QED
    BY <1>1, <2>1 DEF Kini, Atau
<1>3. /\ Mutakhir(edisi[e], a) /\ Aktif \subseteq {a} /\ Terkunci(e)
      /\ hariIni' = hariIni
      /\ aktivasi' = [aktivasi EXCEPT ![e] = Luang]
  BY <1>1 DEF Activate, SatuAktif
<1>4. edisi[e].status \in Proses /\ Siap(edisi[e]) /\ edisi[e].isi \in Isi
  <2>1. edisi[e].status \in Proses /\ Siap(edisi[e]) /\ edisi[e] \in Row
    BY <1>3 DEF Kunci, TypeOK
  <2>. QED
    BY <2>1, SiapBukti, RowTypes DEF Atau
<1>5. a # e
  BY <1>2, <1>4, KosongBukan DEF Proses
<1>6. edisi[e] \in Row /\ (a # Kosong => edisi[a] \in Row /\ a \in Edisi)
  BY <1>2 DEF TypeOK, Atau
<1>7. /\ edisi'[e] = [edisi[e] EXCEPT !.status = "active", !.to = 0]
      /\ a # Kosong => edisi'[a] = [edisi[a] EXCEPT !.status = "superseded",
                                                    !.to = HariSebelum(edisi[e].from)]
      /\ \A x \in Edisi : x # e /\ x # a => edisi'[x] = edisi[x]
  <2>1. edisi' = [x \in Edisi |->
                   CASE x = e -> [edisi[x] EXCEPT !.status = "active", !.to = 0]
                     [] x = Kini(e) -> [edisi[x] EXCEPT !.status = "superseded",
                                                        !.to = HariSebelum(edisi[e].from)]
                     [] OTHER -> edisi[x]]
    BY DEF Activate
  <2>. QED
    BY <1>1, <1>5, <1>6, <2>1
<1>8. /\ edisi'[e].status = "active"
      /\ edisi'[e].from = edisi[e].from
      /\ edisi'[e].isi = edisi[e].isi
      /\ edisi'[e].menggantikan = edisi[e].menggantikan
  BY <1>6, <1>7 DEF Row
<1>9. a # Kosong => /\ edisi'[a].status = "superseded"
                    /\ edisi'[a].to = edisi[e].from - 1
                    /\ edisi'[a].from = edisi[a].from
                    /\ edisi'[a].isi = edisi[a].isi
                    /\ edisi'[a].menggantikan = edisi[a].menggantikan
  BY <1>6, <1>7 DEF Row, HariSebelum
<1>10. \A x \in Edisi : Terkunci(x)' => Terkunci(x) /\ x # e
  BY <1>3 DEF TypeOK, Terkunci, Luang
<1>11. edisi[e].menggantikan = a /\ (a # Kosong => edisi[a].from < edisi[e].from)
  <2>1. edisi[e].from \in Nat /\ (a # Kosong => edisi[a].from \in Nat)
    BY <1>6, RowTypes DEF Tanggal
  <2>. QED
    BY <1>3, <2>1 DEF Mutakhir
<1>12. Terbitan(e, a)
  BY <1>2, <1>3, <1>4, <1>5, <1>7, <1>8, <1>9, <1>10, <1>11 DEF Terbitan
<1>. QED
  BY <1>12

LEMMA InitCalendar == Init => CalendarInv
<1>1. Init => \A e \in Edisi : edisi[e].status \notin Terbit /\ ~Terkunci(e)
  BY DEF Init, Baru, Terbit, Terkunci, Luang
<1>. QED
  BY <1>1, InitEditionInv DEF CalendarInv, Rapat, Tiba, Terbit

LEMMA DateTypes ==
    ASSUME EditionInv
    PROVE  /\ \A x \in Edisi : edisi[x].from \in Tanggal /\ edisi[x].to \in Nat
           /\ hariIni \in Tanggal /\ MaxTanggal \in Tanggal
           /\ \A d \in Tanggal : d \in Nat /\ 1 <= d /\ d <= MaxTanggal
BY RowTypes, EditionAssumption DEF EditionInv, TypeOK, Tanggal

LEMMA CalendarStep == CalendarInv /\ [Next]_vars => CalendarInv'
<1>. SUFFICES ASSUME CalendarInv, [Next]_vars PROVE CalendarInv'
  OBVIOUS
<1>1. EditionInv /\ EditionInv'
  BY NextEditionInv DEF CalendarInv
<1>2. /\ \A x \in Edisi : edisi[x].from \in Nat /\ edisi[x].to \in Nat
      /\ \A x \in Edisi : edisi'[x].from \in Nat
      /\ hariIni \in Nat
  BY <1>1, RowTypes DEF EditionInv, TypeOK, Tanggal
<1>3. CASE Diam
  <2>1. Rapat'
    BY <1>3 DEF CalendarInv, Rapat, Diam, Diterbitkan, Terbit
  <2>2. Tiba'
    BY <1>2, <1>3 DEF CalendarInv, Tiba, Diam
  <2>. QED
    BY <1>1, <2>1, <2>2 DEF CalendarInv
<1>4. ASSUME NEW e \in Edisi, Activate(e) PROVE CalendarInv'
  <2>1. PICK a : Terbitan(e, a)
    BY <1>1, <1>4, ActivateTerbitan
  <2>2. ASSUME NEW x \in Edisi, edisi'[x].status = "active" PROVE x = e
    <3>1. x # a
      BY <2>1, <2>2, KosongBukan DEF Terbitan
    <3>2. x # e => edisi[x].status = "active"
      BY <2>1, <2>2, <3>1 DEF Terbitan
    <3>. QED
      BY <2>1, <3>1, <3>2 DEF Terbitan, Aktif
  <2>3. ASSUME NEW x \in Edisi, edisi'[x].status = "superseded"
        PROVE  edisi'[x].to < edisi[e].from
    <3>1. CASE x = a
      BY <1>2, <2>1, <3>1, KosongBukan DEF Terbitan
    <3>2. CASE x # a
      <4>1. edisi[x] = edisi'[x] /\ x # e
        BY <2>1, <2>3, <3>2 DEF Terbitan
      <4>2. a # Kosong
        <5>1. Diterbitkan(x)
          BY <2>3, <4>1 DEF Diterbitkan, Terbit
        <5>2. Aktif # {}
          BY <1>1, <5>1 DEF EditionInv, Garis, Suksesi
        <5>. QED
          BY <2>1, <5>2, KosongBukan DEF Terbitan, Aktif
      <4>3. a \in Edisi
        BY <2>1, <4>2 DEF Terbitan, Atau
      <4>4. edisi[x].to < edisi[a].from /\ edisi[a].from < edisi[e].from
        BY <2>1, <2>3, <4>1, <4>2, <4>3 DEF Terbitan, CalendarInv, Rapat
      <4>. QED
        BY <1>2, <4>1, <4>3, <4>4
    <3>. QED
      BY <3>1, <3>2
  <2>4. Rapat'
    BY <2>1, <2>2, <2>3 DEF Rapat, Terbitan
  <2>5. ASSUME NEW x \in Edisi, Terkunci(x)' PROVE edisi'[x].from <= hariIni'
    <3>1. Terkunci(x) /\ x # e /\ edisi[x].status # "active"
      BY <1>1, <2>1, <2>5 DEF Terbitan, EditionInv, Kunci, Proses
    <3>2. edisi'[x] = edisi[x]
      BY <2>1, <3>1, KosongBukan DEF Terbitan
    <3>. QED
      BY <2>1, <3>1, <3>2 DEF Terbitan, CalendarInv, Tiba
  <2>. QED
    BY <1>1, <2>4, <2>5 DEF CalendarInv, Tiba
<1>. QED
  BY <1>1, <1>3, <1>4, NextDiam

(***************************************************************************)
(* The refinement.                                                         *)
(***************************************************************************)

Diumumkan(e) == IF Diterbitkan(e)
                THEN {[isi |-> edisi[e].isi, dari |-> edisi[e].from,
                       atas |-> {edisi[e].menggantikan} \ {Kosong}]}
                ELSE {}

LEMMA InitRules == Init => Aturan!RulesInit
<1>. SUFFICES ASSUME Init PROVE Aturan!RulesInit
  OBVIOUS
<1>1. \A e \in Edisi : ~Diterbitkan(e)
  BY DEF Init, Baru, Diterbitkan, Terbit
<1>2. \A d : {e \in Edisi : Berlaku(e, d)} = {}
  BY <1>1 DEF Berlaku
<1>. QED
  BY <1>1, <1>2 DEF Init, Aturan!RulesInit, Aturan!Kalender, Tanggal

\* What no publication touches: the calendar and what was published.
LEMMA DiamRules ==
    ASSUME EditionInv, Diam
    PROVE  [Aturan!RulesNext]_(Aturan!ruleVars)
<1>1. \A x \in Edisi : /\ Diterbitkan(x)' = Diterbitkan(x)
                       /\ Diterbitkan(x) => edisi'[x] = edisi[x]
  BY DEF Diam
<1>2. \A x \in Edisi, d \in Tanggal : Berlaku(x, d)' = Berlaku(x, d)
  BY <1>1 DEF Berlaku
<1>3. [d \in Tanggal |-> {e \in Edisi : Berlaku(e, d)}]'
        = [d \in Tanggal |-> {e \in Edisi : Berlaku(e, d)}]
  BY <1>2
<1>4. \A x \in Edisi : Diumumkan(x)' = Diumumkan(x)
  BY <1>1 DEF Diumumkan
<1>5. [e \in Edisi |-> Diumumkan(e)]' = [e \in Edisi |-> Diumumkan(e)]
  BY <1>4
<1>6. hariIni' = hariIni \/ (hariIni < MaxTanggal /\ hariIni' = hariIni + 1)
  BY DEF Diam
<1>. QED
  BY <1>3, <1>5, <1>6 DEF Diumumkan, Aturan!RulesNext, Aturan!Esok, Aturan!ruleVars

LEMMA PublishRules ==
    ASSUME CalendarInv, NEW e \in Edisi, NEW a, Terbitan(e, a)
    PROVE  Aturan!RulesNext
<1>. DEFINE dari == edisi[e].from
            isi == edisi[e].isi
            kini == {x \in Edisi : Berlaku(x, MaxTanggal)}
<1>. USE DEF CalendarInv
<1>1. /\ \A x \in Edisi : edisi[x].from \in Tanggal /\ edisi[x].to \in Nat
      /\ dari \in Tanggal /\ MaxTanggal \in Tanggal
      /\ \A d \in Tanggal : d \in Nat /\ 1 <= d /\ d <= MaxTanggal
  BY DateTypes
<1>2. a \in Atau(Edisi) /\ isi \in Isi
  BY DEF Terbitan
<1>3. ASSUME NEW x \in Edisi
      PROVE  Diterbitkan(x) => x # e /\ a # Kosong
                               /\ (x # a => edisi[x].status = "superseded")
  <2>1. Diterbitkan(x) => x # e
    BY DEF Terbitan, Diterbitkan, Terbit, Proses
  <2>2. edisi[x].status = "active" => x = a
    BY DEF Terbitan, Aktif
  <2>3. Diterbitkan(x) => a # Kosong
    BY KosongBukan DEF EditionInv, Garis, Suksesi, Terbitan, Aktif
  <2>. QED
    BY <2>1, <2>2, <2>3 DEF Diterbitkan, Terbit
<1>4. ASSUME NEW x \in Edisi, x # a, Diterbitkan(x), a # Kosong
      PROVE  edisi[x].to < edisi[a].from /\ edisi[a].from < dari
  BY <1>2, <1>3, <1>4 DEF Rapat, Terbitan, Atau
\* From the first day of the edition in force on, it is the only one.
<1>5. ASSUME a # Kosong, NEW d \in Tanggal, d >= edisi[a].from
      PROVE  {x \in Edisi : Berlaku(x, d)} = {a}
  <2>1. a \in Edisi /\ Berlaku(a, d)
    BY <1>2, <1>5 DEF Terbitan, Berlaku, Diterbitkan, Terbit, Atau
  <2>2. ASSUME NEW x \in Edisi, Berlaku(x, d), x # a PROVE FALSE
    <3>1. edisi[x].status = "superseded" /\ d <= edisi[x].to
      BY <1>3, <2>2 DEF Berlaku
    <3>2. edisi[x].to < edisi[a].from
      BY <1>4, <1>5, <2>2 DEF Berlaku
    <3>. QED
      BY <1>1, <1>5, <2>1, <3>1, <3>2
  <2>. QED
    BY <2>1, <2>2
<1>6. a = Kosong => \A d \in Tanggal : {x \in Edisi : Berlaku(x, d)} = {}
  BY <1>3 DEF Berlaku
<1>7. kini = {a} \ {Kosong}
  <2>1. CASE a = Kosong
    BY <1>1, <1>6, <2>1
  <2>2. CASE a # Kosong
    BY <1>1, <1>2, <1>5, <2>2 DEF Atau
  <2>. QED
    BY <2>1, <2>2
<1>8. /\ dari <= hariIni
      /\ \A d \in Tanggal : d >= dari => {x \in Edisi : Berlaku(x, d)} = kini
      /\ kini # {} => \E d \in Tanggal : d < dari /\ {x \in Edisi : Berlaku(x, d)} = kini
  <2>1. CASE a = Kosong
    BY <1>1, <1>6, <1>7, <2>1 DEF Terbitan, Tiba
  <2>2. CASE a # Kosong
    <3>1. edisi[a].from < dari /\ edisi[a].from \in Tanggal /\ kini = {a}
      BY <1>1, <1>2, <1>7, <2>2 DEF Terbitan, Atau
    <3>2. \A d \in Tanggal : d >= edisi[a].from => {x \in Edisi : Berlaku(x, d)} = kini
      BY <1>5, <2>2, <3>1
    <3>3. dari <= hariIni
      BY DEF Terbitan, Tiba
    <3>4. edisi[a].from \in Nat /\ dari \in Nat
      BY <1>1, <3>1
    <3>5. \A d \in Tanggal : d >= dari => d >= edisi[a].from
      BY <1>1, <3>1, <3>4
    <3>6. {x \in Edisi : Berlaku(x, edisi[a].from)} = kini
      BY <3>1, <3>2, <3>4
    <3>. QED
      BY <3>1, <3>2, <3>3, <3>5, <3>6
  <2>. QED
    BY <2>1, <2>2
\* The days from its first one on are the new edition's, the others stay.
<1>9. ASSUME NEW d \in Tanggal
       PROVE  {x \in Edisi : Berlaku(x, d)'}
                = IF d >= dari THEN {e} ELSE {x \in Edisi : Berlaku(x, d)}
  <2>1. Berlaku(e, d)' <=> d >= dari
    BY <1>1 DEF Terbitan, Berlaku, Diterbitkan, Terbit
  <2>2. ASSUME NEW x \in Edisi, x # e, x # a PROVE Berlaku(x, d)' <=> Berlaku(x, d)
    BY <2>2 DEF Terbitan, Berlaku, Diterbitkan
  <2>3. ~Berlaku(e, d)
    BY <1>3 DEF Berlaku
  <2>4. ASSUME a \in Edisi PROVE Berlaku(a, d)' <=> Berlaku(a, d) /\ d < dari
    <3>1. /\ edisi[a].status = "active" /\ edisi'[a].status = "superseded"
          /\ edisi'[a].from = edisi[a].from /\ edisi'[a].to = dari - 1
      BY <2>4, KosongBukan DEF Terbitan
    <3>2. Berlaku(a, d) <=> edisi[a].from <= d
      BY <3>1 DEF Berlaku, Diterbitkan, Terbit
    <3>3. Berlaku(a, d)' <=> edisi[a].from <= d /\ d <= dari - 1
      BY <3>1 DEF Berlaku, Diterbitkan, Terbit
    <3>. QED
      BY <1>1, <3>2, <3>3
  <2>5. CASE d >= dari
    <3>1. ASSUME NEW x \in Edisi, x # e PROVE ~Berlaku(x, d)'
      <4>1. CASE x = a
        BY <1>1, <2>4, <2>5, <4>1
      <4>2. CASE x # a
        <5>1. Berlaku(x, d) => FALSE
          <6>1. ASSUME Berlaku(x, d)
                PROVE  FALSE
            <7>1. /\ Diterbitkan(x) /\ a # Kosong
                  /\ edisi[x].status = "superseded" /\ d <= edisi[x].to
              BY <1>3, <4>2, <6>1 DEF Berlaku
            <7>2. edisi[x].to < edisi[a].from /\ edisi[a].from < dari /\ a \in Edisi
              BY <1>2, <1>4, <4>2, <7>1 DEF Atau
            <7>. QED
              BY <1>1, <2>5, <7>1, <7>2
          <6>. QED
            BY <6>1
        <5>. QED
          BY <2>2, <3>1, <4>2, <5>1
      <4>. QED
        BY <4>1, <4>2
    <3>. QED
      BY <2>1, <2>5, <3>1
  <2>6. CASE ~(d >= dari)
    <3>1. d < dari
      BY <1>1, <2>6
    <3>2. \A x \in Edisi : Berlaku(x, d)' <=> Berlaku(x, d)
      BY <2>1, <2>2, <2>3, <2>4, <2>6, <3>1
    <3>. QED
      BY <2>6, <3>2
  <2>. QED
    BY <2>5, <2>6
<1>10. [d \in Tanggal |-> {x \in Edisi : Berlaku(x, d)}]'
         = [d \in Tanggal |-> IF d >= dari THEN {e} ELSE {x \in Edisi : Berlaku(x, d)}]
  BY <1>9
<1>11. /\ Diumumkan(e) = {}
       /\ Diumumkan(e)' = {[isi |-> isi, dari |-> dari, atas |-> kini]}
       /\ \A x \in Edisi : x # e => Diumumkan(x)' = Diumumkan(x)
  <2>1. ~Diterbitkan(e)
    BY <1>3
  <2>2. Diterbitkan(e)' /\ {a} \ {Kosong} = kini
    BY <1>7 DEF Terbitan, Diterbitkan, Terbit
  <2>3. Diumumkan(e)' = {[isi |-> isi, dari |-> dari, atas |-> kini]}
    BY <2>2 DEF Diumumkan, Terbitan
  <2>4. ASSUME NEW x \in Edisi, x # e PROVE Diumumkan(x)' = Diumumkan(x)
    <3>1. CASE x = a
      BY <2>4, <3>1, KosongBukan DEF Terbitan, Diumumkan, Diterbitkan, Terbit
    <3>2. CASE x # a
      BY <2>4, <3>2 DEF Terbitan, Diumumkan, Diterbitkan
    <3>. QED
      BY <3>1, <3>2
  <2>. QED
    BY <2>1, <2>3, <2>4 DEF Diumumkan
<1>12. [x \in Edisi |-> Diumumkan(x)]'
         = [[x \in Edisi |-> Diumumkan(x)] EXCEPT ![e] =
              {[isi |-> isi, dari |-> dari, atas |-> kini]}]
  BY <1>11
<1>13. [d \in Tanggal |-> {x \in Edisi : Berlaku(x, d)}][MaxTanggal] = kini
  BY <1>1
<1>14. PICK i \in Isi, t \in Tanggal : i = isi /\ t = dari
  BY <1>1, <1>2
<1>15. Aturan!Mulai(t) /\ Aturan!Terbitkan(e, i, t)
  <2>1. Aturan!Mulai(t)
    BY <1>1, <1>8, <1>14 DEF Aturan!Mulai, Aturan!Kalender, Tanggal
  <2>2. Aturan!Terbitkan(e, i, t)
    BY <1>10, <1>12, <1>13, <1>14
    DEF Aturan!Terbitkan, Aturan!Kalender, Tanggal, Diumumkan, Terbitan
  <2>. QED
    BY <2>1, <2>2
<1>16. /\ [x \in Edisi |-> Diumumkan(x)][e] = {}
       /\ [x \in Edisi |-> Diumumkan(x)]'[e] # {}
  BY <1>11, <1>12
<1>. QED
  BY <1>15, <1>16 DEF Aturan!RulesNext, Aturan!Kalender, Tanggal, Diumumkan

\* The administration of editions is a calendar of rules: whatever is drafted,
\* returned, raced and rolled back, a publication takes over the days from its
\* own first one on, and nothing else changes what was in force or published.
THEOREM EditionsImplementRules == Spec => ImplementsRules
<1>1. EditionInv /\ CalendarInv /\ [Next]_vars
        => [Aturan!RulesNext]_(Aturan!ruleVars)
  <2>1. ASSUME CalendarInv, NEW e \in Edisi, Activate(e) PROVE Aturan!RulesNext
    BY <2>1, ActivateTerbitan, PublishRules DEF CalendarInv
  <2>. QED
    BY <2>1, NextDiam, DiamRules
<1>2. Spec => []CalendarInv
  BY InitCalendar, CalendarStep, PTL DEF Spec
<1>. QED
  BY <1>1, <1>2, InitRules, SpecEditionInv, PTL
  DEF Spec, ImplementsRules, Aturan!RulesSpec

=============================================================================
