------------------------- MODULE RegulatoryRuleSet -------------------------
(***************************************************************************)
(* Editions of one regulatory instrument (klasifikasi or jra).  A super    *)
(* administrator clones the active edition, edits the draft, has its source*)
(* PDF scanned, attests its completeness, generates its impact report and  *)
(* publishes it, with or without a review and an approval on the way;      *)
(* publication closes the edition it replaces.  The two instruments never  *)
(* meet.  An activation is two steps: it holds the row lock of its         *)
(* candidate while it waits for the row of the edition it replaces; every  *)
(* other operation locks its one edition and is one step.                  *)
(* Source: services/regulatory-rule-set.service.ts, klasifikasi.service.ts,*)
(* malware-scan.worker.ts, db/migrations/0016, 0018 and 0041.              *)
(***************************************************************************)
EXTENDS Naturals, FiniteSets

CONSTANTS
    Edisi,          \* regulatory_rule_sets rows of the instrument
    Baseline,       \* the draft edition the migration inserts
    Orang,          \* super administrators
    Isi,            \* contents: what the content hash covers
    IsiSah,         \* contents without a validation error
    Cacah(_),       \* how many items a content has
    Sumber,         \* source PDFs
    Kosong,         \* null
    Petugas,        \* bound: Edisi -> who takes part in its preparation
    MaxTanggal      \* bound on the calendar

Tanggal == 1 .. MaxTanggal

ASSUME EditionAssumption ==
    /\ Baseline \in Edisi
    /\ IsiSah \subseteq Isi
    /\ Kosong \notin Edisi \cup Orang \cup Isi \cup Sumber
    /\ Petugas \in [Edisi -> SUBSET Orang]
    /\ MaxTanggal \in Nat \ {0}

VARIABLES
    edisi,          \* Edisi -> its row
    kontributor,    \* Edisi -> actors of its material regulatory_rule_events
    aktivasi,       \* Edisi -> the activation transaction that holds its row
    hariIni         \* jakartaToday

vars == <<edisi, kontributor, aktivasi, hariIni>>

Atau(S) == S \cup {Kosong}

\* What the completeness manifest was attested about.
Manifes == [isi : Atau(Isi), sumber : Atau(Sumber)]
Dampak == [isi : Atau(Isi), pendahulu : Atau(Edisi), isiPendahulu : Atau(Isi)]
TanpaManifes == [isi |-> Kosong, sumber |-> Kosong]
TanpaDampak == [isi |-> Kosong, pendahulu |-> Kosong, isiPendahulu |-> Kosong]

Proses == {"draft", "submitted", "reviewed", "approved"}
Terbit == {"active", "superseded"}

Row == [status : {"none"} \cup Proses \cup Terbit,
        from : Tanggal, to : 0 .. MaxTanggal, menggantikan : Atau(Edisi),
        isi : Atau(Isi), sumber : Atau(Sumber), sah : BOOLEAN,
        manifes : Manifes, dampak : Dampak, pembuat : Atau(Orang),
        pengaju : Atau(Orang), penelaah : Atau(Orang), penyetuju : Atau(Orang)]
Aktivasi == [berjalan : BOOLEAN, terlihat : Atau(Edisi)]
Luang == [berjalan |-> FALSE, terlihat |-> Kosong]

\* A new row; the sources and dates of a clone come from the request.
Baru(status, from, a, isi, sumber, p) ==
    [status |-> status, from |-> from, to |-> 0, menggantikan |-> a,
     isi |-> isi, sumber |-> sumber, sah |-> sumber # Kosong,
     manifes |-> TanpaManifes, dampak |-> TanpaDampak, pembuat |-> p,
     pengaju |-> Kosong, penelaah |-> Kosong, penyetuju |-> Kosong]

Init ==
    /\ edisi = [e \in Edisi |->
         Baru(IF e = Baseline THEN "draft" ELSE "none", 1, Kosong, Kosong, Kosong, Kosong)]
    /\ kontributor = [e \in Edisi |-> {}]
    /\ aktivasi = [e \in Edisi |-> Luang]
    /\ hariIni = 1

(***************************************************************************)
(* A draft and the evidence about it.                                      *)
(***************************************************************************)

\* SELECT ... FOR UPDATE: an activation holds the row of its candidate.
Terkunci(e) == aktivasi[e].berjalan

Berstatus(e, status) == edisi[e].status = status /\ ~Terkunci(e)

Ubah(e, row) == edisi' = [edisi EXCEPT ![e] = row]

\* A regulatory_rule_event on an item, source, manifest, impact or clone.
Berperan(p, e) == kontributor' = [kontributor EXCEPT ![e] = @ \cup {p}]

\* Mutant: the manifest outlives the content it was attested about.
ManifesTertinggal(row) == [row EXCEPT !.dampak = TanpaDampak]

\* invalidateGovernanceEvidence, and the same columns in replaceDraftItems
\* and persistVerifiedSourceDocument.
TanpaBukti(row) ==
    [row EXCEPT !.manifes = TanpaManifes, !.dampak = TanpaDampak]

\* The source copied by a clone is verified again at once; another one is
\* uploaded later.
CloneActive(p, e, from, ulang) ==
    /\ edisi[e].status = "none"
    /\ \E a \in Edisi :
         /\ edisi[a].status = "active"
         /\ ulang => edisi[a].sah
         /\ Ubah(e, Baru("draft", from, a, edisi[a].isi,
                         IF ulang THEN edisi[a].sumber ELSE Kosong, p))
    /\ Berperan(p, e)
    /\ UNCHANGED <<aktivasi, hariIni>>

\* create, updateById and deleteById of one item: no validation of the whole.
UbahButir(p, e, isi) ==
    /\ Berstatus(e, "draft")
    /\ Ubah(e, TanpaBukti([edisi[e] EXCEPT !.isi = isi]))
    /\ Berperan(p, e)
    /\ UNCHANGED <<aktivasi, hariIni>>

\* An import that changes nothing is no contribution.
ReplaceDraftItems(p, e, isi) ==
    /\ Berstatus(e, "draft")
    /\ isi \in IsiSah
    /\ Ubah(e, TanpaBukti([edisi[e] EXCEPT !.isi = isi]))
    /\ IF isi = edisi[e].isi THEN UNCHANGED kontributor ELSE Berperan(p, e)
    /\ UNCHANGED <<aktivasi, hariIni>>

\* persistVerifiedSourceDocument: quarantined until the scanner's verdict.
VerifySourceDocument(p, e, pdf) ==
    /\ Berstatus(e, "draft")
    /\ Ubah(e, TanpaBukti([edisi[e] EXCEPT !.sumber = pdf, !.sah = FALSE]))
    /\ Berperan(p, e)
    /\ UNCHANGED <<aktivasi, hariIni>>

\* A transition of the scan worker on the source of a draft: it is verified
\* when found clean, and no longer so on any other verdict, a later one
\* included.
PindaiSumber(e, bersih) ==
    /\ Berstatus(e, "draft")
    /\ edisi[e].sumber # Kosong
    /\ Ubah(e, [edisi[e] EXCEPT !.sah = bersih])
    /\ UNCHANGED <<kontributor, aktivasi, hariIni>>

\* validateRegulatoryRuleItems and applyGovernanceReadinessChecks without
\* the impact report: what a manifest says of the source and the items.
Lengkap(row, manifes) ==
    /\ row.isi \in IsiSah
    /\ row.sumber # Kosong
    /\ row.sah
    /\ manifes # TanpaManifes
    /\ Cacah(manifes.isi) = Cacah(row.isi)

\* applyGovernanceReadinessChecks
Siap(row) ==
    /\ Lengkap(row, row.manifes)
    /\ row.dampak.isi = row.isi

VerifyCompletenessManifest(p, e) ==
    /\ Berstatus(e, "draft")
    /\ LET manifes == [isi |-> edisi[e].isi, sumber |-> edisi[e].sumber] IN
         /\ Lengkap(edisi[e], manifes)
         /\ Ubah(e, [edisi[e] EXCEPT !.manifes = manifes, !.dampak = TanpaDampak])
    /\ Berperan(p, e)
    /\ UNCHANGED <<aktivasi, hariIni>>

GenerateImpactReport(p, e) ==
    /\ Berstatus(e, "draft")
    /\ Lengkap(edisi[e], edisi[e].manifes)
    /\ LET a == edisi[e].menggantikan IN
         Ubah(e, [edisi[e] EXCEPT !.dampak =
                    [isi |-> edisi[e].isi, pendahulu |-> a,
                     isiPendahulu |-> IF a = Kosong THEN Kosong ELSE edisi[a].isi]])
    /\ Berperan(p, e)
    /\ UNCHANGED <<aktivasi, hariIni>>

(***************************************************************************)
(* Review and approval, which publication does not require.                *)
(***************************************************************************)

\* Mutant: a return keeps the names of the round it ends.
TelaahTertinggal(row) == row

\* The columns submit and returnToDraft reset.
TanpaTelaah(row) == [row EXCEPT !.penelaah = Kosong, !.penyetuju = Kosong]

Submit(p, e) ==
    /\ Berstatus(e, "draft")
    /\ Siap(edisi[e])
    /\ Ubah(e, TanpaTelaah([edisi[e] EXCEPT !.status = "submitted", !.pengaju = p]))
    /\ UNCHANGED <<kontributor, aktivasi, hariIni>>

\* createdBy, submittedBy and isMaterialContributor, which asks for events on
\* items, source, manifest, impact and clone, not for submissions: who submitted
\* in a round that was returned is not excluded, nor was submittedBy kept.
Mandiri(p, e) ==
    /\ p \notin {edisi[e].pembuat, edisi[e].pengaju}
    /\ p \notin kontributor[e]

Review(p, e) ==
    /\ Berstatus(e, "submitted")
    /\ Mandiri(p, e)
    /\ Ubah(e, [edisi[e] EXCEPT !.status = "reviewed", !.penelaah = p])
    /\ UNCHANGED <<kontributor, aktivasi, hariIni>>

Approve(p, e) ==
    /\ Berstatus(e, "reviewed")
    /\ Mandiri(p, e)
    /\ p # edisi[e].penelaah
    /\ Ubah(e, [edisi[e] EXCEPT !.status = "approved", !.penyetuju = p])
    /\ UNCHANGED <<kontributor, aktivasi, hariIni>>

ReturnToDraft(e) ==
    /\ edisi[e].status \in Proses \ {"draft"}
    /\ ~Terkunci(e)
    /\ Ubah(e, TanpaTelaah([edisi[e] EXCEPT !.status = "draft", !.pengaju = Kosong]))
    /\ UNCHANGED <<kontributor, aktivasi, hariIni>>

(***************************************************************************)
(* activate.                                                               *)
(***************************************************************************)

Aktif == {e \in Edisi : edisi[e].status = "active"}

\* The candidate is locked and validated; the query for the active edition
\* takes its snapshot and may then wait for that row.
MulaiAktivasi(e) ==
    /\ edisi[e].status \in Proses
    /\ ~Terkunci(e)
    /\ Siap(edisi[e])
    /\ edisi[e].from <= hariIni
    /\ \E a \in Atau(Aktif) :
         /\ a = Kosong <=> Aktif = {}
         /\ aktivasi' = [aktivasi EXCEPT ![e] = [berjalan |-> TRUE, terlihat |-> a]]
    /\ UNCHANGED <<edisi, kontributor, hariIni>>

\* READ COMMITTED checks the locked row again: an edition that has been
\* closed meanwhile is no longer found.
Kini(e) ==
    LET a == aktivasi[e].terlihat IN
      IF a # Kosong /\ edisi[a].status = "active" THEN a ELSE Kosong

\* Mutant: publication replaces whatever edition is active.
GantikanApaPun(row, a) == a # Kosong => row.from > edisi[a].from

\* The impact report and supersedesId still name the active edition.
Mutakhir(row, a) ==
    /\ row.dampak.pendahulu = a
    /\ row.menggantikan = a
    /\ a # Kosong =>
         /\ row.dampak.isiPendahulu = edisi[a].isi
         /\ row.from > edisi[a].from

\* regulatory_rule_sets_one_active_per_type, once edition a is closed.
SatuAktif(a) == Aktif \subseteq {a}

\* Mutant: the day on the wrong side.
HariSesudah(t) == t + 1

\* previousIsoDate
HariSebelum(t) == t - 1

Activate(e) ==
    LET a == Kini(e) IN
      /\ Terkunci(e)
      /\ Mutakhir(edisi[e], a)
      /\ SatuAktif(a)
      /\ edisi' = [x \in Edisi |->
           CASE x = e -> [edisi[x] EXCEPT !.status = "active", !.to = 0]
             [] x = a -> [edisi[x] EXCEPT !.status = "superseded",
                                          !.to = HariSebelum(edisi[e].from)]
             [] OTHER -> edisi[x]]
      /\ aktivasi' = [aktivasi EXCEPT ![e] = Luang]
      /\ UNCHANGED <<kontributor, hariIni>>

\* A conflict, or any error on the way: the transaction rolls back.
BatalAktivasi(e) ==
    /\ Terkunci(e)
    /\ aktivasi' = [aktivasi EXCEPT ![e] = Luang]
    /\ UNCHANGED <<edisi, kontributor, hariIni>>

GantiHari ==
    /\ hariIni < MaxTanggal
    /\ hariIni' = hariIni + 1
    /\ UNCHANGED <<edisi, kontributor, aktivasi>>

DraftStep(p, e) ==
    \/ \E from \in Tanggal, ulang \in BOOLEAN : CloneActive(p, e, from, ulang)
    \/ \E isi \in Isi : UbahButir(p, e, isi) \/ ReplaceDraftItems(p, e, isi)
    \/ \E pdf \in Sumber : VerifySourceDocument(p, e, pdf)
    \/ VerifyCompletenessManifest(p, e)
    \/ GenerateImpactReport(p, e)

ReviewStep(p, e) == Submit(p, e) \/ Review(p, e) \/ Approve(p, e)

Next ==
    \/ \E e \in Edisi :
         \/ \E p \in Petugas[e] : DraftStep(p, e) \/ ReviewStep(p, e)
         \/ \E bersih \in BOOLEAN : PindaiSumber(e, bersih)
         \/ ReturnToDraft(e)
         \/ MulaiAktivasi(e) \/ Activate(e) \/ BatalAktivasi(e)
    \/ GantiHari

Spec == Init /\ [][Next]_vars

(***************************************************************************)
(* Properties.                                                             *)
(***************************************************************************)

\* The rows, the activations in progress and the calendar keep their types.
TypeOK ==
    /\ edisi \in [Edisi -> Row]
    /\ kontributor \in [Edisi -> SUBSET Orang]
    /\ aktivasi \in [Edisi -> Aktivasi]
    /\ hariIni \in Tanggal

Diterbitkan(e) == edisi[e].status \in Terbit

\* Whatever activations race, the published editions form one line of
\* succession: one is in force, and every other one ends the day before the
\* one edition that was cloned from it begins.
MasaBerlakuBersambung ==
    /\ \A e, f \in Aktif : e = f
    /\ \A e \in Edisi : Diterbitkan(e) =>
         /\ edisi[e].status = "active" => edisi[e].to = 0
         /\ edisi[e].status = "superseded" =>
              \E f \in Edisi :
                /\ Diterbitkan(f)
                /\ edisi[f].menggantikan = e
                /\ edisi[e].to = edisi[f].from - 1
                /\ edisi[e].from <= edisi[e].to
         /\ \A f \in Edisi :
              Diterbitkan(f) /\ edisi[f].menggantikan = edisi[e].menggantikan => e = f

\* Publication as those see it who apply the rules.
Berlaku(e, d) ==
    /\ Diterbitkan(e)
    /\ edisi[e].from <= d
    /\ edisi[e].status = "active" \/ d <= edisi[e].to

Aturan == INSTANCE RulesInForce WITH
    berlaku <- [d \in Tanggal |-> {e \in Edisi : Berlaku(e, d)}],
    terbit <- [e \in Edisi |->
                 IF Diterbitkan(e)
                 THEN {[isi |-> edisi[e].isi, dari |-> edisi[e].from,
                        atas |-> {edisi[e].menggantikan} \ {Kosong}]}
                 ELSE {}],
    hari <- hariIni

\* Whatever is drafted, returned, raced and rolled back: on every day one edition at
\* most is in force, and exactly one from the first edition's start on; a new
\* one starts after the one it was cloned from, and changes no day before its own
\* first and nothing that was published.
ImplementsRules == Aturan!RulesSpec

\* A published edition is what its evidence says: the manifest was attested
\* about these items and this verified source, and the impact report compares
\* these items with those of the edition it replaced, however the draft was
\* edited, returned and raced by other activations before.
TerbitSesuaiBukti ==
    \A e \in Edisi : Diterbitkan(e) =>
        LET a == edisi[e].menggantikan IN
          /\ edisi[e].sah
          /\ edisi[e].manifes = [isi |-> edisi[e].isi, sumber |-> edisi[e].sumber]
          /\ edisi[e].dampak =
               [isi |-> edisi[e].isi, pendahulu |-> a,
                isiPendahulu |-> IF a = Kosong THEN Kosong ELSE edisi[a].isi]

\* Whoever is named as reviewer or approver of an edition neither created it
\* nor worked on its items, source or evidence, in whatever round of review,
\* did not submit it in the present one, and is not the other of the two.  One
\* who only submitted it in a round that was returned may be named.
PenelaahMandiri ==
    \A e \in Edisi : \A p \in {edisi[e].penelaah, edisi[e].penyetuju} \ {Kosong} :
        /\ p \notin kontributor[e] \cup {edisi[e].pembuat, edisi[e].pengaju}
        /\ edisi[e].penelaah # edisi[e].penyetuju

=============================================================================
