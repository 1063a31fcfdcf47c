-------------------------- MODULE RangkaianProofs --------------------------
(***************************************************************************)
(* Proofs about case chains, for any letters, chains, units and relations. *)
(***************************************************************************)
EXTENDS Rangkaian, TLAPS

(***************************************************************************)
(* The invariants, chain by chain and letter by letter.                    *)
(***************************************************************************)

\* No letter has a chain before it is registered.
AnggotaTerdaftar == \A x \in Surat : anggota[x] # NoChain => Terdaftar(x)

AnggotaInv == TypeOK /\ AnggotaTidakTercecer /\ AnggotaTerdaftar

\* The mark of manual completion is on no chain with work.
ManualOK(c) == rangkaian[c].manual => rangkaian[c].status \notin {"none", "aktif"}

\* A letter that is being changed stays an uncommitted draft.
BerubahOK(k) ==
    berubah[k].hasil # "none" =>
      /\ keluar[k] = "draft" /\ k \notin dihapus
      /\ berubah[k].rangkaian = NoChain => anggota[k] = NoChain

SelesaiOK(c) ==
    /\ rangkaian[c].status = "selesai" =>
         StatusTurunan(rangkaian[c], c \in Penghalang, c \in BelumDitangani,
                       c \in Tertangani) = "selesai"
    /\ rangkaian[c].status = "diberkaskan" => c \notin Penghalang

MasukOK(s) == Hidup(s) /\ s \in Beralasan => masuk[s] = "sudah_dibalas"

\* The inductive invariant.
RangkaianInv ==
    /\ AnggotaInv
    /\ \A c \in Chains : ManualOK(c) /\ SelesaiOK(c)
    /\ \A k \in SuratKeluar : BerubahOK(k)
    /\ \A s \in SuratMasuk : MasukOK(s)

(***************************************************************************)
(* Rows of chains.                                                         *)
(***************************************************************************)

StatusMasuk == {"none", "belum_dibalas", "sudah_dibalas"}

LEMMA StatusTurunanFakta ==
    ASSUME NEW r \in Rangkaian, NEW p \in BOOLEAN, NEW b \in BOOLEAN, NEW t \in BOOLEAN
    PROVE  /\ ~Terbuka(r) => StatusTurunan(r, p, b, t) = r.status
           /\ Terbuka(r) => StatusTurunan(r, p, b, t) \in {"aktif", "selesai"}
           /\ Terbuka(r) /\ StatusTurunan(r, p, b, t) = "selesai" <=>
                /\ Terbuka(r) /\ ~p
                /\ r.manual \/ (~b /\ (t \/ r.asal = "inisiatif"))
BY DEF StatusTurunan, Terbuka, Rangkaian

\* What a recompute of chain c from row r leaves.
LEMMA DihitungFakta ==
    ASSUME NEW r \in Rangkaian, NEW c \in Chains, rangkaian'[c] = Dihitung(r, c)
    PROVE  /\ rangkaian'[c] \in Rangkaian
           /\ ~Terbuka(r) => rangkaian'[c] = r
           /\ Terbuka(r) => rangkaian'[c].status \in {"aktif", "selesai"}
           /\ rangkaian'[c].manual => r.manual
           /\ rangkaian'[c].manual /\ rangkaian'[c].status = "aktif" => r.status = "aktif"
           /\ r.status # "diberkaskan" => SelesaiOK(c)'
<1>. DEFINE p == c \in Penghalang'
            b == c \in BelumDitangani'
            t == c \in Tertangani'
            status == StatusTurunan(r, p, b, t)
            baru == [r EXCEPT !.status = status, !.manual = r.manual /\ status = "selesai"]
<1>1. p \in BOOLEAN /\ b \in BOOLEAN /\ t \in BOOLEAN
  OBVIOUS
<1>2. rangkaian'[c] = IF status = r.status THEN r ELSE baru
  BY DEF Dihitung
<1>3. SelesaiOK(c)' <=>
        /\ rangkaian'[c].status = "selesai" => StatusTurunan(rangkaian'[c], p, b, t) = "selesai"
        /\ rangkaian'[c].status = "diberkaskan" => ~p
  BY DEF SelesaiOK
<1>. HIDE DEF p, b, t
<1>4. /\ ~Terbuka(r) => status = r.status
      /\ Terbuka(r) => status \in {"aktif", "selesai"}
      /\ Terbuka(r) /\ status = "selesai" <=>
           Terbuka(r) /\ ~p /\ (r.manual \/ (~b /\ (t \/ r.asal = "inisiatif")))
  BY <1>1, StatusTurunanFakta
<1>5. /\ baru.status = status /\ baru.asal = r.asal
      /\ baru.manual = (r.manual /\ status = "selesai")
      /\ status # r.status => baru \in Rangkaian
  BY <1>4 DEF Rangkaian
<1>6. CASE status = r.status
  BY <1>2, <1>3, <1>4, <1>6 DEF Terbuka
<1>7. CASE status # r.status
  <2>1. Terbuka(r) /\ rangkaian'[c] = baru /\ baru \in Rangkaian /\ status \in {"aktif", "selesai"}
    BY <1>2, <1>4, <1>5, <1>7
  <2>2. status = "selesai" => StatusTurunan(baru, p, b, t) = "selesai"
    <3>1. status = "selesai" => Terbuka(baru)
      BY <1>5 DEF Terbuka
    <3>. HIDE DEF baru, status
    <3>. QED
      BY <1>1, <1>4, <1>5, <2>1, <3>1 DEF StatusTurunan
  <2>. HIDE DEF baru, status
  <2>. QED
    BY <1>3, <1>5, <2>1, <2>2
<1>. QED
  BY <1>6, <1>7

LEMMA RangkaianBaruFakta ==
    ASSUME NEW x
    PROVE  /\ RangkaianBaru(x) \in Rangkaian /\ RangkaianBaru(x).status = "aktif"
           /\ RangkaianBaru(x).manual = FALSE
BY DEF RangkaianBaru, Rangkaian

\* The rows after ensureForSurat.
LEMMA PastiFakta ==
    ASSUME TypeOK, NEW x \in Surat, NEW c \in Chains,
           anggota[x] = c \/ (anggota[x] = NoChain /\ rangkaian[c].status = "none")
    PROVE  /\ RangkaianPasti(x, c) \in [Chains -> Rangkaian]
           /\ \A e \in Chains : e # c => RangkaianPasti(x, c)[e] = rangkaian[e]
           /\ RangkaianPasti(x, c)[c] =
                IF anggota[x] = c THEN rangkaian[c] ELSE RangkaianBaru(x)
BY RangkaianAssumption, RangkaianBaruFakta DEF RangkaianPasti, TypeOK

\* The row a merge or a new member starts from.
LEMMA DibukaFakta ==
    ASSUME NEW r \in Rangkaian, Terbuka(r)
    PROVE  /\ DibukaKembali(r) \in Rangkaian /\ DibukaKembali(r).status = "aktif"
           /\ (r.status = "aktif" => ~r.manual) => ~DibukaKembali(r).manual
BY DEF DibukaKembali, Rangkaian, Terbuka

(***************************************************************************)
(* Membership: steps that move the letters S into chain c.                 *)
(***************************************************************************)

\* The letters S are in chain c afterwards, the others where they were.
Pindah(S, c) ==
    \A x \in Surat : anggota'[x] = IF x \in S THEN c ELSE anggota[x]

\* A letter of S has no chain, or is in c, or comes with all of its chain.
Utuh(S, c) ==
    \A x \in S : \/ anggota[x] \in {NoChain, c}
                 \/ \A z \in Surat : anggota[z] = anggota[x] => z \in S

LEMMA PindahRelasi ==
    ASSUME AnggotaInv, NEW S \in SUBSET Surat, NEW c \in Chains, Pindah(S, c), Utuh(S, c)
    PROVE  \A r \in relasi : anggota'[r.dari] # NoChain /\ anggota'[r.dari] = anggota'[r.ke]
<1>. SUFFICES ASSUME NEW r \in relasi
     PROVE  anggota'[r.dari] # NoChain /\ anggota'[r.dari] = anggota'[r.ke]
  OBVIOUS
<1>1. r.dari \in Surat /\ r.ke \in Surat /\ anggota[r.dari] # NoChain /\ anggota[r.dari] = anggota[r.ke]
  BY DEF AnggotaInv, TypeOK, AnggotaTidakTercecer, Relasi
<1>2. c # NoChain
  BY RangkaianAssumption
<1>. QED
  BY <1>1, <1>2 DEF Pindah, Utuh

\* What a step does to the membership of letters and to filed chains, from
\* what it does to each letter, chain, relation and disposition.
TetapTerdaftar == \A x \in Surat : Terdaftar(x) => Terdaftar(x)'
AnggotaBaru ==
    \A x \in Surat : anggota'[x] # anggota[x] =>
      /\ Terdaftar(x)' /\ anggota'[x] \in Chains
      /\ rangkaian[anggota'[x]].status \in {"none", "aktif", "selesai"}
      /\ rangkaian'[anggota'[x]].status \in {"aktif", "selesai"}
      /\ anggota[x] # NoChain => Terbuka(rangkaian[anggota[x]])
RangkaianMaju ==
    \A e \in Chains :
      /\ rangkaian[e].status \in {"diberkaskan", "digabung"} =>
           rangkaian'[e].status = rangkaian[e].status
      /\ Terbuka(rangkaian[e]) =>
           \/ rangkaian'[e].status \in {"aktif", "selesai", "diberkaskan"}
           \/ \A x \in Surat : anggota'[x] # e
RelasiUtuh ==
    \A r \in relasi' : anggota'[r.dari] # NoChain /\ anggota'[r.dari] = anggota'[r.ke]
DisposisiIkut ==
    \A s \in SuratMasuk, u \in Units :
      IF disposisi'[s][u].status = "none" THEN disposisi'[s][u].rangkaian = NoChain
      ELSE disposisi'[s][u].rangkaian = anggota'[s] /\ anggota'[s] # NoChain
BerkasDiam ==
    /\ \A s \in SuratMasuk : Diberkaskan(s) =>
         disposisi'[s] = disposisi[s] /\ (s \in dihapus' => s \in dihapus)
    /\ \A r \in Relasi : Diberkaskan(r.dari) => (r \in relasi' <=> r \in relasi)

LEMMA LangkahAnggota ==
    ASSUME AnggotaInv, TypeOK', TetapTerdaftar, AnggotaBaru, RangkaianMaju, RelasiUtuh,
           DisposisiIkut, BerkasDiam
    PROVE  AnggotaInv' /\ BerkasTerkunciStep
<1>1. TypeOK /\ AnggotaTidakTercecer /\ AnggotaTerdaftar
  BY DEF AnggotaInv
<1>2. ASSUME NEW x \in Surat, anggota'[x] # NoChain
      PROVE  rangkaian'[anggota'[x]].status \in {"aktif", "selesai", "diberkaskan"} /\ Terdaftar(x)'
  <2>1. CASE anggota'[x] # anggota[x]
    BY <2>1 DEF AnggotaBaru
  <2>2. CASE anggota'[x] = anggota[x]
    <3>1. /\ anggota[x] \in Chains /\ Terdaftar(x)
          /\ rangkaian[anggota[x]].status \in {"aktif", "selesai", "diberkaskan"}
      BY <1>1, <1>2, <2>2 DEF TypeOK, AnggotaTidakTercecer, AnggotaTerdaftar
    <3>. QED
      BY <1>2, <2>2, <3>1 DEF RangkaianMaju, Terbuka, TetapTerdaftar
  <2>. QED
    BY <2>1, <2>2
<1>3. AnggotaTidakTercecer' /\ AnggotaTerdaftar'
  BY <1>2 DEF AnggotaTidakTercecer, AnggotaTerdaftar, RelasiUtuh, DisposisiIkut
<1>4. ASSUME NEW c \in Chains, rangkaian[c].status \in {"diberkaskan", "digabung"}
      PROVE  rangkaian'[c].status = rangkaian[c].status /\ Anggota(c)' = Anggota(c)
  <2>1. rangkaian'[c].status = rangkaian[c].status
    BY <1>4 DEF RangkaianMaju
  <2>2. \A x \in Surat : anggota'[x] = c <=> anggota[x] = c
    BY <1>4, RangkaianAssumption DEF AnggotaBaru, Terbuka
  <2>. QED
    BY <2>1, <2>2 DEF Anggota
<1>5. ASSUME NEW c \in Chains, rangkaian[c].status = "diberkaskan"
      PROVE  /\ {r \in relasi' : anggota'[r.dari] = c} = {r \in relasi : anggota[r.dari] = c}
             /\ \A s \in AnggotaMasuk(c) : /\ disposisi'[s] = disposisi[s]
                                           /\ s \in dihapus' => s \in dihapus
  <2>1. \A x \in Surat : anggota'[x] = c <=> anggota[x] = c
    BY <1>5, RangkaianAssumption DEF AnggotaBaru, Terbuka
  <2>2. c # NoChain /\ \A r \in Relasi : r.dari \in Surat
    BY RangkaianAssumption DEF Relasi
  <2>3. relasi \subseteq Relasi /\ relasi' \subseteq Relasi
    BY <1>1 DEF TypeOK
  <2>4. \A r \in Relasi : (r \in relasi' /\ anggota'[r.dari] = c)
                            <=> (r \in relasi /\ anggota[r.dari] = c)
    BY <1>5, <2>1, <2>2 DEF BerkasDiam, Diberkaskan
  <2>5. \A s \in AnggotaMasuk(c) : disposisi'[s] = disposisi[s] /\ (s \in dihapus' => s \in dihapus)
    BY <1>5, <2>2 DEF AnggotaMasuk, Anggota, BerkasDiam, Diberkaskan
  <2>. QED
    BY <2>3, <2>4, <2>5
<1>. QED
  BY <1>3, <1>4, <1>5 DEF AnggotaInv, BerkasTerkunciStep

\* The same, for steps that leave members and relations alone.
DisposisiTetap ==
    \A s \in SuratMasuk, u \in Units :
      /\ disposisi'[s][u].rangkaian = disposisi[s][u].rangkaian
      /\ disposisi'[s][u].status = "none" <=> disposisi[s][u].status = "none"

LEMMA AnggotaTetap ==
    ASSUME AnggotaInv, TypeOK', TetapTerdaftar, RangkaianMaju, DisposisiTetap, BerkasDiam,
           UNCHANGED <<anggota, relasi>>
    PROVE  AnggotaInv' /\ BerkasTerkunciStep
<1>1. AnggotaBaru
  BY DEF AnggotaBaru
<1>2. RelasiUtuh /\ DisposisiIkut
  BY DEF AnggotaInv, AnggotaTidakTercecer, RelasiUtuh, DisposisiIkut, DisposisiTetap
<1>. QED
  BY <1>1, <1>2, LangkahAnggota

(***************************************************************************)
(* Facts about a chain.                                                    *)
(***************************************************************************)

\* Nothing a step does speaks against chain e being finished.
Aman(e) ==
    /\ e \in Penghalang' => e \in Penghalang
    /\ e \in BelumDitangani' => e \in BelumDitangani
    /\ e \in Tertangani => e \in Tertangani'

\* A step that leaves the members, relations and dispositions of e alone.
TerbukaDisposisi(d) == d.status \in {"sent", "received"}
Lokal(e) ==
    /\ \A x \in Surat : anggota'[x] = e <=> anggota[x] = e
    /\ \A s \in SuratMasuk, u \in Units : anggota[s] = e =>
         /\ disposisi'[s][u].rangkaian = disposisi[s][u].rangkaian
         /\ TerbukaDisposisi(disposisi'[s][u]) <=> TerbukaDisposisi(disposisi[s][u])
         /\ disposisi'[s][u].status = "processed" <=> disposisi[s][u].status = "processed"
    /\ \A x \in Surat : anggota[x] = e => (x \in dihapus' <=> x \in dihapus)
    /\ \A k \in SuratKeluar : anggota[k] = e => keluar'[k] = keluar[k]
    /\ \A r \in Relasi : anggota[r.dari] = e => (r \in relasi' <=> r \in relasi)

LEMMA SuratFakta == SuratMasuk \subseteq Surat /\ SuratKeluar \subseteq Surat
BY DEF Surat

LEMMA AmanLokal ==
    ASSUME AnggotaInv, AnggotaInv', NEW e \in Chains, Lokal(e)
    PROVE  Aman(e)
<1>1. /\ relasi \subseteq Relasi /\ relasi' \subseteq Relasi
      /\ \A r \in Relasi : r.dari \in Surat /\ r.ke \in Surat
      /\ \A r \in relasi : anggota[r.dari] = anggota[r.ke]
      /\ \A s \in SuratMasuk, u \in Units :
           /\ disposisi[s][u].status # "none" => disposisi[s][u].rangkaian = anggota[s]
           /\ disposisi'[s][u].status # "none" => disposisi'[s][u].rangkaian = anggota'[s]
  BY DEF AnggotaInv, TypeOK, AnggotaTidakTercecer, Relasi
<1>2. DisposisiTerbuka(e)' => DisposisiTerbuka(e)
  <2>. SUFFICES ASSUME NEW s \in SuratMasuk, NEW u \in Units, s \notin dihapus',
                       disposisi'[s][u].rangkaian = e, TerbukaDisposisi(disposisi'[s][u])
       PROVE  s \notin dihapus /\ disposisi[s][u].rangkaian = e /\ TerbukaDisposisi(disposisi[s][u])
    BY DEF DisposisiTerbuka, TerbukaDisposisi
  <2>1. anggota'[s] = e
    BY <1>1 DEF TerbukaDisposisi
  <2>. QED
    BY <2>1, SuratFakta DEF Lokal
<1>3. AnggotaMemblokir(e)' => AnggotaMemblokir(e)
  <2>. SUFFICES ASSUME NEW k \in SuratKeluar, anggota'[k] = e, Memblokir(k)'
       PROVE  anggota[k] = e /\ Memblokir(k)
    BY DEF AnggotaMemblokir
  <2>1. anggota[k] = e
    BY SuratFakta DEF Lokal
  <2>2. RelasiDari(k)' = RelasiDari(k)
    BY <1>1, <2>1 DEF Lokal, RelasiDari
  <2>. QED
    BY <2>1, <2>2, SuratFakta DEF Lokal, Memblokir
<1>4. \A r \in BalasanSah : anggota[r.dari] = e => r \in BalasanSah'
  BY <1>1, SuratFakta DEF Lokal, BalasanSah
<1>5. ASSUME NEW s \in SuratMasuk, anggota[s] = e
      PROVE  DisposisiSelesai(e, s) <=> DisposisiSelesai(e, s)'
  BY <1>5 DEF Lokal, DisposisiSelesai
<1>6. e \in BelumDitangani' => e \in BelumDitangani
  <2>. SUFFICES ASSUME NEW s \in SuratMasuk, anggota'[s] = e, s \notin dihapus',
                       ~DisposisiSelesai(e, s)', \A r \in BalasanSah' : r.ke # s
       PROVE  /\ anggota[s] = e /\ s \notin dihapus /\ ~DisposisiSelesai(e, s)
              /\ \A r \in BalasanSah : r.ke # s
    BY DEF BelumDitangani, AnggotaMasuk, Anggota
  <2>1. anggota[s] = e /\ s \notin dihapus
    BY SuratFakta DEF Lokal
  <2>2. ~DisposisiSelesai(e, s)
    BY <1>5, <2>1
  <2>3. ASSUME NEW r \in BalasanSah, r.ke = s PROVE FALSE
    <3>1. r \in relasi
      BY DEF BalasanSah
    <3>2. anggota[r.dari] = e
      BY <1>1, <2>1, <2>3, <3>1
    <3>. QED
      BY <1>4, <2>3, <3>2
  <2>. QED
    BY <2>1, <2>2, <2>3
<1>7. e \in Tertangani => e \in Tertangani'
  <2>1. ASSUME NEW s \in SuratMasuk, s \notin dihapus, DisposisiSelesai(e, s)
        PROVE  s \notin dihapus' /\ DisposisiSelesai(e, s)'
    <3>1. anggota[s] = e
      BY <1>1, <2>1 DEF DisposisiSelesai
    <3>. QED
      BY <1>5, <2>1, <3>1, SuratFakta DEF Lokal
  <2>2. ASSUME NEW r \in BalasanSah, anggota[r.dari] = e
        PROVE  r \in BalasanSah' /\ anggota'[r.dari] = e
    <3>1. r.dari \in Surat
      BY SuratFakta DEF BalasanSah
    <3>. QED
      BY <1>4, <2>2, <3>1 DEF Lokal
  <2>. QED
    BY <2>1, <2>2 DEF Tertangani
<1>. QED
  BY <1>2, <1>3, <1>6, <1>7 DEF Aman, Penghalang

LEMMA SelesaiTetap ==
    ASSUME NEW e \in Chains, rangkaian[e] \in Rangkaian, SelesaiOK(e), Aman(e),
           rangkaian'[e] = rangkaian[e]
    PROVE  SelesaiOK(e)'
<1>1. CASE rangkaian[e].status = "selesai"
  <2>1. /\ e \notin Penghalang
        /\ \/ rangkaian[e].manual
           \/ e \notin BelumDitangani /\ (e \in Tertangani \/ rangkaian[e].asal = "inisiatif")
    BY <1>1 DEF SelesaiOK, StatusTurunan, Terbuka
  <2>. QED
    BY <1>1, <2>1 DEF SelesaiOK, Aman, StatusTurunan, Terbuka
<1>2. CASE rangkaian[e].status # "selesai"
  BY <1>2 DEF SelesaiOK, Aman
<1>. QED
  BY <1>1, <1>2

(***************************************************************************)
(* Facts about an incoming letter.                                         *)
(***************************************************************************)

\* Nothing a step does gives letter s a new reason to count as answered.
MasukAman(s) ==
    /\ Hidup(s)' => Hidup(s)
    /\ \A r \in BalasanSah' : r.ke = s => r \in BalasanSah
    /\ \A u \in Units : disposisi'[s][u].status = "processed" /\ disposisi'[s][u].bukti =>
         disposisi[s][u].status = "processed" /\ disposisi[s][u].bukti
    /\ anggota'[s] # NoChain /\ rangkaian'[anggota'[s]].manual =>
         anggota[s] # NoChain /\ rangkaian[anggota[s]].manual

LEMMA MasukTetap ==
    ASSUME NEW s \in SuratMasuk, MasukOK(s), MasukAman(s), masuk'[s] = masuk[s]
    PROVE  MasukOK(s)'
<1>1. ASSUME s \in Beralasan' PROVE s \in Beralasan
  <2>1. \/ \E r \in BalasanSah' : r.ke = s
        \/ \E u \in Units : disposisi'[s][u].status = "processed" /\ disposisi'[s][u].bukti
        \/ anggota'[s] # NoChain /\ rangkaian'[anggota'[s]].manual
    BY <1>1 DEF Beralasan
  <2>2. \/ \E r \in BalasanSah : r.ke = s
        \/ \E u \in Units : disposisi[s][u].status = "processed" /\ disposisi[s][u].bukti
        \/ anggota[s] # NoChain /\ rangkaian[anggota[s]].manual
    BY <2>1 DEF MasukAman
  <2>. QED
    BY <2>2 DEF Beralasan
<1>. QED
  BY <1>1 DEF MasukOK, MasukAman

\* A letter that is recomputed is right.
LEMMA MasukDihitung ==
    ASSUME NEW s \in SuratMasuk, NEW status, masuk'[s] = StatusMasukTurunan(s, status)
    PROVE  MasukOK(s)'
BY DEF MasukOK, StatusMasukTurunan

\* All incoming letters, when those of S are recomputed from awal: the status
\* of a letter, or the one a new letter is registered with.
LEMMA MasukSemuaAwal ==
    ASSUME NEW S, NEW awal \in [SuratMasuk -> StatusMasuk], HitungMasuk(awal, S),
           \A s \in SuratMasuk : MasukOK(s),
           \A s \in SuratMasuk : s \notin S =>
             (awal[s] = masuk[s] /\ MasukAman(s)) \/ s \notin Beralasan'
    PROVE  /\ \A s \in SuratMasuk : MasukOK(s)'
           /\ masuk' \in [SuratMasuk -> StatusMasuk]
           /\ \A s \in SuratMasuk : awal[s] # "none" => masuk'[s] # "none"
<1>1. ASSUME NEW s \in SuratMasuk PROVE MasukOK(s)'
  <2>1. CASE s \in dihapus'
    BY <2>1 DEF MasukOK, Hidup
  <2>2. CASE s \in S /\ s \notin dihapus'
    <3>1. PICK status : status = awal[s]
      OBVIOUS
    <3>2. masuk'[s] = StatusMasukTurunan(s, status)
      BY <2>2, <3>1 DEF HitungMasuk, StatusMasukTurunan
    <3>. QED
      BY <3>2, MasukDihitung
  <2>3. CASE s \notin S /\ s \in Beralasan'
    <3>1. masuk'[s] = masuk[s] /\ MasukAman(s)
      BY <2>3 DEF HitungMasuk
    <3>. QED
      BY <3>1, MasukTetap
  <2>4. CASE s \notin Beralasan'
    BY <2>4 DEF MasukOK
  <2>. QED
    BY <2>1, <2>2, <2>3, <2>4
<1>. QED
  BY <1>1 DEF HitungMasuk, StatusMasukTurunan, StatusMasuk

LEMMA MasukSemua ==
    ASSUME NEW S, HitungMasuk(masuk, S), TypeOK, \A s \in SuratMasuk : MasukOK(s),
           \A s \in SuratMasuk : s \notin S => MasukAman(s)
    PROVE  /\ \A s \in SuratMasuk : MasukOK(s)'
           /\ masuk' \in [SuratMasuk -> StatusMasuk]
           /\ \A s \in SuratMasuk : masuk[s] # "none" => masuk'[s] # "none"
<1>1. PICK awal : awal = masuk
  OBVIOUS
<1>2. awal \in [SuratMasuk -> StatusMasuk]
  BY <1>1 DEF TypeOK, StatusMasuk
<1>3. HitungMasuk(awal, S)
  BY <1>1 DEF HitungMasuk, StatusMasukTurunan
<1>. QED
  BY <1>1, <1>2, <1>3, MasukSemuaAwal

\* No transaction that changes x is on its way.
Bebas(x) == x \in SuratKeluar => berubah[x].hasil = "none"

LEMMA BebasFakta ==
    ASSUME NEW x, TidakTerkunci(x)
    PROVE  Bebas(x)
BY DEF TidakTerkunci, Bebas, Tenang

\* Outgoing letters that are being changed are left alone.
BerubahDiam ==
    /\ UNCHANGED berubah
    /\ \A k \in SuratKeluar :
         /\ keluar[k] # "none" => keluar'[k] = keluar[k]
         /\ k \in dihapus' => k \in dihapus
         /\ anggota'[k] # anggota[k] => anggota[k] # NoChain \/ Bebas(k)

LEMMA BerubahTetap ==
    ASSUME NEW k \in SuratKeluar, BerubahOK(k), BerubahDiam
    PROVE  BerubahOK(k)'
BY DEF BerubahOK, BerubahDiam, Bebas

\* Letters change chains together, with all of a chain they leave; nothing is
\* forgotten; and only filing files a chain.
Gerak ==
    /\ UNCHANGED anggota \/ \E S \in SUBSET Surat, c \in Chains : Pindah(S, c) /\ Utuh(S, c)
    /\ \A r \in relasi : \E q \in relasi' : q.dari = r.dari /\ q.ke = r.ke
    /\ dihapus \subseteq dihapus'
    /\ \/ \E c \in Chains : Berkaskan(c)
       \/ \A e \in Chains :
            rangkaian'[e].status = "diberkaskan" => rangkaian[e].status = "diberkaskan"

\* What every step of the system does.
Langkah == RangkaianInv' /\ BerkasTerkunciStep /\ Gerak

LEMMA InvFakta ==
    ASSUME RangkaianInv
    PROVE  /\ AnggotaInv /\ TypeOK
           /\ \A e \in Chains : rangkaian[e] \in Rangkaian /\ ManualOK(e) /\ SelesaiOK(e)
           /\ \A k \in SuratKeluar : BerubahOK(k)
           /\ \A s \in SuratMasuk : MasukOK(s)
BY DEF RangkaianInv, AnggotaInv, TypeOK

LEMMA MasukTetapTerdaftar ==
    ASSUME \A s \in SuratMasuk : masuk[s] # "none" => masuk'[s] # "none",
           \A k \in SuratKeluar : keluar[k] # "none" => keluar'[k] # "none"
    PROVE  TetapTerdaftar
BY DEF TetapTerdaftar, Terdaftar, Surat

(***************************************************************************)
(* Steps that leave members, relations and dispositions alone.             *)
(***************************************************************************)

LEMMA FaktaTetap ==
    ASSUME UNCHANGED <<anggota, keluar, dihapus, relasi, disposisi>>
    PROVE  /\ Penghalang' = Penghalang /\ BalasanSah' = BalasanSah
           /\ BelumDitangani' = BelumDitangani /\ Tertangani' = Tertangani
<1>1. BalasanSah' = BalasanSah
  BY DEF BalasanSah
<1>2. \A c \in Chains : DisposisiTerbuka(c)' <=> DisposisiTerbuka(c)
  BY DEF DisposisiTerbuka
<1>3. \A c \in Chains : AnggotaMemblokir(c)' <=> AnggotaMemblokir(c)
  BY DEF AnggotaMemblokir, Memblokir, RelasiDari
<1>4. \A c \in Chains, s \in SuratMasuk : DisposisiSelesai(c, s)' <=> DisposisiSelesai(c, s)
  BY DEF DisposisiSelesai
<1>5. Penghalang' = Penghalang
  BY <1>2, <1>3 DEF Penghalang
<1>6. \A c \in Chains : AnggotaMasuk(c)' = AnggotaMasuk(c) /\ AnggotaMasuk(c) \subseteq SuratMasuk
  BY DEF AnggotaMasuk, Anggota
<1>7. BelumDitangani' = BelumDitangani
  BY <1>1, <1>4, <1>6 DEF BelumDitangani
<1>8. Tertangani' = Tertangani
  BY <1>1, <1>4 DEF Tertangani
<1>. QED
  BY <1>1, <1>5, <1>7, <1>8

\* An open chain c gets the row k, and the incoming letters S are recomputed.
LEMMA RangkaianSaja ==
    ASSUME RangkaianInv, TetapKeanggotaan, NEW c \in Chains, NEW k \in Rangkaian,
           rangkaian' = [rangkaian EXCEPT ![c] = k], Terbuka(rangkaian[c]),
           k.status \in {"aktif", "selesai", "diberkaskan"},
           k.status \in {"selesai", "diberkaskan"} => c \notin Penghalang,
           k.status = "selesai" => k.manual, k.manual => k.status # "aktif",
           NEW S, HitungMasuk(masuk, S),
           k.manual /\ ~rangkaian[c].manual => AnggotaMasuk(c) \subseteq S,
           k.status = "diberkaskan" => Berkaskan(c)
    PROVE  Langkah
<1>0. /\ AnggotaInv /\ TypeOK
      /\ \A e \in Chains : rangkaian[e] \in Rangkaian /\ ManualOK(e) /\ SelesaiOK(e)
      /\ \A s \in SuratMasuk : MasukOK(s)
      /\ \A z \in SuratKeluar : BerubahOK(z)
  BY InvFakta
<1>1. /\ rangkaian' \in [Chains -> Rangkaian] /\ rangkaian'[c] = k
      /\ \A e \in Chains : e # c => rangkaian'[e] = rangkaian[e]
  BY <1>0 DEF TypeOK
<1>2. UNCHANGED <<anggota, induk, keluar, dihapus, relasi, disposisi, berubah>>
  BY DEF TetapKeanggotaan
<1>3. /\ Penghalang' = Penghalang /\ BalasanSah' = BalasanSah
      /\ BelumDitangani' = BelumDitangani /\ Tertangani' = Tertangani
  BY <1>2, FaktaTetap
<1>4. ASSUME NEW s \in SuratMasuk, s \notin S PROVE MasukAman(s)
  <2>1. Hidup(s)' => Hidup(s)
    BY <1>2, <1>4 DEF Hidup, Terdaftar, HitungMasuk
  <2>2. anggota[s] # NoChain /\ rangkaian'[anggota[s]].manual => rangkaian[anggota[s]].manual
    <3>1. anggota[s] \in Chains \cup {NoChain}
      BY <1>0, SuratFakta DEF TypeOK
    <3>2. anggota[s] = c => s \in AnggotaMasuk(c)
      BY SuratFakta DEF AnggotaMasuk, Anggota
    <3>. QED
      BY <1>1, <1>4, <3>1, <3>2
  <2>. QED
    BY <1>2, <1>3, <2>1, <2>2 DEF MasukAman
<1>5. /\ \A s \in SuratMasuk : MasukOK(s)'
      /\ masuk' \in [SuratMasuk -> StatusMasuk]
      /\ \A s \in SuratMasuk : masuk[s] # "none" => masuk'[s] # "none"
  BY <1>0, <1>4, MasukSemua
<1>6. TypeOK'
  BY <1>0, <1>1, <1>2, <1>5 DEF TypeOK, StatusMasuk
<1>7. AnggotaInv' /\ BerkasTerkunciStep
  <2>1. TetapTerdaftar
    BY <1>2, <1>5, MasukTetapTerdaftar
  <2>2. RangkaianMaju
    BY <1>1 DEF RangkaianMaju, Terbuka
  <2>3. DisposisiTetap /\ BerkasDiam
    BY <1>2 DEF DisposisiTetap, BerkasDiam
  <2>. QED
    BY <1>0, <1>2, <1>6, <2>1, <2>2, <2>3, AnggotaTetap
<1>8. ASSUME NEW e \in Chains PROVE ManualOK(e)' /\ SelesaiOK(e)'
  <2>1. CASE e = c
    BY <1>1, <1>3, <2>1 DEF ManualOK, SelesaiOK, StatusTurunan, Terbuka
  <2>2. CASE e # c
    <3>1. Aman(e)
      BY <1>3 DEF Aman
    <3>. QED
      BY <1>0, <1>1, <2>2, <3>1, SelesaiTetap DEF ManualOK
  <2>. QED
    BY <2>1, <2>2
<1>9. \A z \in SuratKeluar : BerubahOK(z)'
  BY <1>0, <1>2 DEF BerubahOK
<1>10. Gerak
  <2>1. \/ Berkaskan(c)
        \/ \A e \in Chains :
             rangkaian'[e].status = "diberkaskan" => rangkaian[e].status = "diberkaskan"
    BY <1>1
  <2>. QED
    BY <1>2, <2>1 DEF Gerak
<1>. QED
  BY <1>5, <1>7, <1>8, <1>9, <1>10 DEF Langkah, RangkaianInv

LEMMA TandaiSelesaiStep ==
    ASSUME RangkaianInv, NEW c \in Chains, TandaiSelesai(c)
    PROVE  Langkah
<1>. DEFINE k == [rangkaian[c] EXCEPT !.status = "selesai", !.manual = TRUE]
<1>1. k \in Rangkaian /\ k.status = "selesai" /\ k.manual
  BY InvFakta DEF Rangkaian
<1>2. rangkaian' = [rangkaian EXCEPT ![c] = k]
  BY DEF TandaiSelesai
<1>. HIDE DEF k
<1>3. PICK S : S = AnggotaMasuk(c)
  OBVIOUS
<1>4. HitungMasuk(masuk, S)
  BY <1>3 DEF TandaiSelesai, HitungMasuk
<1>. QED
  BY <1>1, <1>2, <1>3, <1>4, RangkaianSaja DEF TandaiSelesai, Terbuka, TanpaPenghalang

LEMMA BukaKembaliStep ==
    ASSUME RangkaianInv, NEW c \in Chains, BukaKembali(c)
    PROVE  Langkah
<1>. DEFINE k == [rangkaian[c] EXCEPT !.status = "aktif", !.manual = FALSE]
<1>1. k \in Rangkaian /\ k.status = "aktif" /\ ~k.manual
  BY InvFakta DEF Rangkaian
<1>2. rangkaian' = [rangkaian EXCEPT ![c] = k]
  BY DEF BukaKembali
<1>. HIDE DEF k
<1>3. PICK S : S = AnggotaMasuk(c)
  OBVIOUS
<1>4. HitungMasuk(masuk, S)
  BY <1>3 DEF BukaKembali, HitungMasuk
<1>. QED
  BY <1>1, <1>2, <1>3, <1>4, RangkaianSaja DEF BukaKembali, Terbuka

LEMMA BerkaskanStep ==
    ASSUME RangkaianInv, NEW c \in Chains, Berkaskan(c)
    PROVE  Langkah
<1>. DEFINE k == [rangkaian[c] EXCEPT !.status = "diberkaskan"]
<1>1. k \in Rangkaian /\ k.status = "diberkaskan" /\ k.manual = rangkaian[c].manual
  BY InvFakta DEF Rangkaian
<1>2. rangkaian' = [rangkaian EXCEPT ![c] = k]
  BY DEF Berkaskan
<1>. HIDE DEF k
<1>3. HitungMasuk(masuk, {})
  <2>1. masuk = [s \in SuratMasuk |-> masuk[s]]
    BY InvFakta DEF TypeOK
  <2>. QED
    BY <2>1 DEF HitungMasuk, Berkaskan
<1>. QED
  BY <1>1, <1>2, <1>3, RangkaianSaja DEF Berkaskan, TanpaPenghalang

(***************************************************************************)
(* Steps that leave the members alone and recompute one chain or none.     *)
(***************************************************************************)

\* Chain c is recomputed from its row, the others stay.
Satuan(c) ==
    rangkaian' = [e \in Chains |-> IF e = c THEN Dihitung(rangkaian[e], e) ELSE rangkaian[e]]

LEMMA SatuanFakta ==
    ASSUME RangkaianInv, NEW c, Satuan(c)
    PROVE  /\ rangkaian' \in [Chains -> Rangkaian]
           /\ RangkaianMaju
           /\ \A e \in Chains :
                /\ ManualOK(e)'
                /\ rangkaian'[e].manual => rangkaian[e].manual
                /\ Aman(e) \/ (e = c /\ rangkaian[e].status # "diberkaskan") => SelesaiOK(e)'
<1>1. \A e \in Chains : rangkaian[e] \in Rangkaian /\ ManualOK(e) /\ SelesaiOK(e)
  BY InvFakta
<1>2. ASSUME NEW e \in Chains
      PROVE  /\ rangkaian'[e] \in Rangkaian
             /\ rangkaian[e].status \in {"diberkaskan", "digabung"} =>
                  rangkaian'[e].status = rangkaian[e].status
             /\ Terbuka(rangkaian[e]) => rangkaian'[e].status \in {"aktif", "selesai"}
             /\ ManualOK(e)'
             /\ rangkaian'[e].manual => rangkaian[e].manual
             /\ Aman(e) \/ (e = c /\ rangkaian[e].status # "diberkaskan") => SelesaiOK(e)'
  <2>1. CASE e = c
    <3>1. PICK r : r = rangkaian[e]
      OBVIOUS
    <3>2. r \in Rangkaian /\ ManualOK(e) /\ SelesaiOK(e) /\ rangkaian'[e] = Dihitung(r, e)
      BY <1>1, <2>1, <3>1 DEF Satuan
    <3>3. /\ rangkaian'[e] \in Rangkaian
          /\ ~Terbuka(r) => rangkaian'[e] = r
          /\ Terbuka(r) => rangkaian'[e].status \in {"aktif", "selesai"}
          /\ rangkaian'[e].manual => r.manual
          /\ rangkaian'[e].manual /\ rangkaian'[e].status = "aktif" => r.status = "aktif"
          /\ r.status # "diberkaskan" => SelesaiOK(e)'
      BY <3>2, DihitungFakta
    <3>4. r.status \in {"diberkaskan", "digabung"} => rangkaian'[e].status = r.status
      BY <3>3 DEF Terbuka
    <3>5. ManualOK(e)'
      <4>1. CASE Terbuka(r)
        BY <3>1, <3>2, <3>3, <4>1 DEF ManualOK, Terbuka
      <4>2. CASE ~Terbuka(r)
        BY <3>1, <3>2, <3>3, <4>2 DEF ManualOK, Terbuka
      <4>. QED
        BY <4>1, <4>2
    <3>6. Aman(e) /\ r.status = "diberkaskan" => SelesaiOK(e)'
      <4>1. r.status = "diberkaskan" => rangkaian'[e] = rangkaian[e]
        BY <3>1, <3>3 DEF Terbuka
      <4>. QED
        BY <3>1, <3>2, <4>1, SelesaiTetap
    <3>. QED
      BY <3>1, <3>3, <3>4, <3>5, <3>6
  <2>2. CASE e # c
    <3>1. rangkaian'[e] = rangkaian[e]
      BY <2>2 DEF Satuan
    <3>2. Aman(e) => SelesaiOK(e)'
      BY <1>1, <3>1, SelesaiTetap
    <3>3. ManualOK(e)'
      BY <1>1, <3>1 DEF ManualOK
    <3>. QED
      BY <1>1, <2>2, <3>1, <3>2, <3>3 DEF Terbuka
  <2>. QED
    BY <2>1, <2>2
<1>3. rangkaian' \in [Chains -> Rangkaian]
  BY <1>2 DEF Satuan
<1>4. RangkaianMaju
  BY <1>2 DEF RangkaianMaju
<1>. QED
  BY <1>2, <1>3, <1>4

\* No chain is recomputed.
LEMMA SatuanKosong ==
    ASSUME RangkaianInv, UNCHANGED rangkaian
    PROVE  Satuan(NoChain)
BY InvFakta, RangkaianAssumption DEF TypeOK, Satuan

LEMMA GerakSatuan ==
    ASSUME RangkaianInv, NEW c, Satuan(c), UNCHANGED anggota, dihapus \subseteq dihapus',
           \A r \in relasi : \E q \in relasi' : q.dari = r.dari /\ q.ke = r.ke
    PROVE  Gerak
<1>1. ASSUME NEW e \in Chains, rangkaian'[e].status = "diberkaskan"
      PROVE  rangkaian[e].status = "diberkaskan"
  <2>1. rangkaian[e] \in Rangkaian
    BY InvFakta
  <2>2. CASE e = c
    <3>1. rangkaian'[e] = Dihitung(rangkaian[e], e)
      BY <2>2 DEF Satuan, Dihitung
    <3>. QED
      BY <1>1, <2>1, <3>1, DihitungFakta
  <2>3. CASE e # c
    BY <1>1, <2>3 DEF Satuan
  <2>. QED
    BY <2>2, <2>3
<1>. QED
  BY <1>1 DEF Gerak

LEMMA AmanFakta ==
    ASSUME UNCHANGED <<anggota, keluar, dihapus, relasi, disposisi>>
    PROVE  \A e \in Chains : Aman(e)
BY FaktaTetap DEF Aman

\* The letters, when no status of theirs is touched.
LEMMA MasukDiam ==
    ASSUME RangkaianInv, UNCHANGED masuk, \A s \in SuratMasuk : MasukAman(s)
    PROVE  \A s \in SuratMasuk : MasukOK(s)'
BY InvFakta, MasukTetap

\* A step that only starts or registers something.
LEMMA DaftarMasukStep ==
    ASSUME RangkaianInv, NEW s \in SuratMasuk, NEW status \in StatusAwal, DaftarMasuk(s, status)
    PROVE  Langkah
<1>0. /\ AnggotaInv /\ TypeOK /\ AnggotaTidakTercecer /\ AnggotaTerdaftar
      /\ \A z \in SuratMasuk : MasukOK(z)
      /\ \A k \in SuratKeluar : BerubahOK(k)
  BY InvFakta DEF AnggotaInv
<1>1. /\ UNCHANGED <<rangkaian, anggota, induk, keluar, dihapus, relasi, disposisi, berubah>>
      /\ masuk' = [masuk EXCEPT ![s] = status] /\ masuk[s] = "none"
  BY DEF DaftarMasuk
<1>2. status \in {"belum_dibalas", "sudah_dibalas"}
  BY RangkaianAssumption
<1>3. TypeOK'
  BY <1>0, <1>1, <1>2 DEF TypeOK
<1>4. PICK c : c = NoChain
  OBVIOUS
<1>5. /\ RangkaianMaju
      /\ \A e \in Chains : ManualOK(e)' /\ SelesaiOK(e)'
  BY <1>1, AmanFakta, SatuanKosong, SatuanFakta
<1>6. \A z \in SuratMasuk : masuk[z] # "none" => masuk'[z] # "none"
  BY <1>0, <1>1, <1>2 DEF TypeOK
<1>7. AnggotaInv' /\ BerkasTerkunciStep
  <2>1. TetapTerdaftar
    BY <1>1, <1>6, MasukTetapTerdaftar
  <2>2. DisposisiTetap /\ BerkasDiam
    BY <1>1 DEF DisposisiTetap, BerkasDiam
  <2>. QED
    BY <1>0, <1>1, <1>3, <1>5, <2>1, <2>2, AnggotaTetap
<1>8. ASSUME NEW z \in SuratMasuk PROVE MasukOK(z)'
  <2>1. CASE z = s
    <3>1. anggota[s] = NoChain
      BY <1>0, <1>1, SuratFakta DEF AnggotaTerdaftar, Terdaftar
    <3>2. \A r \in relasi : r.ke # s
      BY <1>0, <3>1 DEF AnggotaTidakTercecer
    <3>3. \A u \in Units : disposisi[s][u].status = "none"
      BY <1>0, <3>1 DEF AnggotaTidakTercecer
    <3>4. s \notin Beralasan'
      BY <1>1, <3>1, <3>2, <3>3 DEF Beralasan, BalasanSah
    <3>. QED
      BY <2>1, <3>4 DEF MasukOK
  <2>2. CASE z # s
    <3>1. masuk'[z] = masuk[z]
      BY <1>0, <1>1, <2>2 DEF TypeOK
    <3>2. MasukAman(z)
      BY <1>1, <3>1 DEF MasukAman, Hidup, Terdaftar, BalasanSah
    <3>. QED
      BY <1>0, <3>1, <3>2, MasukTetap
  <2>. QED
    BY <2>1, <2>2
<1>9. \A k \in SuratKeluar : BerubahOK(k)'
  BY <1>0, <1>1 DEF BerubahOK
<1>10. Gerak
  BY <1>1, <1>4, SatuanKosong, GerakSatuan
<1>. QED
  BY <1>5, <1>7, <1>8, <1>9, <1>10 DEF Langkah, RangkaianInv

LEMMA MulaiKeluarStep ==
    ASSUME RangkaianInv, NEW k \in SuratKeluar, NEW hasil \in {"draft", "approved", "dihapus"},
           MulaiKeluar(k, hasil)
    PROVE  Langkah
<1>0. /\ AnggotaInv /\ TypeOK
      /\ \A z \in SuratKeluar : BerubahOK(z)
  BY InvFakta
<1>1. /\ UNCHANGED <<rangkaian, anggota, induk, masuk, keluar, dihapus, relasi, disposisi>>
      /\ berubah' = [berubah EXCEPT ![k] = [hasil |-> hasil, rangkaian |-> anggota[k]]]
      /\ keluar[k] = "draft" /\ k \notin dihapus
  BY DEF MulaiKeluar, Hidup
<1>2. [hasil |-> hasil, rangkaian |-> anggota[k]] \in Berubah
  BY <1>0, SuratFakta DEF TypeOK, Berubah
<1>3. TypeOK'
  BY <1>0, <1>1, <1>2 DEF TypeOK
<1>4. PICK c : c = NoChain
  OBVIOUS
<1>5. /\ RangkaianMaju
      /\ \A e \in Chains : ManualOK(e)' /\ SelesaiOK(e)'
  BY <1>1, AmanFakta, SatuanKosong, SatuanFakta
<1>6. AnggotaInv' /\ BerkasTerkunciStep
  <2>1. TetapTerdaftar
    BY <1>1, MasukTetapTerdaftar
  <2>2. DisposisiTetap /\ BerkasDiam
    BY <1>1 DEF DisposisiTetap, BerkasDiam
  <2>. QED
    BY <1>0, <1>1, <1>3, <1>5, <2>1, <2>2, AnggotaTetap
<1>7. \A z \in SuratMasuk : MasukOK(z)'
  <2>1. \A z \in SuratMasuk : MasukAman(z)
    BY <1>1 DEF MasukAman, Hidup, Terdaftar, BalasanSah
  <2>. QED
    BY <1>1, <2>1, MasukDiam
<1>8. ASSUME NEW z \in SuratKeluar PROVE BerubahOK(z)'
  <2>1. CASE z = k
    <3>1. berubah'[z] = [hasil |-> hasil, rangkaian |-> anggota[k]]
      BY <1>0, <1>1, <2>1 DEF TypeOK
    <3>. QED
      BY <1>1, <2>1, <3>1 DEF BerubahOK
  <2>2. CASE z # k
    <3>1. berubah'[z] = berubah[z]
      BY <1>0, <1>1, <2>2 DEF TypeOK
    <3>. QED
      BY <1>0, <1>1, <3>1 DEF BerubahOK
  <2>. QED
    BY <2>1, <2>2
<1>9. Gerak
  BY <1>1, <1>4, SatuanKosong, GerakSatuan
<1>. QED
  BY <1>5, <1>6, <1>7, <1>8, <1>9 DEF Langkah, RangkaianInv

LEMMA BuatKeluarStep ==
    ASSUME RangkaianInv, NEW k \in SuratKeluar, BuatKeluar(k)
    PROVE  Langkah
<1>0. /\ AnggotaInv /\ TypeOK /\ AnggotaTerdaftar
      /\ \A z \in SuratKeluar : BerubahOK(z)
  BY InvFakta DEF AnggotaInv
<1>1. /\ UNCHANGED <<rangkaian, anggota, induk, masuk, dihapus, relasi, disposisi, berubah>>
      /\ keluar' = [keluar EXCEPT ![k] = "draft"] /\ keluar[k] = "none"
  BY DEF BuatKeluar
<1>2. /\ keluar'[k] = "draft"
      /\ \A z \in SuratKeluar : z # k => keluar'[z] = keluar[z]
  BY <1>0, <1>1 DEF TypeOK
<1>3. TypeOK'
  BY <1>0, <1>1 DEF TypeOK
<1>4. anggota[k] = NoChain
  BY <1>0, <1>1, SuratFakta, RangkaianAssumption DEF AnggotaTerdaftar, Terdaftar
<1>5. PICK c : c = NoChain
  OBVIOUS
<1>6. RangkaianMaju
  BY <1>1, SatuanKosong, SatuanFakta
<1>7. AnggotaInv' /\ BerkasTerkunciStep
  <2>1. TetapTerdaftar
    BY <1>1, <1>2, MasukTetapTerdaftar
  <2>2. DisposisiTetap /\ BerkasDiam
    BY <1>1 DEF DisposisiTetap, BerkasDiam
  <2>. QED
    BY <1>0, <1>1, <1>3, <1>6, <2>1, <2>2, AnggotaTetap
<1>8. ASSUME NEW e \in Chains PROVE ManualOK(e)' /\ SelesaiOK(e)'
  <2>1. Lokal(e)
    BY <1>1, <1>2, <1>4, RangkaianAssumption DEF Lokal
  <2>2. Aman(e)
    BY <1>0, <1>7, <2>1, AmanLokal
  <2>. QED
    BY <1>1, <2>2, SatuanKosong, SatuanFakta
<1>9. \A z \in SuratMasuk : MasukOK(z)'
  <2>1. \A r \in BalasanSah' : r \in BalasanSah
    BY <1>1, <1>2 DEF BalasanSah
  <2>2. \A z \in SuratMasuk : MasukAman(z)
    BY <1>1, <2>1 DEF MasukAman, Hidup, Terdaftar
  <2>. QED
    BY <1>1, <2>2, MasukDiam
<1>10. \A z \in SuratKeluar : BerubahOK(z)'
  BY <1>0, <1>1, <1>2 DEF BerubahOK
<1>11. Gerak
  BY <1>1, <1>5, SatuanKosong, GerakSatuan
<1>. QED
  BY <1>7, <1>8, <1>9, <1>10, <1>11 DEF Langkah, RangkaianInv

(***************************************************************************)
(* Changes of letters and dispositions.                                    *)
(***************************************************************************)

LEMMA UbahMasukStep ==
    ASSUME RangkaianInv, NEW s \in SuratMasuk, NEW hapus \in BOOLEAN, UbahMasuk(s, hapus)
    PROVE  Langkah
<1>0. /\ AnggotaInv /\ TypeOK
      /\ \A z \in SuratKeluar : BerubahOK(z)
  BY InvFakta DEF AnggotaInv
<1>1. /\ UNCHANGED <<anggota, induk, masuk, keluar, relasi, disposisi, berubah>>
      /\ dihapus' \subseteq dihapus \cup {s} /\ dihapus \subseteq dihapus'
      /\ ~Diberkaskan(s) /\ s \notin SuratKeluar /\ s \in Surat
  BY RangkaianAssumption, SuratFakta DEF UbahMasuk, TidakDiberkaskan, Diberkaskan
<1>2. PICK c : c = anggota[s]
  OBVIOUS
<1>3. Satuan(c)
  BY <1>2 DEF UbahMasuk, HitungRangkaianSurat, Satuan
<1>4. rangkaian' \in [Chains -> Rangkaian] /\ RangkaianMaju
  BY <1>3, SatuanFakta
<1>5. TypeOK'
  BY <1>0, <1>1, <1>4 DEF TypeOK
<1>6. AnggotaInv' /\ BerkasTerkunciStep
  <2>1. TetapTerdaftar
    BY <1>1, MasukTetapTerdaftar
  <2>2. DisposisiTetap /\ BerkasDiam
    BY <1>1 DEF DisposisiTetap, BerkasDiam
  <2>. QED
    BY <1>0, <1>1, <1>4, <1>5, <2>1, <2>2, AnggotaTetap
<1>7. ASSUME NEW e \in Chains PROVE ManualOK(e)' /\ SelesaiOK(e)'
  <2>1. CASE e = c
    <3>1. rangkaian[e].status # "diberkaskan"
      BY <1>1, <1>2, <2>1, RangkaianAssumption DEF Diberkaskan
    <3>. QED
      BY <1>3, <2>1, <3>1, SatuanFakta
  <2>2. CASE e # c
    <3>1. Lokal(e)
      BY <1>1, <1>2, <2>2 DEF Lokal
    <3>2. Aman(e)
      BY <1>0, <1>6, <3>1, AmanLokal
    <3>. QED
      BY <1>3, <3>2, SatuanFakta
  <2>. QED
    BY <2>1, <2>2
<1>8. \A z \in SuratMasuk : MasukOK(z)'
  <2>1. ASSUME NEW z \in SuratMasuk PROVE MasukAman(z)
    <3>1. \A r \in BalasanSah' : r \in BalasanSah
      BY <1>1 DEF BalasanSah
    <3>2. anggota[z] # NoChain /\ rangkaian'[anggota[z]].manual => rangkaian[anggota[z]].manual
      <4>1. anggota[z] \in Chains \cup {NoChain}
        BY <1>0, SuratFakta DEF TypeOK
      <4>. QED
        BY <1>3, <4>1, SatuanFakta
    <3>. QED
      BY <1>1, <3>1, <3>2 DEF MasukAman, Hidup, Terdaftar
  <2>. QED
    BY <1>1, <2>1, MasukDiam
<1>9. \A z \in SuratKeluar : BerubahOK(z)'
  BY <1>0, <1>1 DEF BerubahOK
<1>10. Gerak
  BY <1>1, <1>3, GerakSatuan
<1>. QED
  BY <1>6, <1>7, <1>8, <1>9, <1>10 DEF Langkah, RangkaianInv

\* When a change of an outgoing letter is committed, nothing speaks against
\* the chains more than before, and only the letters it answers gain a reason.
LEMMA SelesaiKeluarStep ==
    ASSUME RangkaianInv, NEW k \in SuratKeluar, SelesaiKeluar(k)
    PROVE  Langkah
<1>0. /\ AnggotaInv /\ TypeOK /\ AnggotaTidakTercecer
      /\ \A z \in SuratKeluar : BerubahOK(z)
      /\ \A z \in SuratMasuk : MasukOK(z)
  BY InvFakta DEF AnggotaInv
<1>1. /\ UNCHANGED <<anggota, induk, relasi, disposisi>>
      /\ berubah' = [berubah EXCEPT ![k] = Tenang]
      /\ keluar[k] = "draft" /\ k \notin dihapus
      /\ dihapus' \subseteq dihapus \cup {k} /\ dihapus \subseteq dihapus'
      /\ k \in Surat /\ k \notin SuratMasuk
  BY <1>0, SuratFakta, RangkaianAssumption DEF SelesaiKeluar, BerubahOK
<1>2. /\ keluar' \in [SuratKeluar -> {"none", "draft", "approved"}]
      /\ keluar'[k] \in {"draft", "approved"}
      /\ \A z \in SuratKeluar : z # k => keluar'[z] = keluar[z]
  <2>1. CASE berubah[k].hasil = "approved"
    BY <1>0, <2>1 DEF SelesaiKeluar, TypeOK
  <2>2. CASE berubah[k].hasil # "approved"
    BY <1>0, <1>1, <2>2 DEF SelesaiKeluar, TypeOK
  <2>. QED
    BY <2>1, <2>2
<1>3. PICK c : c = berubah[k].rangkaian
  OBVIOUS
<1>4. Satuan(c)
  BY <1>3 DEF SelesaiKeluar, Satuan
<1>5. PICK S : S = IF c = NoChain THEN {} ELSE Tujuan(k)
  OBVIOUS
<1>6. HitungMasuk(masuk, S)
  BY <1>3, <1>5 DEF SelesaiKeluar, HitungMasuk
<1>7. rangkaian' \in [Chains -> Rangkaian] /\ RangkaianMaju
  BY <1>4, SatuanFakta
<1>8. c = NoChain => anggota[k] = NoChain
  BY <1>0, <1>3 DEF BerubahOK, SelesaiKeluar
<1>9. ASSUME NEW z \in SuratMasuk, z \notin S PROVE MasukAman(z)
  <2>1. ASSUME NEW r \in BalasanSah', r.ke = z PROVE r \in BalasanSah
    <3>1. r \in relasi /\ r.dari \in SuratKeluar /\ keluar'[r.dari] = "approved"
      BY <1>1 DEF BalasanSah
    <3>2. CASE r.dari = k
      <4>1. z \in Tujuan(k)
        BY <2>1, <3>1, <3>2 DEF Tujuan, RelasiDari
      <4>2. anggota[k] # NoChain
        BY <1>0, <3>1, <3>2 DEF AnggotaTidakTercecer
      <4>. QED
        BY <1>5, <1>8, <1>9, <4>1, <4>2
    <3>3. CASE r.dari # k
      BY <1>1, <1>2, <3>1, <3>3 DEF BalasanSah
    <3>. QED
      BY <3>2, <3>3
  <2>2. anggota[z] # NoChain /\ rangkaian'[anggota[z]].manual => rangkaian[anggota[z]].manual
    <3>1. anggota[z] \in Chains \cup {NoChain}
      BY <1>0, SuratFakta DEF TypeOK
    <3>. QED
      BY <1>4, <3>1, SatuanFakta
  <2>3. Hidup(z)' => Hidup(z)
    BY <1>1, <1>6, <1>9 DEF Hidup, Terdaftar, HitungMasuk
  <2>. QED
    BY <1>1, <2>1, <2>2, <2>3 DEF MasukAman
<1>10. /\ \A s \in SuratMasuk : MasukOK(s)'
       /\ masuk' \in [SuratMasuk -> StatusMasuk]
       /\ \A s \in SuratMasuk : masuk[s] # "none" => masuk'[s] # "none"
  BY <1>0, <1>6, <1>9, MasukSemua
<1>11. TypeOK'
  <2>1. berubah' \in [SuratKeluar -> Berubah]
    BY <1>0, <1>1 DEF TypeOK, Berubah, Tenang
  <2>2. dihapus' \subseteq Surat
    BY <1>0, <1>1 DEF TypeOK
  <2>. QED
    BY <1>0, <1>1, <1>2, <1>7, <1>10, <2>1, <2>2 DEF TypeOK, StatusMasuk
<1>12. AnggotaInv' /\ BerkasTerkunciStep
  <2>1. TetapTerdaftar
    BY <1>1, <1>2, <1>10, MasukTetapTerdaftar
  <2>2. DisposisiTetap /\ BerkasDiam
    BY <1>1 DEF DisposisiTetap, BerkasDiam
  <2>. QED
    BY <1>0, <1>1, <1>7, <1>11, <2>1, <2>2, AnggotaTetap
<1>13. ASSUME NEW e \in Chains PROVE Aman(e)
  <2>1. DisposisiTerbuka(e)' => DisposisiTerbuka(e)
    BY <1>1 DEF DisposisiTerbuka
  <2>2. ASSUME NEW z \in SuratKeluar, Memblokir(z)' PROVE Memblokir(z)
    BY <1>1, <1>2, <2>2 DEF Memblokir, RelasiDari
  <2>3. AnggotaMemblokir(e)' => AnggotaMemblokir(e)
    BY <1>1, <2>2 DEF AnggotaMemblokir
  <2>4. \A r \in BalasanSah : r \in BalasanSah'
    BY <1>1, <1>2 DEF BalasanSah
  <2>5. \A s \in SuratMasuk : DisposisiSelesai(e, s)' <=> DisposisiSelesai(e, s)
    BY <1>1 DEF DisposisiSelesai
  <2>6. e \in BelumDitangani' => e \in BelumDitangani
    <3>1. AnggotaMasuk(e)' = AnggotaMasuk(e) /\ AnggotaMasuk(e) \subseteq SuratMasuk
      BY <1>1 DEF AnggotaMasuk, Anggota
    <3>. QED
      BY <1>1, <2>4, <2>5, <3>1 DEF BelumDitangani
  <2>7. e \in Tertangani => e \in Tertangani'
    BY <1>1, <2>4, <2>5 DEF Tertangani
  <2>. QED
    BY <2>1, <2>3, <2>6, <2>7 DEF Aman, Penghalang
<1>14. \A e \in Chains : ManualOK(e)' /\ SelesaiOK(e)'
  BY <1>4, <1>13, SatuanFakta
<1>15. ASSUME NEW z \in SuratKeluar PROVE BerubahOK(z)'
  <2>1. CASE z = k
    BY <1>0, <1>1, <2>1 DEF TypeOK, BerubahOK, Tenang
  <2>2. CASE z # k
    <3>1. berubah'[z] = berubah[z]
      BY <1>0, <1>1, <2>2 DEF TypeOK
    <3>. QED
      BY <1>0, <1>1, <1>2, <2>2, <3>1 DEF BerubahOK
  <2>. QED
    BY <2>1, <2>2
<1>16. Gerak
  BY <1>1, <1>4, GerakSatuan
<1>. QED
  BY <1>10, <1>12, <1>14, <1>15, <1>16 DEF Langkah, RangkaianInv

\* A disposition that is not of a filed chain gets another status; the
\* incoming letters S are recomputed.
LEMMA TerbitkanStep ==
    ASSUME RangkaianInv, NEW s \in SuratMasuk, NEW u \in Units,
           NEW status \in {"received", "processed", "rejected"}, NEW bukti \in BOOLEAN,
           disposisi[s][u].status \in {"sent", "received"}, Terbitkan(s, u, status, bukti),
           NEW c, Satuan(c), c = disposisi[s][u].rangkaian \/ status = "received",
           NEW S, HitungMasuk(masuk, S), bukti => s \in S
    PROVE  Langkah
<1>. DEFINE d == [disposisi[s][u] EXCEPT !.status = status, !.bukti = bukti]
<1>0. /\ AnggotaInv /\ TypeOK /\ AnggotaTidakTercecer
      /\ \A z \in SuratKeluar : BerubahOK(z)
      /\ \A z \in SuratMasuk : MasukOK(z)
  BY InvFakta DEF AnggotaInv
<1>1. /\ disposisi[s][u] \in Disposisi
      /\ d \in Disposisi /\ d.status = status /\ d.bukti = bukti
      /\ d.rangkaian = disposisi[s][u].rangkaian
      /\ disposisi' = [disposisi EXCEPT ![s][u] = d]
      /\ UNCHANGED <<anggota, induk, keluar, dihapus, relasi, berubah>>
  <2>1. disposisi[s][u] \in Disposisi
    BY <1>0 DEF TypeOK
  <2>2. /\ d \in Disposisi /\ d.status = status /\ d.bukti = bukti
        /\ d.rangkaian = disposisi[s][u].rangkaian
    BY <2>1 DEF Disposisi
  <2>3. disposisi' = [disposisi EXCEPT ![s][u] = d]
    <3>1. disposisi' = [disposisi EXCEPT ![s][u].status = status, ![s][u].bukti = bukti]
      BY DEF Terbitkan
    <3>2. disposisi \in [SuratMasuk -> [Units -> Disposisi]]
      BY <1>0 DEF TypeOK
    <3>. QED
      BY <3>1, <3>2, <2>1 DEF Disposisi
  <2>. QED
    BY <2>1, <2>2, <2>3 DEF Terbitkan
<1>. HIDE DEF d
<1>2. /\ disposisi' \in [SuratMasuk -> [Units -> Disposisi]]
      /\ disposisi'[s][u] = d
      /\ \A z \in SuratMasuk, v \in Units :
           ~(z = s /\ v = u) => disposisi'[z][v] = disposisi[z][v]
      /\ \A z \in SuratMasuk : z # s => disposisi'[z] = disposisi[z]
  BY <1>0, <1>1 DEF TypeOK
<1>3. /\ disposisi[s][u].rangkaian = anggota[s] /\ anggota[s] \in Chains
      /\ rangkaian[anggota[s]].status # "diberkaskan"
  BY <1>0, SuratFakta DEF AnggotaTidakTercecer, TypeOK, Terbitkan, DapatDiubah
<1>4. rangkaian' \in [Chains -> Rangkaian] /\ RangkaianMaju
  BY SatuanFakta
<1>5. ASSUME NEW z \in SuratMasuk, z \notin S PROVE MasukAman(z)
  <2>1. \A v \in Units : disposisi'[z][v].status = "processed" /\ disposisi'[z][v].bukti =>
          disposisi[z][v].status = "processed" /\ disposisi[z][v].bukti
    BY <1>1, <1>2, <1>5
  <2>2. anggota[z] # NoChain /\ rangkaian'[anggota[z]].manual => rangkaian[anggota[z]].manual
    <3>1. anggota[z] \in Chains \cup {NoChain}
      BY <1>0, SuratFakta DEF TypeOK
    <3>. QED
      BY <3>1, SatuanFakta
  <2>3. Hidup(z)' => Hidup(z)
    BY <1>1, <1>5 DEF Hidup, Terdaftar, HitungMasuk
  <2>. QED
    BY <1>1, <2>1, <2>2, <2>3 DEF MasukAman, BalasanSah
<1>6. /\ \A z \in SuratMasuk : MasukOK(z)'
      /\ masuk' \in [SuratMasuk -> StatusMasuk]
      /\ \A z \in SuratMasuk : masuk[z] # "none" => masuk'[z] # "none"
  BY <1>0, <1>5, MasukSemua
<1>7. TypeOK'
  BY <1>0, <1>1, <1>2, <1>4, <1>6 DEF TypeOK, StatusMasuk
<1>8. AnggotaInv' /\ BerkasTerkunciStep
  <2>1. TetapTerdaftar
    BY <1>1, <1>6, MasukTetapTerdaftar
  <2>2. DisposisiTetap
    BY <1>1, <1>2 DEF DisposisiTetap
  <2>3. BerkasDiam
    BY <1>1, <1>2, <1>3 DEF BerkasDiam, Diberkaskan
  <2>. QED
    BY <1>0, <1>1, <1>4, <1>7, <2>1, <2>2, <2>3, AnggotaTetap
<1>9. ASSUME NEW e \in Chains PROVE ManualOK(e)' /\ SelesaiOK(e)'
  <2>1. CASE e = c /\ c = anggota[s]
    BY <1>3, <2>1, SatuanFakta
  <2>2. CASE e # anggota[s] \/ status = "received"
    <3>1. Lokal(e)
      BY <1>1, <1>2, <2>2 DEF Lokal, TerbukaDisposisi
    <3>2. Aman(e)
      BY <1>0, <1>8, <3>1, AmanLokal
    <3>. QED
      BY <3>2, SatuanFakta
  <2>. QED
    BY <1>3, <2>1, <2>2
<1>10. \A z \in SuratKeluar : BerubahOK(z)'
  BY <1>0, <1>1 DEF BerubahOK
<1>11. Gerak
  BY <1>1, GerakSatuan
<1>. QED
  BY <1>6, <1>8, <1>9, <1>10, <1>11 DEF Langkah, RangkaianInv

LEMMA HitungMasukKosong ==
    ASSUME RangkaianInv, UNCHANGED masuk
    PROVE  HitungMasuk(masuk, {})
BY InvFakta DEF TypeOK, HitungMasuk

LEMMA TerimaStep ==
    ASSUME RangkaianInv, NEW s \in SuratMasuk, NEW u \in Units, Terima(s, u)
    PROVE  Langkah
<1>1. /\ disposisi[s][u].status \in {"sent", "received"}
      /\ Terbitkan(s, u, "received", FALSE) /\ UNCHANGED <<rangkaian, masuk>>
  BY DEF Terima
<1>2. Satuan(NoChain) /\ HitungMasuk(masuk, {})
  BY <1>1, SatuanKosong, HitungMasukKosong
<1>3. PICK c : c = NoChain
  OBVIOUS
<1>4. Satuan(c)
  BY <1>2, <1>3
<1>. QED
  BY <1>1, <1>2, <1>4, TerbitkanStep

LEMMA ProsesStep ==
    ASSUME RangkaianInv, NEW s \in SuratMasuk, NEW u \in Units, NEW bukti \in BOOLEAN,
           Proses(s, u, bukti)
    PROVE  Langkah
<1>1. /\ disposisi[s][u].status \in {"sent", "received"}
      /\ Terbitkan(s, u, "processed", bukti) /\ HitungMasuk(masuk, {s})
  BY DEF Proses
<1>2. PICK c : c = disposisi[s][u].rangkaian
  OBVIOUS
<1>3. Satuan(c)
  BY <1>2 DEF Proses, HitungRangkaianDisposisi, Satuan
<1>. QED
  BY <1>1, <1>2, <1>3, TerbitkanStep

LEMMA TolakStep ==
    ASSUME RangkaianInv, NEW s \in SuratMasuk, NEW u \in Units, Tolak(s, u)
    PROVE  Langkah
<1>1. /\ disposisi[s][u].status \in {"sent", "received"}
      /\ Terbitkan(s, u, "rejected", FALSE) /\ UNCHANGED masuk
  BY DEF Tolak
<1>2. HitungMasuk(masuk, {})
  BY <1>1, HitungMasukKosong
<1>3. PICK c : c = disposisi[s][u].rangkaian
  OBVIOUS
<1>4. Satuan(c)
  BY <1>3 DEF Tolak, HitungRangkaianDisposisi, Satuan
<1>. QED
  BY <1>1, <1>2, <1>3, <1>4, TerbitkanStep

LEMMA BatalRelasiStep ==
    ASSUME RangkaianInv, NEW r \in relasi, NEW c \in Chains, BatalRelasi(r, c)
    PROVE  Langkah
<1>. DEFINE q == [r EXCEPT !.batal = TRUE]
<1>0. /\ AnggotaInv /\ TypeOK /\ AnggotaTidakTercecer
      /\ \A z \in SuratKeluar : BerubahOK(z)
      /\ \A z \in SuratMasuk : MasukOK(z)
  BY InvFakta DEF AnggotaInv
<1>1. /\ r \in Relasi /\ q \in Relasi /\ q.dari = r.dari /\ q.ke = r.ke
      /\ q.jenis = r.jenis /\ q.batal = TRUE
  BY <1>0 DEF TypeOK, Relasi
<1>2. /\ relasi' = (relasi \ {r}) \cup {q}
      /\ anggota[r.dari] = c /\ rangkaian[c].status # "diberkaskan"
      /\ UNCHANGED <<anggota, induk, keluar, dihapus, disposisi, berubah>>
  BY DEF BatalRelasi
<1>. HIDE DEF q
<1>3. Satuan(c)
  BY <1>0 DEF BatalRelasi, SetelahBatal, HitungRangkaian, Satuan, TypeOK
<1>4. PICK S : S = {r.dari, r.ke} \cap SuratMasuk
  OBVIOUS
<1>5. HitungMasuk(masuk, S)
  BY <1>4 DEF BatalRelasi, HitungMasuk
<1>6. rangkaian' \in [Chains -> Rangkaian] /\ RangkaianMaju
  BY <1>3, SatuanFakta
<1>7. ASSUME NEW z \in SuratMasuk, z \notin S PROVE MasukAman(z)
  <2>1. \A b \in BalasanSah' : b \in BalasanSah
    BY <1>1, <1>2 DEF BalasanSah
  <2>2. anggota[z] # NoChain /\ rangkaian'[anggota[z]].manual => rangkaian[anggota[z]].manual
    <3>1. anggota[z] \in Chains \cup {NoChain}
      BY <1>0, SuratFakta DEF TypeOK
    <3>. QED
      BY <1>3, <3>1, SatuanFakta
  <2>3. Hidup(z)' => Hidup(z)
    BY <1>2, <1>5, <1>7 DEF Hidup, Terdaftar, HitungMasuk
  <2>. QED
    BY <1>2, <2>1, <2>2, <2>3 DEF MasukAman
<1>8. /\ \A s \in SuratMasuk : MasukOK(s)'
      /\ masuk' \in [SuratMasuk -> StatusMasuk]
      /\ \A s \in SuratMasuk : masuk[s] # "none" => masuk'[s] # "none"
  BY <1>0, <1>5, <1>7, MasukSemua
<1>9. TypeOK'
  BY <1>0, <1>1, <1>2, <1>6, <1>8 DEF TypeOK, StatusMasuk
<1>10. \A b \in Relasi : b.dari # r.dari => (b \in relasi' <=> b \in relasi)
  BY <1>1, <1>2
<1>11. AnggotaInv' /\ BerkasTerkunciStep
  <2>1. TetapTerdaftar
    BY <1>2, <1>8, MasukTetapTerdaftar
  <2>2. AnggotaBaru
    BY <1>2 DEF AnggotaBaru
  <2>3. RelasiUtuh
    BY <1>0, <1>1, <1>2 DEF RelasiUtuh, AnggotaTidakTercecer
  <2>4. DisposisiIkut
    BY <1>0, <1>2 DEF DisposisiIkut, AnggotaTidakTercecer
  <2>5. BerkasDiam
    BY <1>2, <1>10 DEF BerkasDiam, Diberkaskan
  <2>. QED
    BY <1>0, <1>6, <1>9, <2>1, <2>2, <2>3, <2>4, <2>5, LangkahAnggota
<1>12. ASSUME NEW e \in Chains PROVE ManualOK(e)' /\ SelesaiOK(e)'
  <2>1. CASE e = c
    BY <1>2, <1>3, <2>1, SatuanFakta
  <2>2. CASE e # c
    <3>1. Lokal(e)
      BY <1>2, <1>10, <2>2 DEF Lokal
    <3>2. Aman(e)
      BY <1>0, <1>11, <3>1, AmanLokal
    <3>. QED
      BY <1>3, <3>2, SatuanFakta
  <2>. QED
    BY <2>1, <2>2
<1>13. \A z \in SuratKeluar : BerubahOK(z)'
  BY <1>0, <1>2 DEF BerubahOK
<1>14. Gerak
  <2>1. \A b \in relasi : \E a \in relasi' : a.dari = b.dari /\ a.ke = b.ke
    BY <1>1, <1>2
  <2>. QED
    BY <1>2, <1>3, <2>1, GerakSatuan
<1>. QED
  BY <1>8, <1>11, <1>12, <1>13, <1>14 DEF Langkah, RangkaianInv

(***************************************************************************)
(* Steps that move the letters S into chain c.                             *)
(***************************************************************************)

\* What they do to letters, with awal the statuses of the incoming letters
\* before those of T are recomputed.
SuratIkut(S, T, awal) ==
    /\ anggota' \in [Surat -> Chains \cup {NoChain}] /\ induk' \subseteq Surat
    /\ keluar' \in [SuratKeluar -> {"none", "draft", "approved"}]
    /\ UNCHANGED <<dihapus, berubah>>
    /\ \A k \in SuratKeluar :
         /\ keluar[k] # "none" => keluar'[k] = keluar[k]
         /\ keluar'[k] = "approved" => keluar[k] = "approved"
    /\ \A s \in SuratMasuk :
         awal[s] = masuk[s] \/ (masuk[s] = "none" /\ (s \in T \/ s \notin Beralasan'))
    /\ \A x \in S :
         /\ IF x \in SuratMasuk THEN awal[x] # "none" ELSE keluar'[x] # "none"
         /\ anggota[x] = NoChain => Bebas(x)
    /\ HitungMasuk(awal, T)

\* To chain c, and to the chains the letters come from.
RangkaianTujuan(S, c) ==
    /\ rangkaian[c].status \in {"none", "aktif", "selesai"}
    /\ rangkaian'[c] \in Rangkaian /\ rangkaian'[c].status \in {"aktif", "selesai"}
    /\ ManualOK(c)' /\ SelesaiOK(c)'
    /\ rangkaian'[c].manual => rangkaian[c].manual /\ \A x \in S : anggota[x] = c
SumberDitutup(S, c) ==
    \A e \in Chains \ {c} :
      \/ rangkaian'[e] = rangkaian[e] /\ \A x \in S : anggota[x] # e
      \/ /\ Terbuka(rangkaian[e])
         /\ rangkaian'[e] = [rangkaian[e] EXCEPT !.status = "digabung"]
         /\ \A x \in Surat : anggota[x] = e => x \in S

\* To relations and dispositions.
RelasiTambah(T, c) ==
    /\ relasi \subseteq relasi' /\ relasi' \subseteq Relasi
    /\ \A r \in relasi' \ relasi : /\ anggota'[r.dari] = c /\ anggota'[r.ke] = c
                                   /\ r.ke \in SuratMasuk => r.ke \in T
DisposisiPindahan(c) ==
    /\ disposisi' \in [SuratMasuk -> [Units -> Disposisi]]
    /\ DisposisiIkut
    /\ \A s \in SuratMasuk : anggota[s] # NoChain /\ anggota'[s] # c => disposisi'[s] = disposisi[s]
    /\ \A s \in SuratMasuk, u \in Units : disposisi'[s][u].status = "processed" /\ disposisi'[s][u].bukti =>
         disposisi[s][u].status = "processed" /\ disposisi[s][u].bukti

\* Chain c recomputed from the row r.
LEMMA TujuanDihitung ==
    ASSUME NEW S, NEW c \in Chains, NEW r \in Rangkaian, rangkaian'[c] = Dihitung(r, c), Terbuka(r),
           rangkaian[c].status \in {"none", "aktif", "selesai"}, r.manual => r.status # "aktif",
           r.manual => rangkaian[c].manual /\ \A x \in S : anggota[x] = c
    PROVE  RangkaianTujuan(S, c)
<1>1. /\ rangkaian'[c] \in Rangkaian
      /\ rangkaian'[c].status \in {"aktif", "selesai"}
      /\ rangkaian'[c].manual => r.manual
      /\ rangkaian'[c].manual /\ rangkaian'[c].status = "aktif" => r.status = "aktif"
      /\ SelesaiOK(c)'
  BY DihitungFakta DEF Terbuka
<1>2. ManualOK(c)'
  BY <1>1 DEF ManualOK
<1>. QED
  BY <1>1, <1>2 DEF RangkaianTujuan

LEMMA PindahStep ==
    ASSUME RangkaianInv, NEW S \in SUBSET Surat, NEW T, NEW c \in Chains,
           NEW awal \in [SuratMasuk -> StatusMasuk],
           Pindah(S, c), SuratIkut(S, T, awal), RangkaianTujuan(S, c), SumberDitutup(S, c),
           RelasiTambah(T, c), DisposisiPindahan(c),
           rangkaian' = [e \in Chains |-> rangkaian'[e]]
    PROVE  Langkah
<1>0. /\ AnggotaInv /\ TypeOK /\ AnggotaTidakTercecer /\ AnggotaTerdaftar
      /\ \A e \in Chains : rangkaian[e] \in Rangkaian /\ ManualOK(e) /\ SelesaiOK(e)
      /\ \A z \in SuratKeluar : BerubahOK(z)
      /\ \A z \in SuratMasuk : MasukOK(z)
  BY InvFakta DEF AnggotaInv
<1>1. c # NoChain /\ \A s \in SuratMasuk : s \notin SuratKeluar
  BY RangkaianAssumption
<1>2. ASSUME NEW e \in Chains, e # c
      PROVE  /\ rangkaian'[e] \in Rangkaian /\ ManualOK(e)'
             /\ rangkaian'[e] # rangkaian[e] => Terbuka(rangkaian[e]) /\ rangkaian'[e].status = "digabung"
             /\ rangkaian'[e].manual = rangkaian[e].manual
             /\ \/ \A x \in Surat : anggota'[x] = e <=> anggota[x] = e
                \/ \A x \in Surat : anggota'[x] # e
             /\ rangkaian'[e] = rangkaian[e] \/ \A x \in Surat : anggota'[x] # e
  <2>1. CASE rangkaian'[e] = rangkaian[e] /\ \A x \in S : anggota[x] # e
    BY <1>0, <1>2, <2>1 DEF Pindah, ManualOK
  <2>2. CASE /\ Terbuka(rangkaian[e])
             /\ rangkaian'[e] = [rangkaian[e] EXCEPT !.status = "digabung"]
             /\ \A x \in Surat : anggota[x] = e => x \in S
    <3>1. /\ rangkaian'[e] \in Rangkaian /\ rangkaian'[e].status = "digabung"
          /\ rangkaian'[e].manual = rangkaian[e].manual
      BY <1>0, <2>2 DEF Rangkaian
    <3>. QED
      BY <1>2, <2>2, <3>1 DEF Pindah, ManualOK
  <2>. QED
    BY <1>2, <2>1, <2>2 DEF SumberDitutup
<1>3. rangkaian' \in [Chains -> Rangkaian]
  BY <1>2 DEF RangkaianTujuan
<1>4. ASSUME NEW z \in SuratMasuk, z \notin T, awal[z] = masuk[z] PROVE MasukAman(z)
  <2>1. ASSUME NEW r \in BalasanSah', r.ke = z PROVE r \in BalasanSah
    BY <1>4, <2>1 DEF BalasanSah, RelasiTambah, SuratIkut
  <2>2. anggota'[z] # NoChain /\ rangkaian'[anggota'[z]].manual =>
          anggota[z] # NoChain /\ rangkaian[anggota[z]].manual
    <3>1. anggota[z] \in Chains \cup {NoChain} /\ z \in Surat
      BY <1>0, SuratFakta DEF TypeOK
    <3>2. CASE z \in S
      <4>1. anggota'[z] = c
        BY <3>1, <3>2 DEF Pindah
      <4>. QED
        BY <1>1, <3>2, <4>1 DEF RangkaianTujuan
    <3>3. CASE z \notin S
      <4>1. anggota'[z] = anggota[z]
        BY <3>1, <3>3 DEF Pindah
      <4>. QED
        BY <1>2, <3>1, <4>1 DEF RangkaianTujuan
    <3>. QED
      BY <3>2, <3>3
  <2>3. Hidup(z)' => Hidup(z)
    BY <1>4 DEF Hidup, Terdaftar, HitungMasuk, SuratIkut
  <2>. QED
    BY <2>1, <2>2, <2>3 DEF MasukAman, DisposisiPindahan
<1>5. /\ \A s \in SuratMasuk : MasukOK(s)'
      /\ masuk' \in [SuratMasuk -> StatusMasuk]
      /\ \A s \in SuratMasuk : awal[s] # "none" => masuk'[s] # "none"
  <2>1. \A s \in SuratMasuk : s \notin T =>
             (awal[s] = masuk[s] /\ MasukAman(s)) \/ s \notin Beralasan'
    BY <1>4 DEF SuratIkut
  <2>2. HitungMasuk(awal, T)
    BY DEF SuratIkut
  <2>. QED
    BY <1>0, <2>1, <2>2, MasukSemuaAwal
<1>6. TypeOK'
  BY <1>0, <1>3, <1>5 DEF TypeOK, StatusMasuk, SuratIkut, RelasiTambah, DisposisiPindahan
<1>7. TetapTerdaftar /\ \A x \in S : Terdaftar(x)'
  <2>1. \A s \in SuratMasuk : masuk[s] # "none" => masuk'[s] # "none"
    BY <1>5 DEF SuratIkut
  <2>2. \A k \in SuratKeluar : keluar[k] # "none" => keluar'[k] # "none"
    BY DEF SuratIkut
  <2>3. \A x \in S : Terdaftar(x)'
    BY <1>5 DEF Terdaftar, SuratIkut
  <2>. QED
    BY <2>1, <2>2, <2>3, MasukTetapTerdaftar
<1>8. \A x \in S : anggota[x] \in {NoChain, c} \/
        (Terbuka(rangkaian[anggota[x]]) /\ \A z \in Surat : anggota[z] = anggota[x] => z \in S)
  BY <1>0 DEF SumberDitutup, TypeOK
<1>9. ASSUME NEW x \in Surat, Diberkaskan(x)
      PROVE  anggota'[x] = anggota[x] /\ anggota[x] # c
  BY <1>8, <1>9 DEF Diberkaskan, Pindah, RangkaianTujuan, Terbuka
<1>10. AnggotaInv' /\ BerkasTerkunciStep
  <2>1. AnggotaBaru
    <3>1. ASSUME NEW x \in Surat, anggota'[x] # anggota[x]
          PROVE  x \in S /\ anggota'[x] = c
      BY <3>1 DEF Pindah
    <3>. QED
      BY <1>7, <1>8, <3>1 DEF AnggotaBaru, RangkaianTujuan
  <2>2. RangkaianMaju
    <3>1. ASSUME NEW e \in Chains
          PROVE  /\ rangkaian[e].status \in {"diberkaskan", "digabung"} =>
                      rangkaian'[e].status = rangkaian[e].status
                 /\ Terbuka(rangkaian[e]) =>
                      \/ rangkaian'[e].status \in {"aktif", "selesai", "diberkaskan"}
                      \/ \A x \in Surat : anggota'[x] # e
      BY <1>2 DEF RangkaianTujuan, Terbuka
    <3>. QED
      BY <3>1 DEF RangkaianMaju
  <2>3. RelasiUtuh
    <3>1. Utuh(S, c)
      BY <1>8 DEF Utuh
    <3>2. \A r \in relasi : anggota'[r.dari] # NoChain /\ anggota'[r.dari] = anggota'[r.ke]
      BY <1>0, <3>1, PindahRelasi
    <3>. QED
      BY <1>1, <3>2 DEF RelasiUtuh, RelasiTambah
  <2>4. DisposisiIkut
    BY DEF DisposisiPindahan
  <2>5. BerkasDiam
    <3>1. ASSUME NEW s \in SuratMasuk, Diberkaskan(s)
          PROVE  disposisi'[s] = disposisi[s] /\ (s \in dihapus' => s \in dihapus)
      <4>1. anggota'[s] # c /\ anggota[s] # NoChain
        BY <1>9, <3>1, SuratFakta DEF Diberkaskan
      <4>. QED
        BY <4>1 DEF DisposisiPindahan, SuratIkut
    <3>2. ASSUME NEW r \in Relasi, Diberkaskan(r.dari) PROVE r \in relasi' <=> r \in relasi
      <4>1. r.dari \in Surat
        BY DEF Relasi
      <4>. QED
        BY <1>9, <3>2, <4>1 DEF RelasiTambah
    <3>. QED
      BY <3>1, <3>2 DEF BerkasDiam
  <2>. QED
    BY <1>0, <1>6, <1>7, <2>1, <2>2, <2>3, <2>4, <2>5, LangkahAnggota
<1>11. ASSUME NEW e \in Chains PROVE ManualOK(e)' /\ SelesaiOK(e)'
  <2>1. CASE e = c
    BY <2>1 DEF RangkaianTujuan
  <2>2. CASE e # c /\ rangkaian'[e] # rangkaian[e]
    BY <1>2, <2>2 DEF SelesaiOK
  <2>3. CASE e # c /\ rangkaian'[e] = rangkaian[e]
    <3>1. \A x \in S : anggota[x] # e
      BY <2>3, <1>0 DEF SumberDitutup, Rangkaian, Terbuka
    <3>2. \A x \in Surat : anggota'[x] = e <=> anggota[x] = e
      BY <2>3, <3>1 DEF Pindah
    <3>3. \A s \in SuratMasuk : anggota[s] = e => disposisi'[s] = disposisi[s]
      BY <2>3, <3>2, SuratFakta, RangkaianAssumption DEF DisposisiPindahan
    <3>4. \A k \in SuratKeluar : anggota[k] = e => keluar'[k] = keluar[k]
      <4>1. \A k \in SuratKeluar : anggota[k] = e => keluar[k] # "none"
        BY <1>0, SuratFakta, RangkaianAssumption DEF AnggotaTerdaftar, Terdaftar
      <4>. QED
        BY <4>1 DEF SuratIkut
    <3>5. \A r \in Relasi : anggota[r.dari] = e => (r \in relasi' <=> r \in relasi)
      <4>1. \A r \in Relasi : r.dari \in Surat
        BY DEF Relasi
      <4>. QED
        BY <2>3, <3>2, <4>1 DEF RelasiTambah
    <3>6. Lokal(e)
      BY <3>2, <3>3, <3>4, <3>5 DEF Lokal, SuratIkut
    <3>7. Aman(e)
      BY <1>0, <1>10, <3>6, AmanLokal
    <3>. QED
      BY <1>0, <1>2, <2>3, <3>7, SelesaiTetap
  <2>. QED
    BY <2>1, <2>2, <2>3
<1>12. \A z \in SuratKeluar : BerubahOK(z)'
  <2>1. BerubahDiam
    BY SuratFakta DEF BerubahDiam, SuratIkut, Pindah
  <2>. QED
    BY <1>0, <2>1, BerubahTetap
<1>13. Gerak
  <2>1. Utuh(S, c)
    <3>1. \A x \in S : anggota[x] \in Chains \cup {NoChain}
      BY <1>0 DEF TypeOK
    <3>. QED
      BY <3>1 DEF Utuh, SumberDitutup
  <2>2. \A e \in Chains :
          rangkaian'[e].status = "diberkaskan" => rangkaian[e].status = "diberkaskan"
    BY <1>2 DEF RangkaianTujuan
  <2>3. \A r \in relasi : \E q \in relasi' : q.dari = r.dari /\ q.ke = r.ke
    BY DEF RelasiTambah
  <2>. QED
    BY <2>1, <2>2, <2>3 DEF Gerak, SuratIkut
<1>. QED
  BY <1>5, <1>10, <1>11, <1>12, <1>13 DEF Langkah, RangkaianInv

\* Chain c reopened from the row q and recomputed.
LEMMA TujuanDibuka ==
    ASSUME NEW S, NEW c \in Chains, NEW q \in Rangkaian, rangkaian'[c] = TargetBaru(q, c), Terbuka(q),
           rangkaian[c].status \in {"none", "aktif", "selesai"}, q.status = "aktif" => ~q.manual
    PROVE  RangkaianTujuan(S, c)
<1>1. PICK r : r = DibukaKembali(q)
  OBVIOUS
<1>2. r \in Rangkaian /\ r.status = "aktif" /\ ~r.manual
  BY <1>1, DibukaFakta
<1>3. rangkaian'[c] = Dihitung(r, c)
  BY <1>1 DEF TargetBaru, Dihitung
<1>. QED
  BY <1>2, <1>3, TujuanDihitung DEF Terbuka

\* The row of c after ensureForSurat of y.
LEMMA BarisPasti ==
    ASSUME RangkaianInv, NEW y \in Surat, NEW c \in Chains, NEW q, q = RangkaianPasti(y, c)[c],
           anggota[y] = c \/ (anggota[y] = NoChain /\ rangkaian[c].status = "none")
    PROVE  /\ q \in Rangkaian /\ (q.status = "aktif" => ~q.manual)
           /\ Terbuka(q) => rangkaian[c].status \in {"none", "aktif", "selesai"}
           /\ anggota[y] = c => q = rangkaian[c]
           /\ anggota[y] # c => ~q.manual
<1>1. TypeOK /\ rangkaian[c] \in Rangkaian /\ ManualOK(c)
  BY InvFakta
<1>2. q = IF anggota[y] = c THEN rangkaian[c] ELSE RangkaianBaru(y)
  BY <1>1, PastiFakta
<1>. QED
  BY <1>1, <1>2, RangkaianBaruFakta DEF ManualOK, Terbuka

LEMMA DisposisiDiam ==
    ASSUME RangkaianInv, NEW S, NEW c \in Chains, Pindah(S, c), UNCHANGED disposisi,
           \A x \in S : anggota[x] \in {NoChain, c}
    PROVE  DisposisiPindahan(c)
<1>1. TypeOK /\ AnggotaTidakTercecer
  BY InvFakta DEF AnggotaInv
<1>2. \A s \in SuratMasuk : anggota[s] # NoChain => anggota'[s] = anggota[s]
  BY SuratFakta DEF Pindah
<1>3. DisposisiIkut
  BY <1>1, <1>2 DEF DisposisiIkut, AnggotaTidakTercecer
<1>. QED
  BY <1>1, <1>3 DEF DisposisiPindahan, TypeOK

LEMMA DisposisiGabung ==
    ASSUME RangkaianInv, NEW S, NEW c \in Chains, NEW d \in Chains, c # d, Pindah(S, c),
           disposisi' = DisposisiPindah(d, c),
           \A x \in S : anggota[x] \in {NoChain, c, d}, \A x \in Surat : anggota[x] = d => x \in S
    PROVE  DisposisiPindahan(c)
<1>1. TypeOK /\ AnggotaTidakTercecer /\ c # NoChain /\ d # NoChain
  BY InvFakta, RangkaianAssumption DEF AnggotaInv
<1>2. ASSUME NEW s \in SuratMasuk, NEW u \in Units
      PROVE  /\ disposisi[s][u] \in Disposisi /\ disposisi'[s][u] \in Disposisi
             /\ disposisi'[s][u].status = disposisi[s][u].status
             /\ disposisi'[s][u].bukti = disposisi[s][u].bukti
             /\ disposisi'[s][u].rangkaian =
                  IF disposisi[s][u].rangkaian = d THEN c ELSE disposisi[s][u].rangkaian
             /\ disposisi[s][u].rangkaian # d => disposisi'[s][u] = disposisi[s][u]
  <2>1. PICK p : p = disposisi[s][u]
    OBVIOUS
  <2>2. p \in Disposisi
    BY <1>1, <2>1 DEF TypeOK
  <2>3. disposisi'[s][u] = IF p.rangkaian = d THEN [p EXCEPT !.rangkaian = c] ELSE p
    BY <2>1 DEF DisposisiPindah
  <2>4. LET q == [p EXCEPT !.rangkaian = c]
        IN  q \in Disposisi /\ q.status = p.status /\ q.bukti = p.bukti /\ q.rangkaian = c
    BY <2>2 DEF Disposisi
  <2>. QED
    BY <2>1, <2>2, <2>3, <2>4
<1>3. /\ disposisi' \in [SuratMasuk -> [Units -> Disposisi]]
      /\ \A s \in SuratMasuk : disposisi'[s] = [u \in Units |-> disposisi'[s][u]]
      /\ \A s \in SuratMasuk : disposisi[s] = [u \in Units |-> disposisi[s][u]]
  BY <1>1, <1>2 DEF TypeOK, DisposisiPindah
<1>4. \A s \in SuratMasuk : s \in Surat /\ anggota'[s] = IF s \in S THEN c ELSE anggota[s]
  BY SuratFakta DEF Pindah
<1>5. ASSUME NEW s \in SuratMasuk, NEW u \in Units
      PROVE  IF disposisi'[s][u].status = "none" THEN disposisi'[s][u].rangkaian = NoChain
             ELSE disposisi'[s][u].rangkaian = anggota'[s] /\ anggota'[s] # NoChain
  BY <1>1, <1>2, <1>4 DEF AnggotaTidakTercecer
<1>6. ASSUME NEW s \in SuratMasuk, anggota[s] # NoChain, anggota'[s] # c
      PROVE  disposisi'[s] = disposisi[s]
  <2>1. anggota[s] # d
    BY <1>4, <1>6
  <2>2. \A u \in Units : disposisi[s][u].rangkaian # d
    BY <1>1, <2>1 DEF AnggotaTidakTercecer
  <2>3. \A u \in Units : disposisi'[s][u] = disposisi[s][u]
    BY <1>2, <2>2
  <2>. QED
    BY <1>3, <2>3
<1>. QED
  BY <1>2, <1>3, <1>5, <1>6 DEF DisposisiPindahan, DisposisiIkut

LEMMA GabungStep ==
    ASSUME RangkaianInv, NEW c \in Chains, NEW d \in Chains, Gabung(c, d)
    PROVE  Langkah
<1>0. TypeOK /\ AnggotaTerdaftar /\ (\A e \in Chains : rangkaian[e] \in Rangkaian /\ ManualOK(e))
  BY InvFakta DEF AnggotaInv
<1>1. /\ c # d /\ Terbuka(rangkaian[c]) /\ Terbuka(rangkaian[d])
      /\ UNCHANGED <<keluar, dihapus, relasi, berubah>>
      /\ disposisi' = DisposisiPindah(d, c) /\ induk' = induk \ Anggota(d)
  BY DEF Gabung, DapatDigabung
<1>2. PICK S : S = Anggota(d)
  OBVIOUS
<1>3. S \in SUBSET Surat /\ \A x \in Surat : x \in S <=> anggota[x] = d
  BY <1>2 DEF Anggota
<1>4. Pindah(S, c) /\ anggota' \in [Surat -> Chains \cup {NoChain}]
  BY <1>0, <1>3 DEF Gabung, Pindah, TypeOK
<1>5. PICK T : T = AnggotaMasukBaru(c)
  OBVIOUS
<1>6. PICK awal : awal = masuk
  OBVIOUS
<1>7. awal \in [SuratMasuk -> StatusMasuk] /\ HitungMasuk(awal, T)
  BY <1>0, <1>5, <1>6 DEF Gabung, HitungMasuk, TypeOK, StatusMasuk
<1>8. SuratIkut(S, T, awal)
  <2>1. \A x \in S : IF x \in SuratMasuk THEN awal[x] # "none" ELSE keluar'[x] # "none"
    BY <1>0, <1>1, <1>3, <1>6, RangkaianAssumption DEF AnggotaTerdaftar, Terdaftar
  <2>2. \A x \in S : anggota[x] # NoChain
    BY <1>3, RangkaianAssumption
  <2>. QED
    BY <1>0, <1>1, <1>4, <1>6, <1>7, <2>1, <2>2 DEF SuratIkut, TypeOK
<1>9. PICK q : q = rangkaian[c]
  OBVIOUS
<1>10. /\ rangkaian'[c] = TargetBaru(q, c)
       /\ rangkaian'[d] = [rangkaian[d] EXCEPT !.status = "digabung"]
       /\ \A e \in Chains : e \notin {c, d} => rangkaian'[e] = rangkaian[e]
       /\ rangkaian' = [e \in Chains |-> rangkaian'[e]]
  BY <1>0, <1>1, <1>9 DEF Gabung, TypeOK
<1>11. RangkaianTujuan(S, c)
  <2>1. q \in Rangkaian /\ Terbuka(q) /\ (q.status = "aktif" => ~q.manual)
        /\ rangkaian[c].status \in {"none", "aktif", "selesai"}
    BY <1>0, <1>1, <1>9 DEF ManualOK, Terbuka
  <2>. QED
    BY <1>10, <2>1, TujuanDibuka
<1>12. SumberDitutup(S, c)
  BY <1>1, <1>3, <1>10 DEF SumberDitutup
<1>13. RelasiTambah(T, c)
  BY <1>0, <1>1 DEF RelasiTambah, TypeOK
<1>14. DisposisiPindahan(c)
  BY <1>1, <1>3, <1>4, DisposisiGabung
<1>. QED
  BY <1>3, <1>4, <1>7, <1>8, <1>10, <1>11, <1>12, <1>13, <1>14, PindahStep

\* What the attachment of x to y does to letters and relations.
LEMMA TertautFakta ==
    ASSUME RangkaianInv, NEW x \in Surat, NEW y \in Surat, NEW jenis, NEW c \in Chains,
           Tertaut(x, y, jenis, c), NEW T, T = Terdampak(x, y, c),
           anggota[y] = c \/ (anggota[y] = NoChain /\ rangkaian[c].status = "none")
    PROVE  /\ Pindah({x, y}, c) /\ anggota' \in [Surat -> Chains \cup {NoChain}]
           /\ IndukPasti(y, c) \subseteq Surat
           /\ RelasiTambah(T, c)
           /\ \A s \in {x, y} \cap SuratMasuk : s \in T
           /\ Terbuka(RangkaianPasti(y, c)[c])
           /\ anggota[x] \notin {NoChain, c} =>
                Anggota(anggota[x]) = {x} /\ Terbuka(rangkaian[anggota[x]])
<1>0. TypeOK
  BY InvFakta
<1>1. /\ anggota' = [AnggotaPasti(y, c) EXCEPT ![x] = c]
      /\ relasi' = relasi \cup {RelasiBaru(x, y, jenis)}
      /\ <<x, y, jenis>> \in Tautkan
  BY DEF Tertaut, DapatTertaut
<1>2. /\ Pindah({x, y}, c)
      /\ anggota' \in [Surat -> Chains \cup {NoChain}]
  BY <1>0, <1>1 DEF AnggotaPasti, Pindah, TypeOK
<1>3. anggota'[x] = c /\ anggota'[y] = c
  BY <1>2 DEF Pindah
<1>4. \A s \in {x, y} \cap SuratMasuk : s \in T
  BY <1>3 DEF Terdampak, AnggotaMasukBaru
<1>5. RelasiBaru(x, y, jenis) \in Relasi
  <2>1. jenis \in {"balasan", "merujuk"}
    BY <1>1, RangkaianAssumption
  <2>. QED
    BY <2>1 DEF RelasiBaru, Relasi
<1>6. RelasiTambah(T, c)
  <2>1. PICK r : r = RelasiBaru(x, y, jenis)
    OBVIOUS
  <2>2. r \in Relasi /\ r.dari = x /\ r.ke = y /\ relasi' = relasi \cup {r}
    BY <1>1, <1>5, <2>1 DEF RelasiBaru
  <2>. QED
    BY <1>0, <1>3, <1>4, <2>2 DEF RelasiTambah, TypeOK
<1>7. IndukPasti(y, c) \subseteq Surat
  BY <1>0 DEF IndukPasti, TypeOK
<1>. QED
  BY <1>2, <1>4, <1>6, <1>7 DEF Tertaut, DapatTertaut

\* One disposition of a letter of c is opened or received.
LEMMA DisposisiSatu ==
    ASSUME RangkaianInv, NEW S, NEW c \in Chains, Pindah(S, c),
           \A x \in S : anggota[x] \in {NoChain, c},
           NEW s \in SuratMasuk, NEW u \in Units, NEW d \in Disposisi, anggota'[s] = c,
           disposisi' = [disposisi EXCEPT ![s][u] = d],
           d.status \in {"sent", "received"}, d.rangkaian = c
    PROVE  DisposisiPindahan(c)
<1>1. TypeOK /\ AnggotaTidakTercecer /\ c # NoChain
  BY InvFakta, RangkaianAssumption DEF AnggotaInv
<1>2. \A z \in SuratMasuk : anggota[z] # NoChain => anggota'[z] = anggota[z]
  BY SuratFakta DEF Pindah
<1>3. /\ disposisi' \in [SuratMasuk -> [Units -> Disposisi]]
      /\ disposisi'[s][u] = d
      /\ \A z \in SuratMasuk, v \in Units :
           ~(z = s /\ v = u) => disposisi'[z][v] = disposisi[z][v]
      /\ \A z \in SuratMasuk : z # s => disposisi'[z] = disposisi[z]
  BY <1>1 DEF TypeOK
<1>4. ASSUME NEW z \in SuratMasuk, NEW v \in Units
      PROVE  IF disposisi'[z][v].status = "none" THEN disposisi'[z][v].rangkaian = NoChain
             ELSE disposisi'[z][v].rangkaian = anggota'[z] /\ anggota'[z] # NoChain
  <2>1. CASE z = s /\ v = u
    BY <1>1, <1>3, <2>1
  <2>2. CASE ~(z = s /\ v = u)
    <3>1. disposisi'[z][v] = disposisi[z][v]
      BY <1>3, <2>2
    <3>. QED
      BY <1>1, <1>2, <3>1 DEF AnggotaTidakTercecer
  <2>. QED
    BY <2>1, <2>2
<1>5. ASSUME NEW z \in SuratMasuk, NEW v \in Units,
             disposisi'[z][v].status = "processed", disposisi'[z][v].bukti
      PROVE  disposisi[z][v].status = "processed" /\ disposisi[z][v].bukti
  BY <1>3, <1>5
<1>. QED
  BY <1>3, <1>4, <1>5 DEF DisposisiPindahan, DisposisiIkut

LEMMA TautanStep ==
    ASSUME RangkaianInv, NEW x \in Surat, NEW y \in Surat, NEW jenis, NEW c \in Chains,
           Tautan(x, y, jenis, c)
    PROVE  Langkah
<1>0. /\ TypeOK /\ AnggotaTerdaftar /\ AnggotaTidakTercecer
      /\ \A e \in Chains : rangkaian[e] \in Rangkaian /\ ManualOK(e)
  BY InvFakta DEF AnggotaInv
<1>1. /\ Terdaftar(x) /\ Bebas(x) /\ Terdaftar(y) /\ Bebas(y)
      /\ anggota[y] = c \/ (anggota[y] = NoChain /\ rangkaian[c].status = "none")
      /\ Tertaut(x, y, jenis, c)
      /\ UNCHANGED <<keluar, dihapus, berubah>>
  BY <1>0, BebasFakta, RangkaianAssumption DEF Tautan, Dipastikan, Hidup, AnggotaTerdaftar
<1>2. PICK T : T = Terdampak(x, y, c)
  OBVIOUS
<1>3. PICK d : d = anggota[x]
  OBVIOUS
<1>4. PICK q : q = RangkaianPasti(y, c)[c]
  OBVIOUS
<1>5. /\ Pindah({x, y}, c) /\ anggota' \in [Surat -> Chains \cup {NoChain}]
      /\ IndukPasti(y, c) \subseteq Surat
      /\ RelasiTambah(T, c)
      /\ Terbuka(q)
      /\ d \notin {NoChain, c} => Anggota(d) = {x} /\ Terbuka(rangkaian[d])
  BY <1>1, <1>2, <1>3, <1>4, TertautFakta
<1>6. /\ q \in Rangkaian /\ (q.status = "aktif" => ~q.manual)
      /\ rangkaian[c].status \in {"none", "aktif", "selesai"}
      /\ anggota[y] = c => q = rangkaian[c]
      /\ anggota[y] # c => ~q.manual
  BY <1>1, <1>4, <1>5, BarisPasti
<1>7. d \in Chains \cup {NoChain}
  BY <1>0, <1>3 DEF TypeOK
<1>8. PICK awal : awal = masuk
  OBVIOUS
<1>9. awal \in [SuratMasuk -> StatusMasuk] /\ HitungMasuk(awal, T)
  BY <1>0, <1>2, <1>8 DEF Tautan, HitungMasuk, TypeOK, StatusMasuk
<1>10. SuratIkut({x, y}, T, awal)
  <2>1. \A z \in {x, y} : IF z \in SuratMasuk THEN awal[z] # "none" ELSE keluar'[z] # "none"
    BY <1>1, <1>8 DEF Terdaftar
  <2>2. induk' \subseteq Surat
    BY <1>5 DEF Tautan
  <2>. QED
    BY <1>0, <1>1, <1>5, <1>8, <1>9, <2>1, <2>2 DEF SuratIkut, TypeOK
<1>11. /\ rangkaian'[c] = IF d = c THEN Dihitung(q, c) ELSE TargetBaru(q, c)
       /\ \A e \in Chains : e # c /\ e # d => rangkaian'[e] = rangkaian[e]
       /\ d \in Chains /\ d # c => rangkaian'[d] = [rangkaian[d] EXCEPT !.status = "digabung"]
       /\ rangkaian' = [e \in Chains |-> rangkaian'[e]]
  <2>1. \A e \in Chains : e # c => RangkaianPasti(y, c)[e] = rangkaian[e]
    BY <1>0, <1>1, PastiFakta
  <2>. QED
    BY <1>3, <1>4, <2>1 DEF Tautan, TargetBaru, Dihitung
<1>12. RangkaianTujuan({x, y}, c)
  <2>1. CASE d = c
    <3>1. anggota[y] = c
      BY <1>0, <1>1, <1>3, <2>1, RangkaianAssumption DEF AnggotaTidakTercecer
    <3>2. rangkaian'[c] = Dihitung(q, c)
      BY <1>11, <2>1
    <3>. QED
      BY <1>3, <1>5, <1>6, <2>1, <3>1, <3>2, TujuanDihitung
  <2>2. CASE d # c
    <3>1. rangkaian'[c] = TargetBaru(q, c)
      BY <1>11, <2>2
    <3>. QED
      BY <1>5, <1>6, <3>1, TujuanDibuka
  <2>. QED
    BY <2>1, <2>2
<1>13. SumberDitutup({x, y}, c)
  <2>1. ASSUME NEW e \in Chains \ {c}
        PROVE  \/ rangkaian'[e] = rangkaian[e] /\ \A z \in {x, y} : anggota[z] # e
               \/ /\ Terbuka(rangkaian[e])
                  /\ rangkaian'[e] = [rangkaian[e] EXCEPT !.status = "digabung"]
                  /\ \A z \in Surat : anggota[z] = e => z \in {x, y}
    <3>1. CASE e = d
      <4>1. Anggota(d) = {x} /\ Terbuka(rangkaian[d])
        BY <1>5, <3>1, RangkaianAssumption
      <4>. QED
        BY <1>11, <3>1, <4>1 DEF Anggota
    <3>2. CASE e # d
      BY <1>1, <1>3, <1>11, <3>2, RangkaianAssumption
    <3>. QED
      BY <3>1, <3>2
  <2>. QED
    BY <2>1 DEF SumberDitutup
<1>14. DisposisiPindahan(c)
  <2>1. CASE d \in {NoChain, c}
    <3>1. UNCHANGED disposisi
      BY <1>3, <2>1 DEF Tautan
    <3>2. PICK S : S = {x, y}
      OBVIOUS
    <3>. QED
      BY <1>1, <1>3, <1>5, <2>1, <3>1, <3>2, DisposisiDiam
  <2>2. CASE d \notin {NoChain, c}
    <3>1. disposisi' = DisposisiPindah(d, c)
      BY <1>3, <2>2 DEF Tautan, DisposisiPindah
    <3>2. PICK S : S = {x, y}
      OBVIOUS
    <3>3. \A z \in Surat : anggota[z] = d => z \in S
      BY <1>5, <2>2, <3>2 DEF Anggota
    <3>. QED
      BY <1>1, <1>3, <1>5, <1>7, <2>2, <3>1, <3>2, <3>3, DisposisiGabung
  <2>. QED
    BY <2>1, <2>2
<1>15. PICK S : S = {x, y}
  OBVIOUS
<1>. QED
  BY <1>5, <1>9, <1>10, <1>11, <1>12, <1>13, <1>14, <1>15, PindahStep

\* The same for a letter that is registered with the relation.
LEMMA TertautBaru ==
    ASSUME RangkaianInv, NEW x \in Surat, NEW y \in Surat, NEW jenis, NEW c \in Chains,
           Tertaut(x, y, jenis, c), anggota[x] = NoChain, Dipastikan(y, c), induk' = IndukPasti(y, c),
           keluar' \in [SuratKeluar -> {"none", "draft", "approved"}],
           \A k \in SuratKeluar :
             /\ keluar[k] # "none" => keluar'[k] = keluar[k]
             /\ keluar'[k] = "approved" => keluar[k] = "approved",
           UNCHANGED <<dihapus, berubah>>,
           NEW T, T = Terdampak(x, y, c), NEW awal \in [SuratMasuk -> StatusMasuk],
           HitungMasuk(awal, T),
           \A s \in SuratMasuk : awal[s] = masuk[s] \/ (masuk[s] = "none" /\ s = x),
           IF x \in SuratMasuk THEN awal[x] # "none" ELSE keluar'[x] # "none", Bebas(x),
           rangkaian' = [RangkaianPasti(y, c) EXCEPT ![c] = TargetBaru(@, c)],
           DisposisiPindahan(c)
    PROVE  Langkah
<1>0. TypeOK
  BY InvFakta
<1>1. /\ Terdaftar(y) /\ Bebas(y)
      /\ anggota[y] = c \/ (anggota[y] = NoChain /\ rangkaian[c].status = "none")
  BY BebasFakta DEF Dipastikan, Hidup
<1>2. PICK q : q = RangkaianPasti(y, c)[c]
  OBVIOUS
<1>3. /\ Pindah({x, y}, c) /\ anggota' \in [Surat -> Chains \cup {NoChain}]
      /\ IndukPasti(y, c) \subseteq Surat
      /\ RelasiTambah(T, c)
      /\ \A s \in {x, y} \cap SuratMasuk : s \in T
      /\ Terbuka(q)
  BY <1>1, <1>2, TertautFakta
<1>4. /\ q \in Rangkaian /\ (q.status = "aktif" => ~q.manual)
      /\ rangkaian[c].status \in {"none", "aktif", "selesai"}
  BY <1>1, <1>2, <1>3, BarisPasti
<1>5. SuratIkut({x, y}, T, awal)
  <2>1. \A z \in {x, y} : IF z \in SuratMasuk THEN awal[z] # "none" ELSE keluar'[z] # "none"
    BY <1>1, RangkaianAssumption DEF Terdaftar, Surat
  <2>2. \A s \in SuratMasuk : awal[s] = masuk[s] \/ (masuk[s] = "none" /\ s \in T)
    BY <1>3
  <2>. QED
    BY <1>1, <1>3, <2>1, <2>2 DEF SuratIkut
<1>6. /\ rangkaian'[c] = TargetBaru(q, c)
      /\ \A e \in Chains : e # c => rangkaian'[e] = rangkaian[e]
      /\ rangkaian' = [e \in Chains |-> rangkaian'[e]]
  <2>1. /\ RangkaianPasti(y, c) \in [Chains -> Rangkaian]
        /\ \A e \in Chains : e # c => RangkaianPasti(y, c)[e] = rangkaian[e]
    BY <1>0, <1>1, PastiFakta
  <2>. QED
    BY <1>2, <2>1 DEF TargetBaru, Dihitung
<1>7. RangkaianTujuan({x, y}, c)
  BY <1>3, <1>4, <1>6, TujuanDibuka
<1>8. SumberDitutup({x, y}, c)
  BY <1>1, <1>6, RangkaianAssumption DEF SumberDitutup
<1>9. PICK S : S = {x, y}
  OBVIOUS
<1>. QED
  BY <1>3, <1>5, <1>6, <1>7, <1>8, <1>9, PindahStep

LEMMA DaftarReferensiStep ==
    ASSUME RangkaianInv, NEW s \in SuratMasuk, NEW status \in StatusAwal, NEW k \in SuratKeluar,
           NEW c \in Chains, DaftarReferensi(s, status, k, c)
    PROVE  Langkah
<1>0. TypeOK /\ AnggotaTerdaftar
  BY InvFakta DEF AnggotaInv
<1>1. /\ masuk[s] = "none" /\ Dipastikan(k, c) /\ Tertaut(s, k, "merujuk", c)
      /\ induk' = IndukPasti(k, c)
      /\ UNCHANGED <<keluar, dihapus, disposisi, berubah>>
      /\ rangkaian' = [RangkaianPasti(k, c) EXCEPT ![c] = TargetBaru(@, c)]
      /\ s \in Surat /\ k \in Surat /\ s \notin SuratKeluar
  BY SuratFakta, RangkaianAssumption DEF DaftarReferensi
<1>2. PICK T : T = Terdampak(s, k, c)
  OBVIOUS
<1>3. PICK awal : awal = [masuk EXCEPT ![s] = status]
  OBVIOUS
<1>4. /\ awal \in [SuratMasuk -> StatusMasuk] /\ awal[s] # "none"
      /\ \A z \in SuratMasuk : awal[z] = masuk[z] \/ (masuk[z] = "none" /\ z = s)
  <2>1. status \in {"belum_dibalas", "sudah_dibalas"}
    BY RangkaianAssumption
  <2>. QED
    BY <1>0, <1>1, <1>3, <2>1 DEF TypeOK, StatusMasuk
<1>5. HitungMasuk(awal, T)
  BY <1>2, <1>3 DEF DaftarReferensi, HitungMasuk
<1>6. anggota[s] = NoChain /\ Bebas(s)
  BY <1>0, <1>1 DEF AnggotaTerdaftar, Terdaftar, Bebas
<1>7. DisposisiPindahan(c)
  <2>1. Pindah({s, k}, c) /\ \A x \in {s, k} : anggota[x] \in {NoChain, c}
    BY <1>1, <1>2, <1>6, TertautFakta DEF Dipastikan
  <2>2. PICK S : S = {s, k}
    OBVIOUS
  <2>. QED
    BY <1>1, <2>1, <2>2, DisposisiDiam
<1>8. /\ keluar' \in [SuratKeluar -> {"none", "draft", "approved"}]
      /\ \A z \in SuratKeluar : keluar'[z] = keluar[z]
  BY <1>0, <1>1 DEF TypeOK
<1>9. PICK jenis : jenis = "merujuk"
  OBVIOUS
<1>. QED
  BY <1>1, <1>2, <1>4, <1>5, <1>6, <1>7, <1>8, <1>9, TertautBaru

LEMMA BuatTindakLanjutStep ==
    ASSUME RangkaianInv, NEW k \in SuratKeluar, NEW y \in Surat, NEW jenis, NEW c \in Chains,
           BuatTindakLanjut(k, y, jenis, c)
    PROVE  Langkah
<1>0. /\ TypeOK /\ AnggotaTerdaftar /\ AnggotaTidakTercecer
      /\ BerubahOK(k)
  BY InvFakta DEF AnggotaInv
<1>1. /\ keluar[k] = "none" /\ Dipastikan(y, c) /\ Tertaut(k, y, jenis, c)
      /\ induk' = IndukPasti(y, c) /\ keluar' = [keluar EXCEPT ![k] = "draft"]
      /\ UNCHANGED <<dihapus, berubah>>
      /\ rangkaian' = [RangkaianPasti(y, c) EXCEPT ![c] = TargetBaru(@, c)]
      /\ disposisi' \in DiterimaSalahSatu(c)
      /\ k \in Surat /\ k \notin SuratMasuk
  BY SuratFakta, RangkaianAssumption DEF BuatTindakLanjut
<1>2. PICK T : T = Terdampak(k, y, c)
  OBVIOUS
<1>3. PICK awal : awal = masuk
  OBVIOUS
<1>4. awal \in [SuratMasuk -> StatusMasuk] /\ HitungMasuk(awal, T)
  BY <1>0, <1>2, <1>3 DEF BuatTindakLanjut, HitungMasuk, TypeOK, StatusMasuk
<1>5. anggota[k] = NoChain
  BY <1>0, <1>1 DEF AnggotaTerdaftar, Terdaftar
<1>6. Bebas(k)
  BY <1>0, <1>1 DEF BerubahOK, Bebas
<1>7. /\ keluar' \in [SuratKeluar -> {"none", "draft", "approved"}] /\ keluar'[k] = "draft"
      /\ \A z \in SuratKeluar : /\ keluar[z] # "none" => keluar'[z] = keluar[z]
                                /\ keluar'[z] = "approved" => keluar[z] = "approved"
  BY <1>0, <1>1 DEF TypeOK
<1>8. DisposisiPindahan(c)
  <2>1. Pindah({k, y}, c) /\ \A x \in {k, y} : anggota[x] \in {NoChain, c}
    BY <1>1, <1>2, <1>5, TertautFakta DEF Dipastikan
  <2>2. PICK S : S = {k, y}
    OBVIOUS
  <2>3. CASE disposisi' = disposisi
    BY <2>1, <2>2, <2>3, DisposisiDiam
  <2>4. ASSUME NEW p \in SuratMasuk \X Units, disposisi[p[1]][p[2]].status = "sent",
               disposisi[p[1]][p[2]].rangkaian = c,
               disposisi' = [disposisi EXCEPT ![p[1]][p[2]].status = "received"]
        PROVE  DisposisiPindahan(c)
    <3>1. PICK s \in SuratMasuk, u \in Units : p = <<s, u>>
      OBVIOUS
    <3>2. PICK d : d = [disposisi[s][u] EXCEPT !.status = "received"]
      OBVIOUS
    <3>3. disposisi[s][u] \in Disposisi
      BY <1>0 DEF TypeOK
    <3>4. d \in Disposisi /\ d.status = "received" /\ d.rangkaian = c
      BY <2>4, <3>1, <3>2, <3>3 DEF Disposisi
    <3>5. disposisi' = [disposisi EXCEPT ![s][u] = d]
      BY <2>4, <3>1, <3>2
    <3>6. anggota'[s] = c
      <4>1. anggota[s] = c
        BY <1>0, <2>4, <3>1 DEF AnggotaTidakTercecer
      <4>. QED
        BY <2>1, <4>1, SuratFakta DEF Pindah
    <3>7. Pindah(S, c) /\ \A x \in S : anggota[x] \in {NoChain, c}
      BY <2>1, <2>2
    <3>8. d.status \in {"sent", "received"}
      BY <3>4
    <3>. QED
      BY <3>4, <3>5, <3>6, <3>7, <3>8, DisposisiSatu
  <2>. QED
    BY <1>1, <2>3, <2>4 DEF DiterimaSalahSatu
<1>. QED
  BY <1>1, <1>2, <1>3, <1>4, <1>5, <1>6, <1>7, <1>8, TertautBaru

LEMMA DistribusiStep ==
    ASSUME RangkaianInv, NEW s \in SuratMasuk, NEW u \in Units, NEW c \in Chains,
           Distribusi(s, u, c)
    PROVE  Langkah
<1>. DEFINE d == [status |-> "sent", rangkaian |-> c, bukti |-> FALSE]
<1>0. TypeOK /\ AnggotaTidakTercecer
  BY InvFakta DEF AnggotaInv
<1>1. /\ masuk[s] # "none" /\ Bebas(s) /\ s \in Surat
      /\ anggota[s] = c \/ (anggota[s] = NoChain /\ rangkaian[c].status = "none")
      /\ disposisi' = [disposisi EXCEPT ![s][u] = d]
      /\ anggota' = [anggota EXCEPT ![s] = c]
      /\ UNCHANGED <<keluar, dihapus, relasi, berubah>>
      /\ rangkaian' = [RangkaianPasti(s, c) EXCEPT ![c] = Dihitung(@, c)]
  BY SuratFakta, BebasFakta DEF Distribusi, Dipastikan, Hidup, Terdaftar, AnggotaPasti
<1>2. d \in Disposisi /\ d.status \in {"sent", "received"} /\ d.rangkaian = c
  BY DEF Disposisi
<1>. HIDE DEF d
<1>3. PICK q : q = RangkaianPasti(s, c)[c]
  OBVIOUS
<1>4. Terbuka(q)
  BY <1>3 DEF Distribusi
<1>5. /\ q \in Rangkaian /\ (q.status = "aktif" => ~q.manual)
      /\ rangkaian[c].status \in {"none", "aktif", "selesai"}
      /\ anggota[s] = c => q = rangkaian[c]
      /\ anggota[s] # c => ~q.manual
  BY <1>1, <1>3, <1>4, BarisPasti
<1>6. PICK S : S = {s}
  OBVIOUS
<1>7. /\ anggota' \in [Surat -> Chains \cup {NoChain}] /\ Pindah(S, c) /\ anggota'[s] = c
      /\ S \in SUBSET Surat
  BY <1>0, <1>1, <1>6 DEF TypeOK, Pindah
<1>8. PICK T : T = IF rangkaian[c].status = "selesai" THEN AnggotaMasuk(c) ELSE {s}
  OBVIOUS
<1>9. PICK awal : awal = masuk
  OBVIOUS
<1>10. awal \in [SuratMasuk -> StatusMasuk] /\ HitungMasuk(awal, T)
  BY <1>0, <1>8, <1>9 DEF Distribusi, HitungMasuk, TypeOK, StatusMasuk
<1>11. SuratIkut(S, T, awal)
  <2>1. induk' \subseteq Surat
    BY <1>0, <1>1 DEF Distribusi, IndukPasti, TypeOK
  <2>. QED
    BY <1>0, <1>1, <1>6, <1>7, <1>9, <1>10, <2>1 DEF SuratIkut, TypeOK
<1>12. /\ rangkaian'[c] = Dihitung(q, c)
       /\ \A e \in Chains : e # c => rangkaian'[e] = rangkaian[e]
       /\ rangkaian' = [e \in Chains |-> rangkaian'[e]]
  <2>1. /\ RangkaianPasti(s, c) \in [Chains -> Rangkaian]
        /\ \A e \in Chains : e # c => RangkaianPasti(s, c)[e] = rangkaian[e]
    BY <1>0, <1>1, PastiFakta
  <2>. QED
    BY <1>1, <1>3, <2>1 DEF Dihitung
<1>13. RangkaianTujuan(S, c)
  BY <1>4, <1>5, <1>6, <1>12, TujuanDihitung
<1>14. SumberDitutup(S, c)
  BY <1>1, <1>6, <1>12, RangkaianAssumption DEF SumberDitutup
<1>15. RelasiTambah(T, c)
  BY <1>0, <1>1 DEF RelasiTambah, TypeOK
<1>16. DisposisiPindahan(c)
  BY <1>1, <1>2, <1>6, <1>7, DisposisiSatu
<1>. QED
  BY <1>7, <1>10, <1>11, <1>12, <1>13, <1>14, <1>15, <1>16, PindahStep

LEMMA DaftarLanjutanStep ==
    ASSUME RangkaianInv, NEW s \in SuratMasuk, NEW status \in StatusAwal, NEW k \in SuratKeluar,
           NEW c \in Chains, DaftarLanjutan(s, status, k, c)
    PROVE  Langkah
<1>0. TypeOK /\ AnggotaTerdaftar /\ AnggotaTidakTercecer
  BY InvFakta DEF AnggotaInv
<1>1. /\ masuk[s] = "none" /\ rangkaian[c].status = "none"
      /\ masuk' = [masuk EXCEPT ![s] = status]
      /\ rangkaian' = [rangkaian EXCEPT ![c] = RangkaianBaru(s)]
      /\ anggota' = [anggota EXCEPT ![s] = c] /\ induk' = induk \cup {s}
      /\ UNCHANGED <<keluar, dihapus, relasi, disposisi, berubah>>
      /\ s \in Surat /\ s \notin SuratKeluar /\ c # NoChain
  BY SuratFakta, RangkaianAssumption DEF DaftarLanjutan
<1>2. anggota[s] = NoChain
  BY <1>0, <1>1 DEF AnggotaTerdaftar, Terdaftar
<1>3. PICK S : S = {s}
  OBVIOUS
<1>4. /\ anggota' \in [Surat -> Chains \cup {NoChain}] /\ Pindah(S, c) /\ anggota'[s] = c
      /\ S \in SUBSET Surat
  BY <1>0, <1>1, <1>3 DEF TypeOK, Pindah
<1>5. PICK q : q = RangkaianBaru(s)
  OBVIOUS
<1>6. q \in Rangkaian /\ q.status = "aktif" /\ q.manual = FALSE
  BY <1>5, RangkaianBaruFakta
<1>7. /\ rangkaian'[c] = q
      /\ \A e \in Chains : e # c => rangkaian'[e] = rangkaian[e]
      /\ rangkaian' = [e \in Chains |-> rangkaian'[e]]
  BY <1>0, <1>1, <1>5 DEF TypeOK
<1>8. PICK awal : awal = [masuk EXCEPT ![s] = status]
  OBVIOUS
<1>9. /\ awal \in [SuratMasuk -> StatusMasuk] /\ awal[s] # "none"
      /\ \A z \in SuratMasuk : awal[z] = masuk[z] \/ (masuk[z] = "none" /\ z = s)
      /\ awal = [z \in SuratMasuk |-> awal[z]]
  <2>1. status \in {"belum_dibalas", "sudah_dibalas"}
    BY RangkaianAssumption
  <2>. QED
    BY <1>0, <1>1, <1>8, <2>1 DEF TypeOK, StatusMasuk
<1>10. PICK T : T = {}
  OBVIOUS
<1>11. HitungMasuk(awal, T)
  BY <1>1, <1>8, <1>9, <1>10 DEF HitungMasuk
<1>12. s \notin Beralasan'
  <2>1. \A r \in relasi : r.ke # s
    BY <1>0, <1>2 DEF AnggotaTidakTercecer
  <2>2. \A u \in Units : disposisi[s][u].status = "none"
    BY <1>0, <1>2 DEF AnggotaTidakTercecer
  <2>. QED
    BY <1>1, <1>4, <1>6, <1>7, <2>1, <2>2 DEF Beralasan, BalasanSah
<1>13. SuratIkut(S, T, awal)
  <2>1. Bebas(s)
    BY <1>1 DEF Bebas
  <2>2. induk' \subseteq Surat
    BY <1>0, <1>1 DEF TypeOK
  <2>. QED
    BY <1>0, <1>1, <1>3, <1>4, <1>9, <1>11, <1>12, <2>1, <2>2 DEF SuratIkut, TypeOK
<1>14. RangkaianTujuan(S, c)
  BY <1>1, <1>6, <1>7 DEF RangkaianTujuan, ManualOK, SelesaiOK
<1>15. SumberDitutup(S, c)
  BY <1>2, <1>3, <1>7, RangkaianAssumption DEF SumberDitutup
<1>16. RelasiTambah(T, c)
  BY <1>0, <1>1 DEF RelasiTambah, TypeOK
<1>17. DisposisiPindahan(c)
  BY <1>1, <1>2, <1>3, <1>4, DisposisiDiam
<1>. QED
  BY <1>4, <1>7, <1>9, <1>11, <1>13, <1>14, <1>15, <1>16, <1>17, PindahStep

(***************************************************************************)
(* The invariant is inductive.                                             *)
(***************************************************************************)

LEMMA InitInv == Init => RangkaianInv
<1>. SUFFICES ASSUME Init PROVE RangkaianInv
  OBVIOUS
<1>1. TypeOK
  BY DEF Init, TypeOK, NoRangkaian, Rangkaian, NoDisposisi, Disposisi, Tenang, Berubah
<1>2. AnggotaTidakTercecer /\ AnggotaTerdaftar
  BY SuratFakta DEF Init, AnggotaTidakTercecer, AnggotaTerdaftar, NoDisposisi
<1>3. \A c \in Chains : ManualOK(c) /\ SelesaiOK(c)
  BY DEF Init, ManualOK, SelesaiOK, NoRangkaian
<1>4. \A k \in SuratKeluar : BerubahOK(k)
  BY DEF Init, BerubahOK, Tenang
<1>5. \A s \in SuratMasuk : MasukOK(s)
  BY DEF Init, MasukOK, Hidup, Terdaftar
<1>. QED
  BY <1>1, <1>2, <1>3, <1>4, <1>5 DEF RangkaianInv, AnggotaInv

LEMMA NextLangkah ==
    ASSUME RangkaianInv, Next
    PROVE  Langkah
<1>1. ASSUME NEW s \in SuratMasuk, MasukStep(s) PROVE Langkah
  BY <1>1, DaftarMasukStep, DaftarReferensiStep, DaftarLanjutanStep, UbahMasukStep DEF MasukStep
<1>2. ASSUME NEW k \in SuratKeluar, KeluarStep(k) PROVE Langkah
  <2>1. CASE BuatKeluar(k)
    BY <2>1, BuatKeluarStep
  <2>2. ASSUME NEW y \in Surat, NEW jenis \in Jenis, NEW c \in Chains, BuatTindakLanjut(k, y, jenis, c)
        PROVE  Langkah
    BY <2>2, BuatTindakLanjutStep
  <2>3. ASSUME NEW hasil \in {"draft", "approved", "dihapus"}, MulaiKeluar(k, hasil)
        PROVE  Langkah
    BY <2>3, MulaiKeluarStep
  <2>4. CASE SelesaiKeluar(k)
    BY <2>4, SelesaiKeluarStep
  <2>. QED
    BY <1>2, <2>1, <2>2, <2>3, <2>4 DEF KeluarStep
<1>3. ASSUME NEW s \in SuratMasuk, NEW u \in Units, DisposisiStep(s, u) PROVE Langkah
  BY <1>3, DistribusiStep, TerimaStep, TolakStep, ProsesStep DEF DisposisiStep
<1>4. ASSUME NEW c \in Chains, RangkaianStep(c) PROVE Langkah
  <2>1. ASSUME NEW d \in Chains, Gabung(c, d) PROVE Langkah
    BY <2>1, GabungStep
  <2>2. ASSUME NEW x \in Surat, NEW y \in Surat, NEW jenis \in Jenis, Tautan(x, y, jenis, c)
        PROVE  Langkah
    BY <2>2, TautanStep
  <2>3. ASSUME NEW r \in relasi, BatalRelasi(r, c) PROVE Langkah
    BY <2>3, BatalRelasiStep
  <2>. QED
    BY <1>4, <2>1, <2>2, <2>3, TandaiSelesaiStep, BukaKembaliStep, BerkaskanStep DEF RangkaianStep
<1>. QED
  BY <1>1, <1>2, <1>3, <1>4 DEF Next

LEMMA DiamLangkah ==
    ASSUME RangkaianInv, UNCHANGED vars
    PROVE  Langkah
<1>0. /\ AnggotaInv /\ TypeOK
      /\ \A e \in Chains : rangkaian[e] \in Rangkaian /\ ManualOK(e) /\ SelesaiOK(e)
      /\ \A z \in SuratKeluar : BerubahOK(z)
  BY InvFakta
<1>1. UNCHANGED <<rangkaian, anggota, induk, masuk, keluar, dihapus, relasi, disposisi, berubah>>
  BY DEF vars
<1>2. TypeOK'
  BY <1>0, <1>1 DEF TypeOK
<1>3. AnggotaInv' /\ BerkasTerkunciStep
  <2>1. TetapTerdaftar
    BY <1>1, MasukTetapTerdaftar
  <2>2. RangkaianMaju /\ DisposisiTetap /\ BerkasDiam
    BY <1>1 DEF RangkaianMaju, DisposisiTetap, BerkasDiam, Terbuka
  <2>. QED
    BY <1>0, <1>1, <1>2, <2>1, <2>2, AnggotaTetap
<1>4. \A e \in Chains : ManualOK(e)' /\ SelesaiOK(e)'
  BY <1>0, <1>1, AmanFakta, SelesaiTetap DEF ManualOK
<1>5. \A z \in SuratMasuk : MasukOK(z)'
  <2>1. \A z \in SuratMasuk : MasukAman(z)
    BY <1>1 DEF MasukAman, Hidup, Terdaftar, BalasanSah
  <2>. QED
    BY <1>1, <2>1, MasukDiam
<1>6. \A z \in SuratKeluar : BerubahOK(z)'
  BY <1>0, <1>1 DEF BerubahOK
<1>7. Gerak
  BY <1>1 DEF Gerak
<1>. QED
  BY <1>3, <1>4, <1>5, <1>6, <1>7 DEF Langkah, RangkaianInv

\* Members, derived statuses and running changes fit together in every
\* reachable state.
THEOREM SpecRangkaianInv == Spec => []RangkaianInv
<1>1. RangkaianInv /\ [Next]_vars => RangkaianInv'
  BY NextLangkah, DiamLangkah DEF Langkah
<1>. QED
  BY <1>1, InitInv, PTL DEF Spec

\* The variables keep their types.
THEOREM SpecTypeOK == Spec => []TypeOK
<1>1. RangkaianInv => TypeOK
  BY DEF RangkaianInv, AnggotaInv
<1>. QED
  BY <1>1, SpecRangkaianInv, PTL

\* Nobody is left in a chain that was merged away, and relations and
\* dispositions stay with their letters.
THEOREM SpecAnggotaTidakTercecer == Spec => []AnggotaTidakTercecer
<1>1. RangkaianInv => AnggotaTidakTercecer
  BY DEF RangkaianInv, AnggotaInv
<1>. QED
  BY <1>1, SpecRangkaianInv, PTL

\* A chain counts as finished only while its letters and dispositions say so,
\* and a filed chain holds no open work.
THEOREM SpecSelesaiBeralasan == Spec => []SelesaiBeralasan
<1>1. RangkaianInv => SelesaiBeralasan
  BY DEF RangkaianInv, SelesaiBeralasan, SelesaiOK
<1>. QED
  BY <1>1, SpecRangkaianInv, PTL

\* A letter with a reason to count as answered counts as answered.
THEOREM SpecBalasanTercatat == Spec => []BalasanTercatat
<1>1. RangkaianInv => BalasanTercatat
  BY DEF RangkaianInv, BalasanTercatat, MasukOK
<1>. QED
  BY <1>1, SpecRangkaianInv, PTL

\* A filed chain is closed for good.
THEOREM SpecBerkasTerkunci == Spec => BerkasTerkunci
<1>1. RangkaianInv /\ [Next]_vars => BerkasTerkunciStep
  BY NextLangkah, DiamLangkah DEF Langkah
<1>2. RangkaianInv /\ [Next]_vars => [BerkasTerkunciStep]_vars
  BY <1>1
<1>. QED
  BY <1>2, SpecRangkaianInv, PTL DEF Spec, BerkasTerkunci

(***************************************************************************)
(* Chains are case files.                                                  *)
(***************************************************************************)

\* The cases, and the filed ones, as CaseFiles sees them.
SemuaPerkara == SeRangkaian(Berangkaian)
PerkaraBerkas == SeRangkaian({x \in Surat : Diberkaskan(x)})

LEMMA PerkaraFakta ==
    ASSUME NEW k
    PROVE  /\ k \in SemuaPerkara <=>
                \E x \in Surat : anggota[x] # NoChain /\ k = Anggota(anggota[x])
           /\ k \in PerkaraBerkas <=> \E x \in Surat : Diberkaskan(x) /\ k = Anggota(anggota[x])
BY DEF SemuaPerkara, PerkaraBerkas, SeRangkaian, Berangkaian

LEMMA PerkaraFaktaBaru ==
    ASSUME NEW k
    PROVE  /\ k \in SemuaPerkara' <=>
                \E x \in Surat : anggota'[x] # NoChain /\ k = Anggota(anggota[x])'
           /\ k \in PerkaraBerkas' <=>
                \E x \in Surat : Diberkaskan(x)' /\ k = Anggota(anggota[x])'
BY DEF SemuaPerkara, PerkaraBerkas, SeRangkaian, Berangkaian

\* Filed letters stay in their chain, and no other letter becomes one.
LEMMA BerkasTetap ==
    ASSUME RangkaianInv, RangkaianInv', BerkasTerkunciStep, NEW x \in Surat,
           \A e \in Chains :
             rangkaian'[e].status = "diberkaskan" => rangkaian[e].status = "diberkaskan"
    PROVE  /\ Diberkaskan(x)' <=> Diberkaskan(x)
           /\ Diberkaskan(x) => anggota'[x] = anggota[x]
                                /\ Anggota(anggota[x])' = Anggota(anggota[x])
<1>1. /\ anggota[x] \in Chains \cup {NoChain} /\ anggota'[x] \in Chains \cup {NoChain}
  BY DEF RangkaianInv, AnggotaInv, TypeOK
<1>2. \A c \in Chains : rangkaian[c].status = "diberkaskan" =>
        /\ rangkaian'[c].status = "diberkaskan"
        /\ Anggota(c)' = Anggota(c)
        /\ anggota'[x] = c <=> anggota[x] = c
  <2>. SUFFICES ASSUME NEW c \in Chains, rangkaian[c].status = "diberkaskan"
                PROVE  /\ rangkaian'[c].status = "diberkaskan"
                       /\ Anggota(c)' = Anggota(c)
                       /\ anggota'[x] = c <=> anggota[x] = c
    OBVIOUS
  <2>1. rangkaian'[c].status = "diberkaskan" /\ Anggota(c)' = Anggota(c)
    BY DEF BerkasTerkunciStep
  <2>2. (x \in Anggota(c)' <=> anggota'[x] = c) /\ (x \in Anggota(c) <=> anggota[x] = c)
    BY DEF Anggota
  <2>. QED
    BY <2>1, <2>2
<1>3. Diberkaskan(x) => Diberkaskan(x)' /\ anggota'[x] = anggota[x]
  BY <1>1, <1>2 DEF Diberkaskan
<1>4. Diberkaskan(x)' => Diberkaskan(x)
  BY <1>1, <1>2 DEF Diberkaskan
<1>5. Diberkaskan(x) => Anggota(anggota[x])' = Anggota(anggota[x])
  <2>. SUFFICES ASSUME Diberkaskan(x) PROVE Anggota(anggota[x])' = Anggota(anggota[x])
    OBVIOUS
  <2>1. PICK c \in Chains : c = anggota[x] /\ rangkaian[c].status = "diberkaskan"
    BY <1>1 DEF Diberkaskan
  <2>2. Anggota(c)' = Anggota(c) /\ anggota'[x] = c
    BY <1>2, <2>1
  <2>. QED
    BY <2>1, <2>2 DEF Anggota
<1>. QED
  BY <1>3, <1>4, <1>5

\* The letters S come to chain c: their chains and they become one case.
LEMMA PerkaraPindah ==
    ASSUME RangkaianInv, RangkaianInv', NEW S \in SUBSET Surat, NEW c \in Chains,
           Pindah(S, c), Utuh(S, c), NEW z \in S, anggota[z] # c,
           \A x \in Surat : Diberkaskan(x) => Anggota(anggota[x])' = Anggota(anggota[x])
                                              /\ anggota'[x] = anggota[x]
    PROVE  \E K \in SUBSET (SemuaPerkara \ PerkaraBerkas),
              L \in SUBSET (Surat \ UNION SemuaPerkara) :
             /\ K # {} \/ L # {}
             /\ SemuaPerkara' = (SemuaPerkara \ K) \cup {(UNION K) \cup L}
<1>. DEFINE A == {x \in Surat : anggota[x] # NoChain /\ (x \in S \/ anggota[x] = c)}
            K == {Anggota(anggota[x]) : x \in A}
            L == {x \in S : anggota[x] = NoChain}
            baru == Anggota(c)'
<1>1. c # NoChain
  BY RangkaianAssumption
<1>2. \A x, y \in Surat : x \in Anggota(anggota[y]) <=> anggota[x] = anggota[y]
  BY DEF Anggota
<1>3. \A x \in Surat : x \in baru <=> anggota'[x] = c
  BY DEF Anggota
<1>4. baru \subseteq Surat /\ \A y \in Surat : Anggota(anggota[y]) \subseteq Surat
  BY DEF Anggota
<1>5. \A x \in Surat : anggota'[x] = IF x \in S THEN c ELSE anggota[x]
  BY DEF Pindah
<1>6. \A x \in S, y \in Surat : anggota[y] = anggota[x] => y \in S \/ anggota[x] \in {NoChain, c}
  BY DEF Utuh
<1>7. \A k : k \in K <=> \E x \in A : k = Anggota(anggota[x])
  OBVIOUS
<1>8. K \subseteq SemuaPerkara
  BY PerkaraFakta
<1>9. K \cap PerkaraBerkas = {}
  <2>. SUFFICES ASSUME NEW x \in A, NEW w \in Surat, Diberkaskan(w),
                       Anggota(anggota[x]) = Anggota(anggota[w])
                PROVE  FALSE
    BY PerkaraFakta
  <2>1. anggota[x] = anggota[w]
    BY <1>2
  <2>2. x \in Surat /\ (x \in S \/ anggota[x] = c) /\ z \in Surat
    OBVIOUS
  <2>3. Diberkaskan(x)
    BY <2>1 DEF Diberkaskan
  <2>4. anggota'[x] = anggota[x] /\ Anggota(anggota[x])' = Anggota(anggota[x])
    BY <2>2, <2>3
  <2>5. anggota[x] = c
    BY <1>5, <2>2, <2>4
  <2>6. z \in Anggota(anggota[x])'
    BY <1>3, <1>5, <2>2, <2>4, <2>5 DEF Anggota
  <2>. QED
    BY <1>2, <2>2, <2>4, <2>5, <2>6
<1>10. L \cap UNION SemuaPerkara = {}
  <2>. SUFFICES ASSUME NEW x \in L, NEW k \in SemuaPerkara, x \in k PROVE FALSE
    OBVIOUS
  <2>1. PICK y \in Surat : anggota[y] # NoChain /\ k = Anggota(anggota[y])
    BY PerkaraFakta
  <2>. QED
    BY <1>2, <2>1
<1>11. K # {} \/ L # {}
  OBVIOUS
<1>12. baru = (UNION K) \cup L
  <2>1. ASSUME NEW x \in baru PROVE x \in (UNION K) \cup L
    <3>1. x \in Surat /\ anggota'[x] = c
      BY <1>3, <1>4, <2>1
    <3>2. CASE anggota[x] = NoChain
      BY <1>1, <1>5, <3>1, <3>2
    <3>3. CASE anggota[x] # NoChain
      <4>1. x \in A
        BY <1>5, <3>1, <3>3
      <4>2. x \in Anggota(anggota[x]) /\ Anggota(anggota[x]) \in K
        BY <1>2, <3>1, <4>1
      <4>. QED
        BY <4>2
    <3>. QED
      BY <3>2, <3>3
  <2>2. ASSUME NEW y \in A, NEW x \in Anggota(anggota[y]) PROVE x \in baru
    <3>1. x \in Surat /\ y \in Surat /\ anggota[x] = anggota[y] /\ anggota[y] # NoChain
      BY <1>2, <1>4
    <3>2. x \in S \/ anggota[x] = c
      BY <1>6, <3>1
    <3>. QED
      BY <1>3, <1>5, <3>1, <3>2
  <2>3. L \subseteq baru
    BY <1>3, <1>5
  <2>. QED
    BY <2>1, <2>2, <2>3
\* A chain that is not concerned keeps its members.
<1>13. ASSUME NEW x \in Surat, x \notin S, anggota[x] # c, anggota[x] # NoChain
       PROVE  /\ anggota'[x] = anggota[x] /\ Anggota(anggota[x])' = Anggota(anggota[x])
              /\ Anggota(anggota[x]) \notin K
  <2>1. anggota'[x] = anggota[x]
    BY <1>5, <1>13
  <2>2. ASSUME NEW y \in Surat PROVE anggota'[y] = anggota[x] <=> anggota[y] = anggota[x]
    BY <1>5, <1>6, <1>13
  <2>3. Anggota(anggota[x])' = Anggota(anggota[x])
    BY <2>1, <2>2 DEF Anggota
  <2>4. ASSUME NEW w \in A, Anggota(anggota[x]) = Anggota(anggota[w]) PROVE FALSE
    <3>1. anggota[w] = anggota[x] /\ w \in Surat /\ (w \in S \/ anggota[w] = c)
      BY <1>2, <2>4
    <3>. QED
      BY <1>6, <1>13, <3>1
  <2>. QED
    BY <2>1, <2>3, <2>4
<1>14. ASSUME NEW k PROVE k \in SemuaPerkara' <=> k \in (SemuaPerkara \ K) \cup {baru}
  <2>1. ASSUME k \in SemuaPerkara' PROVE k \in (SemuaPerkara \ K) \cup {baru}
    <3>1. PICK x \in Surat : anggota'[x] # NoChain /\ k = Anggota(anggota[x])'
      BY <2>1, PerkaraFaktaBaru
    <3>2. CASE anggota'[x] = c
      BY <3>1, <3>2 DEF Anggota
    <3>3. CASE anggota'[x] # c
      <4>1. x \notin S /\ anggota[x] # c /\ anggota[x] # NoChain
        BY <1>5, <3>1, <3>3
      <4>2. k = Anggota(anggota[x]) /\ k \notin K
        BY <1>13, <3>1, <4>1
      <4>. QED
        BY <4>1, <4>2, PerkaraFakta
    <3>. QED
      BY <3>2, <3>3
  <2>2. ASSUME k = baru PROVE k \in SemuaPerkara'
    <3>1. z \in Surat /\ anggota'[z] = c /\ anggota'[z] # NoChain
      BY <1>1, <1>5
    <3>2. k = Anggota(anggota[z])'
      BY <2>2, <3>1 DEF Anggota
    <3>. QED
      BY <3>1, <3>2, PerkaraFaktaBaru
  <2>3. ASSUME k \in SemuaPerkara, k \notin K PROVE k \in SemuaPerkara'
    <3>1. PICK x \in Surat : anggota[x] # NoChain /\ k = Anggota(anggota[x])
      BY <2>3, PerkaraFakta
    <3>2. x \notin S /\ anggota[x] # c
      BY <2>3, <3>1
    <3>3. anggota'[x] # NoChain /\ k = Anggota(anggota[x])'
      BY <1>13, <3>1, <3>2
    <3>. QED
      BY <3>3, PerkaraFaktaBaru
  <2>. QED
    BY <2>1, <2>2, <2>3
<1>15. SemuaPerkara' = (SemuaPerkara \ K) \cup {(UNION K) \cup L}
  BY <1>12, <1>14
<1>16. K \in SUBSET (SemuaPerkara \ PerkaraBerkas) /\ L \in SUBSET (Surat \ UNION SemuaPerkara)
  BY <1>8, <1>9, <1>10
<1>. HIDE DEF K, L
<1>. QED
  BY <1>11, <1>15, <1>16

\* What a step does to the letters, whatever it does to cases: references
\* stay and stay within a case, and filed letters are left alone.
LEMMA KerjaStep ==
    ASSUME RangkaianInv, Langkah,
           \A e \in Chains :
             rangkaian'[e].status = "diberkaskan" => rangkaian[e].status = "diberkaskan"
    PROVE  Perkara!Work
<1>0. RangkaianInv' /\ BerkasTerkunciStep /\ Gerak
  BY DEF Langkah
<1>1. /\ TypeOK /\ TypeOK' /\ AnggotaTidakTercecer'
      /\ \A c \in Chains : SelesaiOK(c)'
  BY <1>0 DEF RangkaianInv, AnggotaInv
<1>2. \A r \in relasi' : r.dari \in Surat /\ r.ke \in Surat
  BY <1>1 DEF TypeOK, Relasi
<1>3. ASSUME NEW x \in Surat
      PROVE  {r.ke : r \in RelasiDari(x)} \subseteq {r.ke : r \in RelasiDari(x)}'
  BY <1>0 DEF Gerak, RelasiDari
<1>4. ASSUME NEW x \in Surat, NEW y \in {r.ke : r \in RelasiDari(x)}'
      PROVE  \E k \in SemuaPerkara' : x \in k /\ y \in k
  <2>1. PICK r \in relasi' : r.dari = x /\ r.ke = y
    BY DEF RelasiDari
  <2>2. anggota'[x] # NoChain /\ anggota'[x] = anggota'[y] /\ y \in Surat
    BY <1>1, <1>2, <2>1 DEF AnggotaTidakTercecer
  <2>3. x \in Anggota(anggota[x])' /\ y \in Anggota(anggota[x])'
    BY <2>2 DEF Anggota
  <2>. QED
    BY <2>2, <2>3, PerkaraFaktaBaru
<1>5. ASSUME NEW x \in UNION PerkaraBerkas
      PROVE  /\ x \in Surat
             /\ RelasiDari(x)' = RelasiDari(x)
             /\ Catatan(x)' = Catatan(x)
             /\ ~Sibuk(x)'
  <2>1. x \in Surat /\ Diberkaskan(x)
    <3>1. PICK k \in PerkaraBerkas : x \in k
      OBVIOUS
    <3>2. PICK w \in Surat : Diberkaskan(w) /\ k = Anggota(anggota[w])
      BY <3>1, PerkaraFakta
    <3>. QED
      BY <3>1, <3>2 DEF Anggota, Diberkaskan
  <2>2. Diberkaskan(x)' /\ anggota'[x] = anggota[x]
    BY <1>0, <2>1, BerkasTetap
  <2>3. PICK c \in Chains : c = anggota[x] /\ rangkaian[c].status = "diberkaskan"
                            /\ rangkaian'[c].status = "diberkaskan"
    BY <1>1, <2>1, <2>2 DEF TypeOK, Diberkaskan
  <2>4. /\ {r \in relasi' : anggota'[r.dari] = c} = {r \in relasi : anggota[r.dari] = c}
        /\ \A s \in AnggotaMasuk(c) : disposisi'[s] = disposisi[s] /\ (s \in dihapus' => s \in dihapus)
    BY <1>0, <2>3 DEF BerkasTerkunciStep
  <2>5. RelasiDari(x)' = RelasiDari(x)
    <3>1. \A r : r \in relasi' /\ r.dari = x <=> r \in relasi /\ r.dari = x
      BY <2>2, <2>3, <2>4
    <3>. QED
      BY <3>1 DEF RelasiDari
  <2>6. x \in SuratMasuk => /\ disposisi'[x] = disposisi[x]
                            /\ x \in dihapus' <=> x \in dihapus
    BY <1>0, <2>1, <2>3, <2>4 DEF AnggotaMasuk, Anggota, Gerak
  <2>7. Catatan(x)' = Catatan(x)
    <3>1. (x \in SuratMasuk \cap dihapus)' <=> x \in SuratMasuk \cap dihapus
      BY <2>6
    <3>. QED
      BY <2>5, <2>6, <3>1 DEF Catatan
  <2>8. c \notin Penghalang'
    BY <1>1, <2>3 DEF SelesaiOK
  <2>9. ~DisposisiTerbuka(c)' /\ ~AnggotaMemblokir(c)'
    BY <2>8 DEF Penghalang
  <2>10. ASSUME x \in SuratKeluar, Memblokir(x)' PROVE FALSE
    BY <2>2, <2>3, <2>9, <2>10 DEF AnggotaMemblokir
  <2>11. ASSUME x \notin SuratKeluar, x \notin dihapus', NEW u \in Units,
                disposisi'[x][u].status \in {"sent", "received"}
         PROVE  FALSE
    <3>1. x \in SuratMasuk
      BY <2>1, <2>11 DEF Surat
    <3>2. disposisi'[x][u].rangkaian = c
      BY <1>1, <2>2, <2>3, <2>11, <3>1 DEF AnggotaTidakTercecer
    <3>. QED
      BY <2>9, <2>11, <3>1, <3>2 DEF DisposisiTerbuka
  <2>12. ~Sibuk(x)'
    BY <2>10, <2>11 DEF Sibuk
  <2>. QED
    BY <2>1, <2>5, <2>7, <2>12
<1>6. ASSUME NEW x \in UNION PerkaraBerkas
      PROVE  /\ [y \in Surat |-> {r.ke : r \in RelasiDari(y)}]'[x]
                  = [y \in Surat |-> {r.ke : r \in RelasiDari(y)}][x]
             /\ [y \in Surat |-> Catatan(y)]'[x] = [y \in Surat |-> Catatan(y)][x]
             /\ x \notin {y \in Surat : Sibuk(y)}'
  BY <1>5
<1>. QED
  BY <1>3, <1>4, <1>6 DEF Perkara!Work, Perkara!Together, SemuaPerkara, PerkaraBerkas

\* Filing: the chain was an open case without open work, or had no members.
LEMMA TutupStep ==
    ASSUME RangkaianInv, Langkah, NEW c \in Chains, Berkaskan(c)
    PROVE  \/ UNCHANGED Perkara!caseVars
           \/ \E k \in SemuaPerkara \ PerkaraBerkas : Perkara!Close(k)
<1>1. TypeOK /\ c # NoChain
  BY RangkaianAssumption DEF RangkaianInv, AnggotaInv
<1>2. /\ UNCHANGED <<anggota, induk, keluar, dihapus, relasi, disposisi, berubah>>
      /\ Terbuka(rangkaian[c]) /\ c \notin Penghalang
      /\ rangkaian' = [rangkaian EXCEPT ![c].status = "diberkaskan"]
  BY DEF Berkaskan, TetapKeanggotaan, TanpaPenghalang
<1>3. /\ rangkaian'[c].status = "diberkaskan"
      /\ \A e \in Chains : e # c => rangkaian'[e] = rangkaian[e]
  BY <1>1, <1>2 DEF TypeOK, Rangkaian
<1>4. \A e : Anggota(e)' = Anggota(e)
  BY <1>2 DEF Anggota
<1>5. /\ SemuaPerkara' = SemuaPerkara
      /\ UNCHANGED [x \in Surat |-> {r.ke : r \in RelasiDari(x)}]
      /\ UNCHANGED [x \in Surat |-> Catatan(x)]
      /\ UNCHANGED {x \in Surat : Sibuk(x)}
  <2>1. SemuaPerkara' = SemuaPerkara
    BY <1>2, <1>4 DEF SemuaPerkara, SeRangkaian, Berangkaian
  <2>2. \A x \in Surat : RelasiDari(x)' = RelasiDari(x) /\ Catatan(x)' = Catatan(x)
    BY <1>2 DEF RelasiDari, Catatan
  <2>3. \A x \in Surat : Sibuk(x)' <=> Sibuk(x)
    BY <1>2 DEF Sibuk, Memblokir, RelasiDari
  <2>. QED
    BY <2>1, <2>2, <2>3
<1>6. \A x \in Surat : Diberkaskan(x)' <=> Diberkaskan(x) \/ anggota[x] = c
  BY <1>1, <1>2, <1>3, SuratFakta DEF Diberkaskan, TypeOK
<1>7. CASE \A x \in Surat : anggota[x] # c
  <2>1. \A x \in Surat : Diberkaskan(x)' <=> Diberkaskan(x)
    BY <1>6, <1>7
  <2>2. PerkaraBerkas' = PerkaraBerkas
    BY <1>2, <1>4, <2>1 DEF PerkaraBerkas, SeRangkaian
  <2>. QED
    BY <1>5, <2>2 DEF Perkara!caseVars, SemuaPerkara, PerkaraBerkas
<1>8. ASSUME NEW x \in Surat, anggota[x] = c
      PROVE  \E k \in SemuaPerkara \ PerkaraBerkas : Perkara!Close(k)
  <2>1. Anggota(c) \in SemuaPerkara
    BY <1>1, <1>8, PerkaraFakta
  <2>2. Anggota(c) \notin PerkaraBerkas
    <3>. SUFFICES ASSUME NEW w \in Surat, Diberkaskan(w), Anggota(c) = Anggota(anggota[w])
                  PROVE  FALSE
      BY PerkaraFakta
    <3>1. anggota[w] = c
      BY <1>8 DEF Anggota
    <3>. QED
      BY <1>2, <3>1 DEF Diberkaskan, Terbuka
  <2>3. Anggota(c) \cap {y \in Surat : Sibuk(y)} = {}
    <3>. SUFFICES ASSUME NEW y \in Surat, anggota[y] = c, Sibuk(y) PROVE FALSE
      BY DEF Anggota
    <3>1. CASE y \in SuratKeluar
      BY <1>2, <3>1 DEF Sibuk, Penghalang, AnggotaMemblokir
    <3>2. CASE y \notin SuratKeluar
      <4>1. PICK u \in Units : y \notin dihapus /\ disposisi[y][u].status \in {"sent", "received"}
        BY <3>2 DEF Sibuk
      <4>2. y \in SuratMasuk
        BY <3>2 DEF Surat
      <4>3. disposisi[y][u].rangkaian = c
        BY <4>1, <4>2 DEF RangkaianInv, AnggotaInv, AnggotaTidakTercecer
      <4>. QED
        BY <1>2, <4>1, <4>2, <4>3 DEF Penghalang, DisposisiTerbuka
    <3>. QED
      BY <3>1, <3>2
  <2>4. PerkaraBerkas' = PerkaraBerkas \cup {Anggota(c)}
    <3>1. ASSUME NEW k
          PROVE  k \in PerkaraBerkas' <=> k \in PerkaraBerkas \cup {Anggota(c)}
      <4>1. k \in PerkaraBerkas' <=>
              \E y \in Surat : (Diberkaskan(y) \/ anggota[y] = c) /\ k = Anggota(anggota[y])
        <5>1. \A y \in Surat : Anggota(anggota[y])' = Anggota(anggota[y])
          BY <1>2 DEF Anggota
        <5>. QED
          BY <1>6, <5>1, PerkaraFaktaBaru
      <4>. QED
        BY <1>8, <4>1, PerkaraFakta
    <3>. QED
      BY <3>1
  <2>5. Perkara!Close(Anggota(c))
    BY <1>5, <2>3, <2>4 DEF Perkara!Close, SemuaPerkara, PerkaraBerkas
  <2>. QED
    BY <2>1, <2>2, <2>5
<1>. QED
  BY <1>7, <1>8

LEMMA PerkaraStep ==
    ASSUME RangkaianInv, Langkah
    PROVE  [Perkara!CasesNext]_(Perkara!caseVars)
<1>0. RangkaianInv' /\ BerkasTerkunciStep /\ Gerak
  BY DEF Langkah
<1>1. ASSUME NEW c \in Chains, Berkaskan(c) PROVE [Perkara!CasesNext]_(Perkara!caseVars)
  BY <1>1, TutupStep DEF Perkara!CasesNext, SemuaPerkara, PerkaraBerkas
<1>2. CASE \A e \in Chains :
             rangkaian'[e].status = "diberkaskan" => rangkaian[e].status = "diberkaskan"
  <2>1. Perkara!Work
    BY <1>2, KerjaStep
  <2>2. ASSUME NEW x \in Surat
        PROVE  /\ Diberkaskan(x)' <=> Diberkaskan(x)
               /\ Diberkaskan(x) => /\ anggota'[x] = anggota[x]
                                    /\ Anggota(anggota[x])' = Anggota(anggota[x])
    BY <1>0, <1>2, BerkasTetap
  <2>3. PerkaraBerkas' = PerkaraBerkas
    <3>1. \A k : k \in PerkaraBerkas' <=> k \in PerkaraBerkas
      <4>. SUFFICES ASSUME NEW k PROVE k \in PerkaraBerkas' <=> k \in PerkaraBerkas
        OBVIOUS
      <4>1. \A x \in Surat : Diberkaskan(x) => Anggota(anggota[x])' = Anggota(anggota[x])
        BY <2>2
      <4>2. \A x \in Surat : Diberkaskan(x)' <=> Diberkaskan(x)
        BY <2>2
      <4>. QED
        BY <4>1, <4>2, PerkaraFakta, PerkaraFaktaBaru
    <3>. QED
      BY <3>1
  <2>4. CASE \A x \in Surat : anggota'[x] = anggota[x]
    <3>1. \A x \in Surat : Anggota(anggota[x])' = Anggota(anggota[x])
      BY <2>4 DEF Anggota
    <3>2. \A k : k \in SemuaPerkara' <=> k \in SemuaPerkara
      BY <2>4, <3>1, PerkaraFakta, PerkaraFaktaBaru
    <3>3. SemuaPerkara' = SemuaPerkara
      BY <3>2
    <3>. QED
      BY <2>1, <2>3, <3>3 DEF Perkara!CasesNext, SemuaPerkara, PerkaraBerkas
  <2>5. ASSUME NEW S \in SUBSET Surat, NEW c \in Chains, Pindah(S, c), Utuh(S, c),
               NEW z \in S, anggota[z] # c
        PROVE  [Perkara!CasesNext]_(Perkara!caseVars)
    <3>1. PICK K \in SUBSET (SemuaPerkara \ PerkaraBerkas),
               L \in SUBSET (Surat \ UNION SemuaPerkara) :
             /\ K # {} \/ L # {}
             /\ SemuaPerkara' = (SemuaPerkara \ K) \cup {(UNION K) \cup L}
      BY <1>0, <2>2, <2>5, PerkaraPindah
    <3>2. Perkara!Gather(K, L)
      BY <2>3, <3>1 DEF Perkara!Gather, SemuaPerkara, PerkaraBerkas
    <3>. QED
      BY <2>1, <3>1, <3>2 DEF Perkara!CasesNext, Perkara!Loose, SemuaPerkara, PerkaraBerkas
  <2>6. CASE UNCHANGED anggota
    BY <2>4, <2>6
  <2>7. ASSUME NEW S \in SUBSET Surat, NEW c \in Chains, Pindah(S, c), Utuh(S, c)
        PROVE  [Perkara!CasesNext]_(Perkara!caseVars)
    <3>1. CASE \A z \in S : anggota[z] = c
      <4>1. \A x \in Surat : anggota'[x] = anggota[x]
        BY <2>7, <3>1 DEF Pindah
      <4>. QED
        BY <2>4, <4>1
    <3>. QED
      BY <2>5, <2>7, <3>1
  <2>. QED
    BY <1>0, <2>6, <2>7 DEF Gerak
<1>. QED
  BY <1>0, <1>1, <1>2 DEF Gerak

LEMMA InitPerkara == Init => Perkara!CasesInit
<1>. SUFFICES ASSUME Init PROVE Perkara!CasesInit
  OBVIOUS
<1>1. SemuaPerkara = {} /\ PerkaraBerkas = {}
  BY DEF Init, SemuaPerkara, PerkaraBerkas, SeRangkaian, Berangkaian, Diberkaskan
<1>2. \A x \in Surat : RelasiDari(x) = {} /\ {r.ke : r \in RelasiDari(x)} = {}
  BY DEF Init, RelasiDari
<1>3. ASSUME NEW x \in Surat PROVE Catatan(x) = CatatanKosong[x]
  <2>1. (x \in SuratMasuk \cap dihapus) = FALSE
    BY DEF Init
  <2>2. x \in SuratMasuk => disposisi[x] = [u \in Units |-> NoDisposisi]
    BY DEF Init
  <2>. QED
    BY <1>2, <2>1, <2>2 DEF Catatan, CatatanKosong
<1>4. ASSUME NEW x \in Surat PROVE ~Sibuk(x)
  <2>1. x \in SuratKeluar \/ x \in SuratMasuk
    BY DEF Surat
  <2>. QED
    BY <2>1 DEF Init, Sibuk, Memblokir, NoDisposisi
<1>5. [x \in Surat |-> Catatan(x)] = CatatanKosong
  BY <1>3 DEF CatatanKosong
<1>6. {x \in Surat : Sibuk(x)} = {}
  BY <1>4
<1>7. [x \in Surat |-> {r.ke : r \in RelasiDari(x)}] = [x \in Surat |-> {}]
  BY <1>2
<1>. QED
  BY <1>1, <1>5, <1>6, <1>7 DEF Perkara!CasesInit, SemuaPerkara, PerkaraBerkas

\* Chains are case files: what is once together stays together, references
\* join letters of one case, and a filed case is done and never changes.
THEOREM SpecImplementsCases == Spec => ImplementsCases
<1>1. RangkaianInv /\ [Next]_vars => [Perkara!CasesNext]_(Perkara!caseVars)
  BY NextLangkah, DiamLangkah, PerkaraStep
<1>. QED
  BY <1>1, InitPerkara, SpecRangkaianInv, PTL
  DEF Spec, ImplementsCases, Perkara!CasesSpec

=============================================================================
