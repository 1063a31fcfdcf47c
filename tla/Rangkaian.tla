----------------------------- MODULE Rangkaian -----------------------------
(***************************************************************************)
(* Case chains.  A chain (rangkaian) gathers the incoming letters, the     *)
(* outgoing letters that answer them, the relations between them and the   *)
(* dispositions they are handed out with.  The status of a chain and of an *)
(* incoming letter is derived: every operation recomputes the ones it      *)
(* believes it has touched.                                                *)
(* Operations lock letters, then chains, then dispositions, read again     *)
(* what they had read before the locks and start over when it has changed: *)
(* each is one step.  The one that does not read again is the recompute    *)
(* after a change of an outgoing letter, which takes two (MulaiKeluar,     *)
(* SelesaiKeluar).                                                         *)
(* Source: services/rangkaian.service.ts, rangkaian-status.ts,             *)
(* distribution.service.ts and services/rangkaian/*.ts                     *)
(***************************************************************************)
EXTENDS Naturals, FiniteSets

CONSTANTS
    SuratMasuk,     \* incoming letters
    SuratKeluar,    \* outgoing letters
    Chains,         \* rangkaian_surat rows
    Units,          \* units that receive dispositions
    NoChain,        \* a letter without a chain
    Target,         \* SuratMasuk -> the units a letter can be distributed to
    Tautkan,        \* the relations users make, as <<from, to, kind>>
    StatusAwal,     \* the statuses an incoming letter is registered with
    MaxRelasi       \* bound on the relations

Surat == SuratMasuk \cup SuratKeluar

ASSUME RangkaianAssumption ==
    /\ SuratMasuk \cap SuratKeluar = {}
    /\ NoChain \notin Chains
    /\ Target \in [SuratMasuk -> SUBSET Units]
    /\ Tautkan \subseteq Surat \X Surat \X {"balasan", "merujuk"}
    /\ StatusAwal \subseteq {"belum_dibalas", "sudah_dibalas"}
    /\ MaxRelasi \in Nat

VARIABLES
    rangkaian,      \* Chains -> the rangkaian_surat row
    anggota,        \* Surat -> the chain it is a member of
    induk,          \* the members with peran = 'induk'
    masuk,          \* SuratMasuk -> surat_masuk.status
    keluar,         \* SuratKeluar -> surat_keluar.approval_status
    dihapus,        \* letters that are soft-deleted
    relasi,         \* rangkaian_relasi rows
    disposisi,      \* SuratMasuk -> Units -> the latest surat_distributions row
    berubah         \* SuratKeluar -> what a transaction changing it has read

vars == <<rangkaian, anggota, induk, masuk, keluar, dihapus, relasi, disposisi, berubah>>

\* "draft" stands for draft, pending and rejected: the statuses that block.
Rangkaian == [status : {"none", "aktif", "selesai", "diberkaskan", "digabung"},
              asal : {"surat_masuk", "inisiatif"}, manual : BOOLEAN]
\* "balasan" stands for balasan and tindak_lanjut, "merujuk" for the others.
Relasi == [dari : Surat, ke : Surat, jenis : {"balasan", "merujuk"}, batal : BOOLEAN]
\* bukti: processed by its unit, with a letter or a note, and not closed by
\* the supervisor.
Disposisi == [status : {"none", "sent", "received", "processed", "rejected"},
              rangkaian : Chains \cup {NoChain}, bukti : BOOLEAN]
Berubah == [hasil : {"none", "draft", "approved", "dihapus"},
            rangkaian : Chains \cup {NoChain}]

NoRangkaian == [status |-> "none", asal |-> "surat_masuk", manual |-> FALSE]
NoDisposisi == [status |-> "none", rangkaian |-> NoChain, bukti |-> FALSE]
Tenang == [hasil |-> "none", rangkaian |-> NoChain]

Init ==
    /\ rangkaian = [c \in Chains |-> NoRangkaian]
    /\ anggota = [x \in Surat |-> NoChain]
    /\ induk = {}
    /\ masuk = [s \in SuratMasuk |-> "none"]
    /\ keluar = [k \in SuratKeluar |-> "none"]
    /\ dihapus = {}
    /\ relasi = {}
    /\ disposisi = [s \in SuratMasuk |-> [u \in Units |-> NoDisposisi]]
    /\ berubah = [k \in SuratKeluar |-> Tenang]

(***************************************************************************)
(* Facts and the statuses derived from them.                               *)
(***************************************************************************)

Terdaftar(x) == IF x \in SuratMasuk THEN masuk[x] # "none" ELSE keluar[x] # "none"
Hidup(x) == Terdaftar(x) /\ x \notin dihapus

\* isRangkaianTerbuka
Terbuka(r) == r.status \in {"aktif", "selesai"}

Anggota(c) == {x \in Surat : anggota[x] = c}
AnggotaMasuk(c) == Anggota(c) \cap SuratMasuk
\* The same as an operation leaves them.
AnggotaMasukBaru(c) == {s \in SuratMasuk : anggota'[s] = c}

RelasiDari(x) == {r \in relasi : r.dari = x}

\* anggotaMemblokirSql: a live outgoing letter that is not approved, unless
\* it has relations and all of them are cancelled.
Memblokir(k) ==
    /\ k \notin dihapus
    /\ keluar[k] = "draft"
    /\ RelasiDari(k) # {} => \E r \in RelasiDari(k) : ~r.batal

DisposisiTerbuka(c) ==
    \E s \in SuratMasuk \ dihapus, u \in Units :
      /\ disposisi[s][u].rangkaian = c
      /\ disposisi[s][u].status \in {"sent", "received"}

AnggotaMemblokir(c) == \E k \in SuratKeluar : anggota[k] = c /\ Memblokir(k)

\* Active answers and follow-ups by approved live letters.
BalasanSah == {r \in relasi : /\ ~r.batal
                              /\ r.jenis = "balasan"
                              /\ r.dari \in SuratKeluar \ dihapus
                              /\ keluar[r.dari] = "approved"}

DisposisiSelesai(c, s) ==
    \E u \in Units : /\ disposisi[s][u].rangkaian = c
                     /\ disposisi[s][u].status = "processed"

\* The chains with open work: an open disposition or a blocking member.
Penghalang == {c \in Chains : DisposisiTerbuka(c) \/ AnggotaMemblokir(c)}

\* The chains with a live incoming letter nobody has handled.
BelumDitangani ==
    {c \in Chains : \E s \in AnggotaMasuk(c) \ dihapus :
       ~DisposisiSelesai(c, s) /\ \A r \in BalasanSah : r.ke # s}

\* The chains with handled work: a processed disposition or an answer.
Tertangani ==
    {c \in Chains : \/ \E s \in SuratMasuk \ dihapus : DisposisiSelesai(c, s)
                    \/ \E r \in BalasanSah : anggota[r.dari] = c}

\* Mutant: the status a letter is shown with is stored in the chain.
StatusAlur(r, penghalang, menunggu, tertangani) ==
    IF Terbuka(r) /\ tertangani THEN "ditindaklanjuti" ELSE r.status

\* deriveRangkaianStatus
StatusTurunan(r, penghalang, menunggu, tertangani) ==
    CASE ~Terbuka(r) -> r.status
      [] Terbuka(r) /\ penghalang -> "aktif"
      [] Terbuka(r) /\ ~penghalang /\ r.manual -> "selesai"
      [] Terbuka(r) /\ ~penghalang /\ ~r.manual ->
           IF ~menunggu /\ (tertangani \/ r.asal = "inisiatif") THEN "selesai" ELSE "aktif"

\* recomputeStatus of c: its row after a recompute from row r, over the facts
\* as the operation leaves them.  Reopening clears selesai_manual.
Dihitung(r, c) ==
    LET status == StatusTurunan(r, c \in Penghalang', c \in BelumDitangani', c \in Tertangani')
    IN  IF status = r.status THEN r
        ELSE [r EXCEPT !.status = status, !.manual = @ /\ status = "selesai"]

\* bukaKembaliOtomatis
DibukaKembali(r) ==
    IF r.status = "selesai" THEN [r EXCEPT !.status = "aktif", !.manual = FALSE] ELSE r

\* The incoming letters with a reason to count as answered, in
\* recomputeSuratMasukStatus: an answer, a settled disposition, or a chain
\* that was declared finished.
Beralasan ==
    {s \in SuratMasuk :
       \/ \E r \in BalasanSah : r.ke = s
       \/ \E u \in Units : disposisi[s][u].status = "processed" /\ disposisi[s][u].bukti
       \/ anggota[s] # NoChain /\ rangkaian[anggota[s]].manual}

\* The incoming letters the chains know anything about; the status of the
\* others is whatever it was registered with.
Berbukti ==
    {s \in SuratMasuk :
       /\ anggota[s] # NoChain
       /\ \/ \E r \in relasi : s \in {r.dari, r.ke}
          \/ \E t \in SuratMasuk : DisposisiSelesai(anggota[s], t)}

\* deriveSuratMasukStatus of a letter whose status was status, over the
\* state the operation leaves.
StatusMasukTurunan(s, status) ==
    IF s \in Beralasan' THEN "sudah_dibalas"
    ELSE IF s \in Berbukti' THEN "belum_dibalas" ELSE status

\* recomputeSuratMasukStatus of the letters S, deleted ones skipped.
HitungMasuk(awal, S) ==
    masuk' = [s \in SuratMasuk |->
                IF s \in S \ dihapus' THEN StatusMasukTurunan(s, awal[s]) ELSE awal[s]]

HitungRangkaian(c) == rangkaian' = [rangkaian EXCEPT ![c] = Dihitung(@, c)]

(***************************************************************************)
(* Chains: membership, relations, merging.                                 *)
(***************************************************************************)

\* The rows of an outgoing letter that is being changed are locked; the ones
\* of the incoming letters are locked within one step only.
TidakTerkunci(x) == x \in SuratKeluar => berubah[x] = Tenang

RangkaianBaru(x) ==
    [status |-> "aktif", manual |-> FALSE,
     asal |-> IF x \in SuratMasuk THEN "surat_masuk" ELSE "inisiatif"]

\* ensureForSurat: c is the chain of x, or the row of the one made for it.
Dipastikan(x, c) ==
    /\ Hidup(x)
    /\ TidakTerkunci(x)
    /\ anggota[x] = c \/ (anggota[x] = NoChain /\ rangkaian[c].status = "none")
RangkaianPasti(x, c) ==
    IF anggota[x] = c THEN rangkaian ELSE [rangkaian EXCEPT ![c] = RangkaianBaru(x)]
AnggotaPasti(x, c) == [anggota EXCEPT ![x] = c]
IndukPasti(x, c) == IF anggota[x] = c THEN induk ELSE induk \cup {x}

\* Mutant: a merge leaves the dispositions with the source.
DisposisiTinggal(d, c) == disposisi

\* Dispositions follow the members from d to c.
DisposisiPindah(d, c) ==
    [s \in SuratMasuk |-> [u \in Units |->
       IF disposisi[s][u].rangkaian = d THEN [disposisi[s][u] EXCEPT !.rangkaian = c]
       ELSE disposisi[s][u]]]

\* Mutant: the source of a merge is not looked at.
TujuanTerbuka(c, d) == c # d /\ Terbuka(rangkaian[c])

DapatDigabung(c, d) == c # d /\ Terbuka(rangkaian[c]) /\ Terbuka(rangkaian[d])

\* The target of a merge or of a new member: reopened, then recomputed.
TargetBaru(r, c) == Dihitung(DibukaKembali(r), c)

\* gabung by a supervisor, under the locks of all incoming members and both
\* chains; the relations of the members follow them.
Gabung(c, d) ==
    /\ DapatDigabung(c, d)
    /\ anggota' = [x \in Surat |-> IF anggota[x] = d THEN c ELSE anggota[x]]
    /\ induk' = induk \ Anggota(d)
    /\ disposisi' = DisposisiPindah(d, c)
    /\ UNCHANGED <<keluar, dihapus, relasi, berubah>>
    /\ rangkaian' = [rangkaian EXCEPT ![c] = TargetBaru(@, c), ![d].status = "digabung"]
    /\ HitungMasuk(masuk, AnggotaMasukBaru(c))

RelasiBaru(x, y, jenis) == [dari |-> x, ke |-> y, jenis |-> jenis, batal |-> FALSE]

\* attach of x to the member y of c: a letter of another chain comes along
\* only as the one member of that chain, which is merged.
DapatTertaut(x, y, jenis, c) ==
    /\ x # y
    /\ <<x, y, jenis>> \in Tautkan
    /\ Terbuka(RangkaianPasti(y, c)[c])
    /\ anggota[x] \notin {NoChain, c} =>
         x \in induk /\ Anggota(anggota[x]) = {x} /\ Terbuka(rangkaian[anggota[x]])
    /\ RelasiBaru(x, y, jenis) \notin relasi
    /\ Cardinality(relasi) < MaxRelasi

Tertaut(x, y, jenis, c) ==
    /\ DapatTertaut(x, y, jenis, c)
    /\ anggota' = [AnggotaPasti(y, c) EXCEPT ![x] = c]
    /\ relasi' = relasi \cup {RelasiBaru(x, y, jenis)}

\* The incoming letters a new relation recomputes: all members when x brought
\* its chain or came as a new member of a finished one, else the two ends.
Terdampak(x, y, c) ==
    IF \/ anggota[x] \notin {NoChain, c}
       \/ anggota[x] = NoChain /\ RangkaianPasti(y, c)[c].status = "selesai"
    THEN AnggotaMasukBaru(c)
    ELSE {x, y} \cap SuratMasuk

\* tautan, to a member of c that may be deleted, and tautanKeSurat, under the
\* locks of both letters, of their chains and of all incoming members.
Tautan(x, y, jenis, c) ==
    LET awal == RangkaianPasti(y, c)
        d == anggota[x]
    IN  /\ Hidup(x)
        /\ TidakTerkunci(x)
        /\ Dipastikan(y, c) \/ (anggota[y] = c /\ TidakTerkunci(y))
        /\ Tertaut(x, y, jenis, c)
        /\ induk' = IF d \in {NoChain, c} THEN IndukPasti(y, c) ELSE IndukPasti(y, c) \ {x}
        /\ disposisi' = IF d \in {NoChain, c} THEN disposisi ELSE DisposisiPindah(d, c)
        /\ UNCHANGED <<keluar, dihapus, berubah>>
        /\ rangkaian' =
             [e \in Chains |->
                CASE e = c -> IF d = c THEN Dihitung(awal[c], c) ELSE TargetBaru(awal[c], c)
                  [] e # c /\ e = d -> [awal[d] EXCEPT !.status = "digabung"]
                  [] OTHER -> awal[e]]
        /\ HitungMasuk(masuk, Terdampak(x, y, c))

\* Mutant: a cancelled relation leaves its chain as it is.
TanpaHitung(c) == UNCHANGED rangkaian

SetelahBatal(c) == HitungRangkaian(c)

\* batalRelasi
BatalRelasi(r, c) ==
    /\ ~r.batal
    /\ TidakTerkunci(r.dari) /\ TidakTerkunci(r.ke)
    /\ anggota[r.dari] = c
    /\ rangkaian[c].status # "diberkaskan"
    /\ relasi' = (relasi \ {r}) \cup {[r EXCEPT !.batal = TRUE]}
    /\ UNCHANGED <<anggota, induk, keluar, dihapus, disposisi, berubah>>
    /\ SetelahBatal(c)
    /\ HitungMasuk(masuk, {r.dari, r.ke} \cap SuratMasuk)

(***************************************************************************)
(* Finishing and filing, under the locks of berkasService.kunci.           *)
(***************************************************************************)

\* hitungPenghalang
TanpaPenghalang(c) == c \notin Penghalang

TetapKeanggotaan == UNCHANGED <<anggota, induk, keluar, dihapus, relasi, disposisi, berubah>>

TandaiSelesai(c) ==
    /\ rangkaian[c].status = "aktif"
    /\ TanpaPenghalang(c)
    /\ TetapKeanggotaan
    /\ rangkaian' = [rangkaian EXCEPT ![c].status = "selesai", ![c].manual = TRUE]
    /\ HitungMasuk(masuk, AnggotaMasuk(c))

BukaKembali(c) ==
    /\ rangkaian[c].status = "selesai"
    /\ rangkaian[c].manual
    /\ TetapKeanggotaan
    /\ rangkaian' = [rangkaian EXCEPT ![c].status = "aktif", ![c].manual = FALSE]
    /\ HitungMasuk(masuk, AnggotaMasuk(c))

Berkaskan(c) ==
    /\ Terbuka(rangkaian[c])
    /\ TanpaPenghalang(c)
    /\ TetapKeanggotaan
    /\ rangkaian' = [rangkaian EXCEPT ![c].status = "diberkaskan"]
    /\ UNCHANGED masuk

(***************************************************************************)
(* Incoming letters.                                                       *)
(***************************************************************************)

\* create without routing; routing adds Distribusi in the same transaction.
DaftarMasuk(s, status) ==
    /\ masuk[s] = "none"
    /\ masuk' = [masuk EXCEPT ![s] = status]
    /\ UNCHANGED <<rangkaian, anggota, induk, keluar, dihapus, relasi, disposisi, berubah>>

\* create with a reference to our letter k: langkahReferensi, chain open.
DaftarReferensi(s, status, k, c) ==
    /\ masuk[s] = "none"
    /\ Dipastikan(k, c)
    /\ Tertaut(s, k, "merujuk", c)
    /\ induk' = IndukPasti(k, c)
    /\ UNCHANGED <<keluar, dihapus, disposisi, berubah>>
    /\ rangkaian' = [RangkaianPasti(k, c) EXCEPT ![c] = TargetBaru(@, c)]
    /\ HitungMasuk([masuk EXCEPT ![s] = status], Terdampak(s, k, c))

\* The same with the chain of k filed: a chain of its own.
DaftarLanjutan(s, status, k, c) ==
    /\ masuk[s] = "none"
    /\ Hidup(k) /\ TidakTerkunci(k)
    /\ anggota[k] # NoChain /\ rangkaian[anggota[k]].status = "diberkaskan"
    /\ rangkaian[c].status = "none"
    /\ masuk' = [masuk EXCEPT ![s] = status]
    /\ rangkaian' = [rangkaian EXCEPT ![c] = RangkaianBaru(s)]
    /\ anggota' = [anggota EXCEPT ![s] = c]
    /\ induk' = induk \cup {s}
    /\ UNCHANGED <<keluar, dihapus, relasi, disposisi, berubah>>

\* guardSuratMasukMutation: the letters of a filed chain are closed.
TidakDiberkaskan(x) ==
    anggota[x] # NoChain => rangkaian[anggota[x]].status # "diberkaskan"

HitungRangkaianSurat(x) ==
    rangkaian' = [c \in Chains |->
                    IF c = anggota[x] THEN Dihitung(rangkaian[c], c) ELSE rangkaian[c]]

\* update of a guarded field, and delete.
UbahMasuk(s, hapus) ==
    /\ Hidup(s)
    /\ TidakDiberkaskan(s)
    /\ dihapus' = IF hapus THEN dihapus \cup {s} ELSE dihapus
    /\ UNCHANGED <<anggota, induk, masuk, keluar, relasi, disposisi, berubah>>
    /\ HitungRangkaianSurat(s)

(***************************************************************************)
(* Outgoing letters.                                                       *)
(***************************************************************************)

\* create on one's own initiative.
BuatKeluar(k) ==
    /\ keluar[k] = "none"
    /\ keluar' = [keluar EXCEPT ![k] = "draft"]
    /\ UNCHANGED <<rangkaian, anggota, induk, masuk, dihapus, relasi, disposisi, berubah>>

\* The dispositions of c before and after its unit has received one of them.
DiterimaSalahSatu(c) ==
    {disposisi} \cup
    {[disposisi EXCEPT ![p[1]][p[2]].status = "received"] :
       p \in {q \in SuratMasuk \X Units : /\ disposisi[q[1]][q[2]].status = "sent"
                                          /\ disposisi[q[1]][q[2]].rangkaian = c}}

\* create as a follow-up of y: langkahAttach.
BuatTindakLanjut(k, y, jenis, c) ==
    /\ keluar[k] = "none"
    /\ Dipastikan(y, c)
    /\ Tertaut(k, y, jenis, c)
    /\ induk' = IndukPasti(y, c)
    /\ keluar' = [keluar EXCEPT ![k] = "draft"]
    /\ disposisi' \in DiterimaSalahSatu(c)
    /\ UNCHANGED <<dihapus, berubah>>
    /\ rangkaian' = [RangkaianPasti(y, c) EXCEPT ![c] = TargetBaru(@, c)]
    /\ HitungMasuk(masuk, Terdampak(k, y, c))

\* Approval, rejection, update or delete of a draft: its row is locked, then
\* recomputeForSuratKeluar reads its chain.
MulaiKeluar(k, hasil) ==
    /\ keluar[k] = "draft"
    /\ Hidup(k)
    /\ TidakTerkunci(k)
    /\ berubah' = [berubah EXCEPT ![k] = [hasil |-> hasil, rangkaian |-> anggota[k]]]
    /\ UNCHANGED <<rangkaian, anggota, induk, masuk, keluar, dihapus, relasi, disposisi>>

\* Mutant: the incoming letters the letter answers are not recomputed.
TanpaTujuan(k) == {}

\* The incoming letters the relations of k point to.
Tujuan(k) == {r.ke : r \in RelasiDari(k)} \cap SuratMasuk

\* It locks those letters and the chain it has read, recomputes and commits.
SelesaiKeluar(k) ==
    LET hasil == berubah[k].hasil
        baca == berubah[k].rangkaian
    IN  /\ hasil # "none"
        /\ keluar' = IF hasil = "approved" THEN [keluar EXCEPT ![k] = hasil] ELSE keluar
        /\ dihapus' = IF hasil = "dihapus" THEN dihapus \cup {k} ELSE dihapus
        /\ berubah' = [berubah EXCEPT ![k] = Tenang]
        /\ UNCHANGED <<anggota, induk, relasi, disposisi>>
        /\ rangkaian' = [c \in Chains |->
                           IF c = baca THEN Dihitung(rangkaian[c], c) ELSE rangkaian[c]]
        /\ HitungMasuk(masuk, IF baca = NoChain THEN {} ELSE Tujuan(k))

(***************************************************************************)
(* Dispositions.                                                           *)
(***************************************************************************)

\* langkahDistribusi
Distribusi(s, u, c) ==
    /\ u \in Target[s]
    /\ Dipastikan(s, c)
    /\ Terbuka(RangkaianPasti(s, c)[c])
    /\ disposisi[s][u].status \in {"none", "rejected"}
    /\ disposisi' = [disposisi EXCEPT ![s][u] =
         [status |-> "sent", rangkaian |-> c, bukti |-> FALSE]]
    /\ anggota' = AnggotaPasti(s, c)
    /\ induk' = IndukPasti(s, c)
    /\ UNCHANGED <<keluar, dihapus, relasi, berubah>>
    /\ rangkaian' = [RangkaianPasti(s, c) EXCEPT ![c] = Dihitung(@, c)]
    /\ HitungMasuk(masuk, IF rangkaian[c].status = "selesai" THEN AnggotaMasuk(c) ELSE {s})

\* kunciDisposisi: the chain of the disposition is not filed.
DapatDiubah(s, u) ==
    disposisi[s][u].rangkaian # NoChain =>
      rangkaian[disposisi[s][u].rangkaian].status # "diberkaskan"

Terbitkan(s, u, status, bukti) ==
    /\ DapatDiubah(s, u)
    /\ disposisi' = [disposisi EXCEPT ![s][u].status = status, ![s][u].bukti = bukti]
    /\ UNCHANGED <<anggota, induk, keluar, dihapus, relasi, berubah>>

HitungRangkaianDisposisi(s, u) ==
    rangkaian' = [c \in Chains |->
       IF c = disposisi[s][u].rangkaian THEN Dihitung(rangkaian[c], c) ELSE rangkaian[c]]

\* receive
Terima(s, u) ==
    /\ disposisi[s][u].status = "sent"
    /\ Terbitkan(s, u, "received", FALSE)
    /\ UNCHANGED <<rangkaian, masuk>>

\* process by the unit (bukti), with a letter or a note, and
\* tutupOlehPengawas (~bukti), which a deleted letter does not stop.
Proses(s, u, bukti) ==
    /\ disposisi[s][u].status \in {"sent", "received"}
    /\ bukti => Hidup(s)
    /\ Terbitkan(s, u, "processed", bukti)
    /\ HitungRangkaianDisposisi(s, u)
    /\ HitungMasuk(masuk, {s})

\* reject
Tolak(s, u) ==
    /\ disposisi[s][u].status \in {"sent", "received"}
    /\ Terbitkan(s, u, "rejected", FALSE)
    /\ HitungRangkaianDisposisi(s, u)
    /\ UNCHANGED masuk

Jenis == {"balasan", "merujuk"}

MasukStep(s) ==
    \/ \E status \in StatusAwal : DaftarMasuk(s, status)
    \/ \E status \in StatusAwal, k \in SuratKeluar, c \in Chains :
         DaftarReferensi(s, status, k, c) \/ DaftarLanjutan(s, status, k, c)
    \/ \E hapus \in BOOLEAN : UbahMasuk(s, hapus)

KeluarStep(k) ==
    \/ BuatKeluar(k)
    \/ \E y \in Surat, jenis \in Jenis, c \in Chains : BuatTindakLanjut(k, y, jenis, c)
    \/ \E hasil \in {"draft", "approved", "dihapus"} : MulaiKeluar(k, hasil)
    \/ SelesaiKeluar(k)

DisposisiStep(s, u) ==
    \/ \E c \in Chains : Distribusi(s, u, c)
    \/ Terima(s, u) \/ Tolak(s, u)
    \/ \E bukti \in BOOLEAN : Proses(s, u, bukti)

RangkaianStep(c) ==
    \/ \E d \in Chains : Gabung(c, d)
    \/ \E x \in Surat, y \in Surat, jenis \in Jenis : Tautan(x, y, jenis, c)
    \/ \E r \in relasi : BatalRelasi(r, c)
    \/ TandaiSelesai(c) \/ BukaKembali(c) \/ Berkaskan(c)

Next ==
    \/ \E s \in SuratMasuk : MasukStep(s)
    \/ \E k \in SuratKeluar : KeluarStep(k)
    \/ \E s \in SuratMasuk, u \in Units : DisposisiStep(s, u)
    \/ \E c \in Chains : RangkaianStep(c)

Spec == Init /\ [][Next]_vars

-----------------------------------------------------------------------------

\* Types of the variables.
TypeOK ==
    /\ rangkaian \in [Chains -> Rangkaian]
    /\ anggota \in [Surat -> Chains \cup {NoChain}]
    /\ induk \subseteq Surat
    /\ masuk \in [SuratMasuk -> {"none", "belum_dibalas", "sudah_dibalas"}]
    /\ keluar \in [SuratKeluar -> {"none", "draft", "approved"}]
    /\ dihapus \subseteq Surat
    /\ relasi \subseteq Relasi
    /\ disposisi \in [SuratMasuk -> [Units -> Disposisi]]
    /\ berubah \in [SuratKeluar -> Berubah]

\* A chain counts as finished only while the letters, relations and
\* dispositions say so: no operation on any of them, in any order and next to
\* the two-step recompute of an outgoing letter, leaves a chain finished that
\* has become open work; and a filed chain holds no open work.
SelesaiBeralasan ==
    \A c \in Chains :
      /\ rangkaian[c].status = "selesai" =>
           StatusTurunan(rangkaian[c], c \in Penghalang, c \in BelumDitangani,
                         c \in Tertangani) = "selesai"
      /\ rangkaian[c].status = "diberkaskan" => c \notin Penghalang

\* A letter that was answered, settled or declared finished counts as
\* answered, wherever merges have moved it and whoever recomputed last.
BalasanTercatat ==
    \A s \in SuratMasuk :
      Hidup(s) /\ s \in Beralasan => masuk[s] = "sudah_dibalas"

\* Merging loses nothing: nobody is left in a chain that was merged away,
\* the two ends of a relation are in one chain, and a disposition is in the
\* chain of its letter.
AnggotaTidakTercecer ==
    /\ \A x \in Surat : anggota[x] # NoChain =>
         rangkaian[anggota[x]].status \in {"aktif", "selesai", "diberkaskan"}
    /\ \A r \in relasi : anggota[r.dari] # NoChain /\ anggota[r.dari] = anggota[r.ke]
    /\ \A s \in SuratMasuk, u \in Units :
         IF disposisi[s][u].status = "none" THEN disposisi[s][u].rangkaian = NoChain
         ELSE disposisi[s][u].rangkaian = anggota[s] /\ anggota[s] # NoChain

\* Once filed a chain is closed for good: its status, members, relations and
\* dispositions stay, no incoming letter of it is deleted, and a merged chain
\* stays so.  (An outgoing draft all of whose relations are cancelled does not
\* keep a chain from being filed, and may be deleted afterwards.)
BerkasTerkunciStep ==
    \A c \in Chains :
      /\ rangkaian[c].status \in {"diberkaskan", "digabung"} =>
           /\ rangkaian'[c].status = rangkaian[c].status
           /\ Anggota(c)' = Anggota(c)
      /\ rangkaian[c].status = "diberkaskan" =>
           /\ {r \in relasi' : anggota'[r.dari] = c} = {r \in relasi : anggota[r.dari] = c}
           /\ \A s \in AnggotaMasuk(c) : /\ disposisi'[s] = disposisi[s]
                                         /\ s \in dihapus' => s \in dihapus
BerkasTerkunci == [][BerkasTerkunciStep]_vars

\* What the code says of a chain that is reopened: the mark of its manual
\* completion is gone, and every incoming letter of it is recomputed.
DibukaMenyeluruhStep ==
    \A c \in Chains :
      rangkaian[c].manual /\ rangkaian'[c].status = "aktif" =>
        \A s \in AnggotaMasuk(c)' \ dihapus' : masuk'[s] = StatusMasukTurunan(s, masuk[s])
DibukaMenyeluruh == [][DibukaMenyeluruhStep]_vars

\* A letter with work to be done before its chain can be filed.
Sibuk(x) ==
    IF x \in SuratKeluar THEN Memblokir(x)
    ELSE x \notin dihapus /\ \E u \in Units : disposisi[x][u].status \in {"sent", "received"}

\* What is on record about a letter: its relations, its dispositions, and
\* whether an incoming one was deleted.
Catatan(x) ==
    [relasi |-> RelasiDari(x),
     disposisi |-> IF x \in SuratMasuk THEN disposisi[x] ELSE <<>>,
     dihapus |-> x \in SuratMasuk \cap dihapus]
CatatanKosong ==
    [x \in Surat |->
       [relasi |-> {},
        disposisi |-> IF x \in SuratMasuk THEN [u \in Units |-> NoDisposisi] ELSE <<>>,
        dihapus |-> FALSE]]

\* The chains as the sets of their members, the filed ones among them.
SeRangkaian(S) == {Anggota(anggota[x]) : x \in S}
Berangkaian == {x \in Surat : anggota[x] # NoChain}
Diberkaskan(x) == anggota[x] # NoChain /\ rangkaian[anggota[x]].status = "diberkaskan"

Perkara == INSTANCE CaseFiles WITH
    Letters <- Surat,
    Blank <- CatatanKosong,
    cases <- SeRangkaian(Berangkaian),
    filed <- SeRangkaian({x \in Surat : Diberkaskan(x)}),
    partners <- [x \in Surat |-> {r.ke : r \in RelasiDari(x)}],
    record <- [x \in Surat |-> Catatan(x)],
    busy <- {x \in Surat : Sibuk(x)}

\* Letters, relations, dispositions and chains of four services, recomputed
\* and merged in any order, are case files: letters that are once together
\* stay together, those that refer to each other are together, and a case that
\* is filed has no open work and never changes again.
ImplementsCases == Perkara!CasesSpec

=============================================================================
