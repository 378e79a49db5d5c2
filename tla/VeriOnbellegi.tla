--------------------------- MODULE VeriOnbellegi ---------------------------
(***************************************************************************)
(* The level-1 data cache: veri_onbellegi_denetleyici.v, with the way and  *)
(* status RAMs user_processor.v wires to it.  Two ways, write back, one    *)
(* word per line.  A step is a clock edge.                                 *)
(*                                                                         *)
(* The controller never remembers the request it serves: it relies on the  *)
(* core holding it until l1v_durdur_o falls, and a fill is followed by the *)
(* same request again, now a hit.                                          *)
(***************************************************************************)
EXTENDS BellekTanimlari

CONSTANTS
    BaslangicSatirlari,  \* what the row RAMs may hold at power-on
    BaslangicBellek      \* what the main memory may hold at power-on

VARIABLES
    durum,        \* durum_r
    counter,      \* row the reset loop clears next
    satir,        \* the RAMs: per row the lru bit and the two ways
    iomem_addr,   \* iomem_addr_r
    iomem_wdata,  \* iomem_wdata_r
    bellek,       \* main memory behind the arbiter
    istek,        \* request on the l1v_* inputs this cycle
    l1v_veri      \* l1v_veri_o in the cycle the last load was let go

vars == <<durum, counter, satir, iomem_addr, iomem_wdata, bellek, istek, l1v_veri>>

Yollar == {0, 1}

YolTipi == [gecerli : BOOLEAN, kirli : BOOLEAN, tag : Taglar, veri : Kelime]

SatirTipi == [lru : {0, 1}, yol : [Yollar -> YolTipi]]

ASSUME BaslangicVarsayimi ==
    /\ BaslangicSatirlari \subseteq [Satirlar -> SatirTipi]
    /\ BaslangicBellek \subseteq [Adres -> Kelime]

-----------------------------------------------------------------------------
(* Combinational signals *)

Secilen == satir[AdrV(istek.adr)]

\* Ways of row r that hold tag t.
IsabetYollari(r, t) == {w \in Yollar : r.yol[w].gecerli /\ r.yol[w].tag = t}

\* What row r returns for tag t, or d on a miss.  Way 1 is looked at last and wins.
SatirVerisi(r, t, d) ==
    LET i == IsabetYollari(r, t)
    IN  IF i = {} THEN d ELSE IF 1 \in i THEN r.yol[1].veri ELSE r.yol[0].veri

Isabetler == IsabetYollari(Secilen, TagV(istek.adr))

Isabet == Isabetler # {}

\* lru_i = 1 makes way 0 the victim.
Kurban == IF Secilen.lru = 1 THEN 0 ELSE 1

\* Mutant: the dirty bit of the other way decides.
KurbanYol_DigerYol == Secilen.yol[1 - Kurban]

KurbanYol == Secilen.yol[Kurban]

KelimeSaklama == SaklamaMi(istek) /\ istek.maske = Serit

Bekleyen == durum \in {"BELLEK_OKU", "BELLEK_YAZ"}

Devral == UNCHANGED <<durum, counter, iomem_addr, iomem_wdata, bellek>>

\* Mutant: the valid bit is left as it was.
KurbanaYaz_GecersizKalir(kirli, veri) ==
    satir' = [satir EXCEPT ![AdrV(istek.adr)] =
                [lru |-> 1 - @.lru,
                 yol |-> [@.yol EXCEPT ![Kurban] = [@ EXCEPT !.kirli = kirli, !.veri = veri,
                                                            !.tag = TagV(istek.adr)]]]]

\* Mutant: the tag RAM is not written.
KurbanaYaz_TagYok(kirli, veri) ==
    satir' = [satir EXCEPT ![AdrV(istek.adr)] =
                [lru |-> 1 - @.lru,
                 yol |-> [@.yol EXCEPT ![Kurban] = [@ EXCEPT !.gecerli = TRUE, !.kirli = kirli,
                                                            !.veri = veri]]]]

\* Replace the victim: its new line, and the lru bit turned over.
KurbanaYaz(kirli, veri) ==
    satir' = [satir EXCEPT ![AdrV(istek.adr)] =
                [lru |-> 1 - @.lru,
                 yol |-> [@.yol EXCEPT ![Kurban] =
                            [gecerli |-> TRUE, kirli |-> kirli,
                             tag |-> TagV(istek.adr), veri |-> veri]]]]

\* The core is let go and presents its next request.
Birak == istek' \in Istekler

-----------------------------------------------------------------------------
(* RESET: clear one row per cycle *)

Init ==
    /\ durum = "RESET"
    /\ counter = 0
    /\ satir \in BaslangicSatirlari
    /\ iomem_addr = OnemsizAdres
    /\ iomem_wdata = OnemsizKelime
    /\ bellek \in BaslangicBellek
    /\ istek = Bos
    /\ l1v_veri = OnemsizKelime

\* Mutant: the dirty bits survive the reset loop.
TemizSatir_KirliKalir(r) ==
    [lru |-> 0,
     yol |-> [w \in Yollar |-> [gecerli |-> FALSE, kirli |-> r.yol[w].kirli,
                                tag |-> TagV(istek.adr), veri |-> r.yol[w].veri]]]

\* A row of the status RAM with valid, dirty and lru cleared; the data RAMs keep theirs.
TemizSatir(r) ==
    [lru |-> 0,
     yol |-> [w \in Yollar |-> [gecerli |-> FALSE, kirli |-> FALSE,
                                tag |-> TagV(istek.adr), veri |-> r.yol[w].veri]]]

\* Mutant: the loop stops one row early.
SonSatir_BirEksik == IF SatirSayisi > 1 THEN SatirSayisi - 2 ELSE 0

SonSatir == SatirSayisi - 1

\* With the last row denetim_durum_birimi, which counts alongside, lets the core go.
SatirTemizle ==
    /\ durum = "RESET"
    /\ satir' = [satir EXCEPT ![counter] = TemizSatir(@)]
    /\ counter' = IF counter = SonSatir THEN counter ELSE counter + 1
    /\ durum' = IF counter = SonSatir THEN "BOY" ELSE "RESET"
    /\ IF counter = SonSatir THEN Birak ELSE UNCHANGED istek
    /\ UNCHANGED <<iomem_addr, iomem_wdata, bellek, l1v_veri>>

-----------------------------------------------------------------------------
(* BOY: idle, hits, and the start of a miss *)

Bosta ==
    /\ durum = "BOY"
    /\ ~istek.sec
    /\ Birak
    /\ Devral /\ UNCHANGED <<satir, l1v_veri>>

\* Load hit.  lru_o is driven, but no way is enabled, so the row is not written.
OkuIsabet ==
    /\ durum = "BOY"
    /\ YuklemeMi(istek)
    /\ Isabet
    /\ l1v_veri' = SatirVerisi(Secilen, TagV(istek.adr), l1v_veri)
    /\ Birak
    /\ Devral /\ UNCHANGED satir

\* Mutant: a store hit forgets the dirty bit.
YazIsabet_KirliYok ==
    /\ durum = "BOY"
    /\ SaklamaMi(istek)
    /\ Isabet
    /\ satir' = [satir EXCEPT ![AdrV(istek.adr)] =
                   [lru |-> IF 1 \in Isabetler THEN 1 ELSE 0,
                    yol |-> [w \in Yollar |->
                               IF w \in Isabetler
                               THEN [@.yol[w] EXCEPT !.veri = Birlestir(@, istek)]
                               ELSE @.yol[w]]]]
    /\ Birak
    /\ Devral /\ UNCHANGED l1v_veri

\* Store hit: masked lanes of every hitting way, dirty set, lru names the way.
YazIsabet ==
    /\ durum = "BOY"
    /\ SaklamaMi(istek)
    /\ Isabet
    /\ satir' = [satir EXCEPT ![AdrV(istek.adr)] =
                   [lru |-> IF 1 \in Isabetler THEN 1 ELSE 0,
                    yol |-> [w \in Yollar |->
                               IF w \in Isabetler
                               THEN [gecerli |-> TRUE, kirli |-> TRUE, tag |-> TagV(istek.adr),
                                     veri |-> Birlestir(@.yol[w].veri, istek)]
                               ELSE @.yol[w]]]]
    /\ Birak
    /\ Devral /\ UNCHANGED l1v_veri

\* Full-word store over a clean victim: no memory access, no stall.
YazTemizKurban ==
    /\ durum = "BOY"
    /\ KelimeSaklama
    /\ ~Isabet
    /\ ~KurbanYol.kirli
    /\ KurbanaYaz(TRUE, istek.veri)
    /\ Birak
    /\ Devral /\ UNCHANGED l1v_veri

\* Miss over a dirty victim: latch its address and data, write it back first.
KirliKurban ==
    /\ durum = "BOY"
    /\ istek.sec
    /\ ~Isabet
    /\ KurbanYol.kirli
    /\ durum' = "BELLEK_YAZ"
    /\ iomem_addr' = <<KurbanYol.tag, AdrV(istek.adr)>>
    /\ iomem_wdata' = KurbanYol.veri
    /\ UNCHANGED <<counter, satir, bellek, istek, l1v_veri>>

\* Miss of a load or of a partial store over a clean victim: read the word.
TemizKurban ==
    /\ durum = "BOY"
    /\ istek.sec /\ ~KelimeSaklama
    /\ ~Isabet
    /\ ~KurbanYol.kirli
    /\ durum' = "BELLEK_OKU"
    /\ iomem_addr' = istek.adr
    /\ UNCHANGED <<counter, satir, iomem_wdata, bellek, istek, l1v_veri>>

-----------------------------------------------------------------------------
(* BELLEK_OKU and BELLEK_YAZ: waiting for iomem_ready_i *)

\* The word arrived for a load: a clean line; the load retries as a hit.
OkuDoldur ==
    /\ durum = "BELLEK_OKU"
    /\ istek.maske = {}
    /\ KurbanaYaz(FALSE, bellek[iomem_addr])
    /\ durum' = "BOY"
    /\ UNCHANGED <<counter, iomem_addr, iomem_wdata, bellek, istek, l1v_veri>>

\* The word arrived for a partial store: merged, but still marked clean; the
\* retry is a store hit and sets the dirty bit.
YazDoldur ==
    /\ durum = "BELLEK_OKU"
    /\ istek.maske # {} /\ istek.maske # Serit
    /\ KurbanaYaz(FALSE, Birlestir(bellek[iomem_addr], istek))
    /\ durum' = "BOY"
    /\ UNCHANGED <<counter, iomem_addr, iomem_wdata, bellek, istek, l1v_veri>>

\* The RAM takes the write while iomem_valid_o is up and before it says ready.
YazmaIslenir ==
    /\ durum = "BELLEK_YAZ"
    /\ bellek' = [bellek EXCEPT ![iomem_addr] = iomem_wdata]
    /\ UNCHANGED <<durum, counter, satir, iomem_addr, iomem_wdata, istek, l1v_veri>>

\* Mutant: the read after a write-back keeps the victim's address.
GeriYazSonraOku_AdresKalir ==
    /\ durum = "BELLEK_YAZ"
    /\ istek.maske # Serit
    /\ bellek' = [bellek EXCEPT ![iomem_addr] = iomem_wdata]
    /\ durum' = "BELLEK_OKU"
    /\ UNCHANGED <<counter, satir, iomem_addr, iomem_wdata, istek, l1v_veri>>

\* Write-back done, a load or a partial store goes on to read its word.
GeriYazSonraOku ==
    /\ durum = "BELLEK_YAZ"
    /\ istek.maske # Serit
    /\ bellek' = [bellek EXCEPT ![iomem_addr] = iomem_wdata]
    /\ durum' = "BELLEK_OKU"
    /\ iomem_addr' = istek.adr
    /\ UNCHANGED <<counter, satir, iomem_wdata, istek, l1v_veri>>

\* Write-back done, a full-word store takes the line over: tag, valid, dirty and
\* lru are written, but with wmask 0 the old data stays until the retry hits.
GeriYazKelime ==
    /\ durum = "BELLEK_YAZ"
    /\ istek.maske = Serit
    /\ bellek' = [bellek EXCEPT ![iomem_addr] = iomem_wdata]
    /\ KurbanaYaz(TRUE, KurbanYol.veri)
    /\ durum' = "BOY"
    /\ UNCHANGED <<counter, iomem_addr, iomem_wdata, istek, l1v_veri>>

-----------------------------------------------------------------------------
(* rst_i: the RAM contents stay, the core's request is gone *)

Sifirla ==
    /\ durum' = "RESET"
    /\ counter' = 0
    /\ istek' = Bos
    /\ UNCHANGED <<satir, iomem_addr, iomem_wdata, bellek, l1v_veri>>

Cekirdek == Bosta \/ OkuIsabet \/ YazIsabet \/ YazTemizKurban

BellekYaniti == OkuDoldur \/ YazDoldur \/ GeriYazSonraOku \/ GeriYazKelime

Saat == SatirTemizle \/ Cekirdek \/ KirliKurban \/ TemizKurban \/ BellekYaniti \/ YazmaIslenir

Next == Saat \/ Sifirla

Spec == Init /\ [][Next]_vars

(***************************************************************************)
(* The clock runs, and the RAM answers every request (teknofest_wrapper.v  *)
(* raises iomem_ready RAM_DELAY cycles after it).                          *)
(***************************************************************************)
AdilSpec ==
    /\ Spec
    /\ WF_vars(SatirTemizle \/ Cekirdek \/ KirliKurban \/ TemizKurban)
    /\ WF_vars(BellekYaniti)

-----------------------------------------------------------------------------
(* Properties *)

\* Every register and RAM of the cache keeps its width.
TipDogru ==
    /\ durum \in {"RESET", "BOY", "BELLEK_OKU", "BELLEK_YAZ"}
    /\ counter \in Satirlar
    /\ satir \in [Satirlar -> SatirTipi]
    /\ iomem_addr \in Adres
    /\ iomem_wdata \in Kelime
    /\ bellek \in [Adres -> Kelime]
    /\ istek \in IstekTipi
    /\ l1v_veri \in Kelime

\* The status bits mean something once the reset loop is over.
Kullanimda == durum # "RESET"

\* At most one way hits: hit_yol0 and hit_yol1 drive the same outputs one after
\* the other, so two copies of a word would let a store and a load disagree.
TekIsabet ==
    \A s \in Satirlar : Kullanimda /\ satir[s].yol[0].gecerli /\ satir[s].yol[1].gecerli
                            => satir[s].yol[0].tag # satir[s].yol[1].tag

\* The line the held store is about to write again in its retry.
SaklamaBekler(a) == SaklamaMi(istek) /\ istek.adr = a

\* A line marked clean may be dropped without a write-back, so it must equal the
\* RAM.  A partial store's fill breaks this for one cycle (BELLEK_OKU merges the
\* store and writes dirty = 0), which the retry of the same store repairs.
TemizTutarli ==
    \A s \in Satirlar, w \in Yollar :
        LET y == satir[s].yol[w]
        IN  Kullanimda /\ y.gecerli /\ ~y.kirli /\ ~SaklamaBekler(<<y.tag, s>>)
                => y.veri = bellek[<<y.tag, s>>]

\* Outside a reset, a dirty line leaves the cache only after the RAM has its data
\* (BELLEK_YAZ before the line is taken over).
KirliKaybolmaz ==
    [][\A s \in Satirlar, w \in Yollar :
         LET y == satir[s].yol[w]
         IN  durum # "RESET" /\ y.kirli /\ satir'[s].yol[w].tag # y.tag
                => bellek[<<y.tag, s>>] = y.veri \/ bellek'[<<y.tag, s>>] = y.veri]_vars

\* A request that waited for the memory hits when the controller is back in BOY:
\* the retry the whole design relies on never starts a second miss.
TekrarIsabet == [][Bekleyen /\ durum' = "BOY" => Isabet']_vars

(***************************************************************************)
(* The memory the core sees through the cache.  A store in service is      *)
(* already part of it: the line may hold it in any of several stages.      *)
(***************************************************************************)
Altta(a) ==
    IF Kullanimda THEN SatirVerisi(satir[AdrV(a)], TagV(a), bellek[a]) ELSE bellek[a]

Gorunen == [a \in Adres |-> IF SaklamaBekler(a) THEN Birlestir(Altta(a), istek) ELSE Altta(a)]

Soyut == INSTANCE Bellek WITH icerik <- Gorunen, okunan <- l1v_veri

\* Through hits, fills, write-backs and retries the cache behaves as the plain
\* memory of module Bellek.  Only a reset of the cache may drop what was stored.
SoyutSpec == Soyut!Spec /\ [][~Sifirla => Soyut!Tamamla]_(Soyut!vars)

(***************************************************************************)
(* What the request still needs of the memory, by what the row holds.      *)
(***************************************************************************)
Gereken ==
    CASE ~istek.sec -> "yok"
      [] istek.sec /\ durum = "BELLEK_OKU" -> "oku"
      [] istek.sec /\ durum # "BELLEK_OKU" ->
           IF Isabet \/ (KelimeSaklama /\ ~KurbanYol.kirli) THEN "isabet"
           ELSE IF ~KurbanYol.kirli THEN "oku"
           ELSE IF KelimeSaklama THEN "yaz" ELSE "yazoku"

KapiIstegi ==
    LET g == Gereken
        yazar == g \in {"yazoku", "yaz"}
    IN  [tur    |-> g,
         adr    |-> IF g = "oku" \/ yazar THEN istek.adr ELSE OnemsizAdres,
         kurban |-> IF yazar THEN <<KurbanYol.tag, AdrV(istek.adr)>> ELSE OnemsizAdres,
         veri   |-> IF yazar THEN KurbanYol.veri ELSE OnemsizKelime]

Kapi == INSTANCE VeriKapisi WITH
    Adresler <- Adres, Deger <- Kelime, BosAdres <- OnemsizAdres, BosDeger <- OnemsizKelime,
    adres <- iomem_addr, veri <- iomem_wdata, istek <- KapiIstegi

\* On the memory port the cache does what VeriKapisi says, which is what BellekSistemi
\* makes of it: a request takes at most a write-back and a read, with the address and
\* data of the line, and the retry after an answer never misses; only a reset cuts it short.
KapiSpec == Kapi!Spec /\ [][~Sifirla => Kapi!Calis]_(Kapi!vars)

\* l1v_durdur_o low: the edge at which the core moves on.
Bitiyor == ENABLED Cekirdek

\* Every request is let go in the end, unless a reset takes it away.
IstekBiter == istek.sec ~> Bitiyor \/ ~istek.sec

(***************************************************************************)
(* The inductive invariant behind the safety properties.                   *)
(***************************************************************************)
\* The status bits of rows in use: a dirty line is valid (else a write-back would
\* store garbage).
KirliGecerli ==
    \A s \in Satirlar, w \in Yollar :
        Kullanimda /\ satir[s].yol[w].kirli => satir[s].yol[w].gecerli

\* While the controller waits, the request is one it serves in that state, it
\* still misses, and the latched address and data are the victim's.
BeklemeTutarli ==
    /\ durum \in {"BELLEK_OKU", "BELLEK_YAZ"} => istek.sec /\ ~Isabet
    /\ durum = "BELLEK_YAZ" =>
          /\ KurbanYol.kirli
          /\ iomem_addr = <<KurbanYol.tag, AdrV(istek.adr)>>
          /\ iomem_wdata = KurbanYol.veri
    /\ durum = "BELLEK_OKU" =>
          /\ iomem_addr = istek.adr
          /\ istek.maske # Serit
          /\ KurbanYol.kirli => bellek[<<KurbanYol.tag, AdrV(istek.adr)>>] = KurbanYol.veri

\* During RESET the core presents nothing and the rows passed so far are empty.
ResetTutarli ==
    durum = "RESET" =>
        /\ istek = Bos
        /\ \A s \in Satirlar, w \in Yollar :
              s < counter => ~satir[s].yol[w].gecerli /\ ~satir[s].yol[w].kirli

IInv ==
    /\ TipDogru
    /\ TekIsabet
    /\ KirliGecerli
    /\ TemizTutarli
    /\ BeklemeTutarli
    /\ ResetTutarli

=============================================================================
