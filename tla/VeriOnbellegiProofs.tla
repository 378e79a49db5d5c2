------------------------ MODULE VeriOnbellegiProofs ------------------------
(***************************************************************************)
(* Proofs about the data cache: its type invariant, the inductive          *)
(* invariant, and the safety properties that follow from it.               *)
(***************************************************************************)
EXTENDS VeriOnbellegi, TLAPS

-----------------------------------------------------------------------------
(* Types of the shared vocabulary *)

\* A word exists, so the don't-care word is one; likewise the don't-care address.
LEMMA OnemsizTip == OnemsizKelime \in Kelime /\ OnemsizAdres \in Adres
<1>1. \E k \in Kelime : TRUE
  <2>1. PICK b \in Bayt : TRUE
    BY BoyutVarsayimi
  <2>2. [x \in Serit |-> b] \in Kelime
    BY <2>1 DEF Kelime
  <2>. QED BY <2>2
<1>2. \E a \in Adres : TRUE
  <2>1. PICK t \in Taglar : TRUE
    BY BoyutVarsayimi
  <2>2. 0 \in Satirlar
    BY BoyutVarsayimi DEF Satirlar
  <2>3. <<t, 0>> \in Adres
    BY <2>1, <2>2 DEF Adres
  <2>. QED BY <2>3
<1>. QED BY <1>1, <1>2 DEF OnemsizKelime, OnemsizAdres

\* Every request the core presents has the fields of a request.
LEMMA IsteklerTip == Istekler \subseteq IstekTipi
<1>1. Bos \in IstekTipi
  BY OnemsizTip DEF Bos, IstekTipi
<1>2. \A a \in Adres : Yukleme(a) \in IstekTipi
  BY OnemsizTip DEF Yukleme, IstekTipi
<1>3. \A a \in Adres, m \in Maskeler, v \in Kelime : Saklama(a, m, v) \in IstekTipi
  BY BoyutVarsayimi DEF Saklama, IstekTipi
<1>. QED BY <1>1, <1>2, <1>3 DEF Istekler

\* The parts of an address of the cache.
LEMMA AdresTip ==
    ASSUME NEW a \in Adres
    PROVE  TagV(a) \in Taglar /\ AdrV(a) \in Satirlar /\ a = <<TagV(a), AdrV(a)>>
BY DEF Adres, TagV, AdrV

\* Merging a request into a word gives a word.
LEMMA BirlestirTip ==
    ASSUME NEW k \in Kelime, NEW i \in IstekTipi
    PROVE  Birlestir(k, i) \in Kelime
BY DEF Birlestir, Kelime, IstekTipi

\* Merging twice is merging once: what lets a store retry after its fill.
LEMMA BirlestirTekrar ==
    ASSUME NEW k, NEW i
    PROVE  Birlestir(Birlestir(k, i), i) = Birlestir(k, i)
BY DEF Birlestir

-----------------------------------------------------------------------------
(* What the two kinds of row write do *)

\* The row selected by the request, its victim and the victim's line.
LEMMA KurbanTip ==
    ASSUME TipDogru
    PROVE  /\ AdrV(istek.adr) \in Satirlar
           /\ TagV(istek.adr) \in Taglar
           /\ Secilen \in SatirTipi
           /\ Kurban \in Yollar
           /\ KurbanYol \in YolTipi
           /\ istek.adr = <<TagV(istek.adr), AdrV(istek.adr)>>
<1>1. istek.adr \in Adres
  BY DEF TipDogru, IstekTipi
<1>2. Secilen \in SatirTipi
  BY <1>1, AdresTip DEF TipDogru, Secilen
<1>3. Kurban \in Yollar
  BY DEF Kurban, Yollar
<1>4. KurbanYol \in YolTipi
  BY <1>2, <1>3 DEF KurbanYol, SatirTipi
<1>. QED BY <1>1, <1>2, <1>3, <1>4, AdresTip

\* Taking over the victim changes that line of that row, and lru, and nothing else.
LEMMA KurbanaYazEtki ==
    ASSUME TipDogru, NEW k \in BOOLEAN, NEW v \in Kelime, KurbanaYaz(k, v)
    PROVE  /\ satir' \in [Satirlar -> SatirTipi]
           /\ \A s \in Satirlar, w \in Yollar :
                satir'[s].yol[w] =
                  IF s = AdrV(istek.adr) /\ w = Kurban
                  THEN [gecerli |-> TRUE, kirli |-> k, tag |-> TagV(istek.adr), veri |-> v]
                  ELSE satir[s].yol[w]
<1> DEFINE c == AdrV(istek.adr)
           y == [gecerli |-> TRUE, kirli |-> k, tag |-> TagV(istek.adr), veri |-> v]
           r == [lru |-> 1 - satir[c].lru, yol |-> [satir[c].yol EXCEPT ![Kurban] = y]]
<1>1. satir' = [satir EXCEPT ![c] = r]
  BY DEF KurbanaYaz
<1>2. c \in Satirlar /\ Kurban \in Yollar /\ TagV(istek.adr) \in Taglar
  BY KurbanTip
<1>3. satir \in [Satirlar -> SatirTipi] /\ satir[c] \in SatirTipi
  BY <1>2 DEF TipDogru
<1>4. y \in YolTipi
  BY <1>2 DEF YolTipi
<1>5. satir[c].yol \in [Yollar -> YolTipi] /\ satir[c].lru \in {0, 1}
  BY <1>3 DEF SatirTipi
<1>6. r.yol \in [Yollar -> YolTipi]
  BY <1>4, <1>5
<1>7. r \in SatirTipi
  BY <1>5, <1>6 DEF SatirTipi
<1> HIDE DEF y
<1>8. \A w \in Yollar : r.yol[w] = IF w = Kurban THEN y ELSE satir[c].yol[w]
  BY <1>5
<1> HIDE DEF r
<1>9. satir' \in [Satirlar -> SatirTipi]
  BY <1>1, <1>2, <1>3, <1>7
<1>10. \A s \in Satirlar : satir'[s] = IF s = c THEN r ELSE satir[s]
  BY <1>1, <1>3
<1>. QED BY <1>8, <1>9, <1>10 DEF y

\* The reset loop invalidates and cleans both ways of one row.
LEMMA SatirTemizleEtki ==
    ASSUME TipDogru, SatirTemizle
    PROVE  /\ satir' \in [Satirlar -> SatirTipi]
           /\ \A s \in Satirlar, w \in Yollar :
                satir'[s].yol[w] =
                  IF s = counter
                  THEN [gecerli |-> FALSE, kirli |-> FALSE,
                        tag |-> TagV(istek.adr), veri |-> satir[s].yol[w].veri]
                  ELSE satir[s].yol[w]
<1> DEFINE r == TemizSatir(satir[counter])
<1>1. satir' = [satir EXCEPT ![counter] = r]
  BY DEF SatirTemizle
<1>2. counter \in Satirlar /\ satir \in [Satirlar -> SatirTipi] /\ TagV(istek.adr) \in Taglar
  BY KurbanTip DEF TipDogru
<1>3. satir[counter].yol \in [Yollar -> YolTipi]
  BY <1>2 DEF SatirTipi
<1>4. r \in SatirTipi
  BY <1>2, <1>3 DEF TemizSatir, SatirTipi, YolTipi
<1>5. \A w \in Yollar :
         r.yol[w] = [gecerli |-> FALSE, kirli |-> FALSE,
                     tag |-> TagV(istek.adr), veri |-> satir[counter].yol[w].veri]
  BY DEF TemizSatir
<1> HIDE DEF r
<1>6. satir' \in [Satirlar -> SatirTipi]
  BY <1>1, <1>2, <1>4
<1>7. \A s \in Satirlar : satir'[s] = IF s = counter THEN r ELSE satir[s]
  BY <1>1, <1>2
<1>. QED BY <1>5, <1>6, <1>7

\* A store hit changes the hitting lines only, and marks them dirty.
LEMMA YazIsabetEtki ==
    ASSUME TipDogru, YazIsabet
    PROVE  /\ satir' \in [Satirlar -> SatirTipi]
           /\ \A s \in Satirlar, w \in Yollar :
                satir'[s].yol[w] =
                  IF s = AdrV(istek.adr) /\ w \in Isabetler
                  THEN [gecerli |-> TRUE, kirli |-> TRUE, tag |-> TagV(istek.adr),
                        veri |-> Birlestir(satir[s].yol[w].veri, istek)]
                  ELSE satir[s].yol[w]
<1> DEFINE c == AdrV(istek.adr)
           y(w) == [gecerli |-> TRUE, kirli |-> TRUE, tag |-> TagV(istek.adr),
                    veri |-> Birlestir(satir[c].yol[w].veri, istek)]
           f == [w \in Yollar |-> IF w \in Isabetler THEN y(w) ELSE satir[c].yol[w]]
           r == [lru |-> IF 1 \in Isabetler THEN 1 ELSE 0, yol |-> f]
<1>1. satir' = [satir EXCEPT ![c] = r]
  BY DEF YazIsabet
<1>2. c \in Satirlar /\ TagV(istek.adr) \in Taglar
  BY KurbanTip
<1>3. satir \in [Satirlar -> SatirTipi] /\ satir[c] \in SatirTipi
  BY <1>2 DEF TipDogru
<1>4. satir[c].yol \in [Yollar -> YolTipi]
  BY <1>3 DEF SatirTipi
<1>5. \A w \in Yollar : y(w) \in YolTipi
  <2> SUFFICES ASSUME NEW w \in Yollar PROVE y(w) \in YolTipi
    OBVIOUS
  <2>1. satir[c].yol[w].veri \in Kelime
    BY <1>4 DEF YolTipi
  <2>2. Birlestir(satir[c].yol[w].veri, istek) \in Kelime
    BY <2>1, BirlestirTip DEF TipDogru
  <2>. QED BY <1>2, <2>2 DEF YolTipi
<1> HIDE DEF y
<1>6. f \in [Yollar -> YolTipi]
  BY <1>4, <1>5
<1>7. r \in SatirTipi
  BY <1>6 DEF SatirTipi
<1>8. \A w \in Yollar : r.yol[w] = IF w \in Isabetler THEN y(w) ELSE satir[c].yol[w]
  OBVIOUS
<1> HIDE DEF r, f
<1>9. satir' \in [Satirlar -> SatirTipi]
  BY <1>1, <1>2, <1>3, <1>7
<1>10. \A s \in Satirlar : satir'[s] = IF s = c THEN r ELSE satir[s]
  BY <1>1, <1>3
<1>. QED BY <1>8, <1>9, <1>10 DEF y

-----------------------------------------------------------------------------
(* Types *)

\* Power-on satisfies the type invariant.
LEMMA TipInit == Init => TipDogru
<1>1. 0 \in Satirlar
  BY BoyutVarsayimi DEF Satirlar
<1>2. Bos \in IstekTipi
  BY IsteklerTip DEF Istekler
<1>. QED BY <1>1, <1>2, OnemsizTip, BaslangicVarsayimi DEF Init, TipDogru

\* Every clock edge keeps it.
LEMMA TipAdim == TipDogru /\ [Next]_vars => TipDogru'
<1> SUFFICES ASSUME TipDogru, [Next]_vars PROVE TipDogru'
  OBVIOUS
<1>1. /\ Secilen \in SatirTipi /\ KurbanYol \in YolTipi
      /\ Secilen.yol[0] \in YolTipi /\ Secilen.yol[1] \in YolTipi
  BY KurbanTip DEF SatirTipi, Yollar
<1>2. bellek[iomem_addr] \in Kelime /\ KurbanYol.veri \in Kelime
  BY <1>1 DEF TipDogru, YolTipi
<1>3. [bellek EXCEPT ![iomem_addr] = iomem_wdata] \in [Adres -> Kelime]
  BY DEF TipDogru
<1>4. istek \in IstekTipi /\ Bos \in IstekTipi
  BY IsteklerTip DEF TipDogru, Istekler
<1>5. CASE SatirTemizle
  <2>1. counter' \in Satirlar
    BY <1>5, BoyutVarsayimi DEF SatirTemizle, TipDogru, Satirlar, SonSatir
  <2>2. istek' \in IstekTipi
    BY <1>4, <1>5, IsteklerTip DEF SatirTemizle, Birak
  <2>. QED BY <1>5, <2>1, <2>2, SatirTemizleEtki DEF SatirTemizle, TipDogru
<1>6. CASE Bosta
  BY <1>6, IsteklerTip DEF Bosta, Birak, Devral, TipDogru
<1>7. CASE OkuIsabet
  <2>1. SatirVerisi(Secilen, TagV(istek.adr), l1v_veri) \in Kelime
    BY <1>1 DEF SatirVerisi, YolTipi, TipDogru
  <2>. QED BY <1>7, <2>1, IsteklerTip DEF OkuIsabet, Birak, Devral, TipDogru
<1>8. CASE YazIsabet
  BY <1>8, YazIsabetEtki, IsteklerTip DEF YazIsabet, Birak, Devral, TipDogru
<1>9. CASE YazTemizKurban
  <2>1. istek.veri \in Kelime
    BY <1>4 DEF IstekTipi
  <2>2. satir' \in [Satirlar -> SatirTipi]
    BY <1>9, <2>1, KurbanaYazEtki DEF YazTemizKurban
  <2>. QED BY <1>9, <2>2, IsteklerTip DEF YazTemizKurban, Birak, Devral, TipDogru
<1>10. CASE KirliKurban
  <2>1. <<KurbanYol.tag, AdrV(istek.adr)>> \in Adres
    BY <1>1, KurbanTip DEF YolTipi, Adres
  <2>. QED BY <1>2, <1>10, <2>1 DEF KirliKurban, TipDogru
<1>11. CASE TemizKurban
  BY <1>4, <1>11 DEF TemizKurban, TipDogru, IstekTipi
<1>12. CASE OkuDoldur
  <2>1. satir' \in [Satirlar -> SatirTipi]
    BY <1>2, <1>12, KurbanaYazEtki DEF OkuDoldur
  <2>. QED BY <1>12, <2>1 DEF OkuDoldur, TipDogru
<1>13. CASE YazDoldur
  <2>1. Birlestir(bellek[iomem_addr], istek) \in Kelime
    BY <1>2, <1>4, BirlestirTip
  <2>2. satir' \in [Satirlar -> SatirTipi]
    BY <1>13, <2>1, KurbanaYazEtki DEF YazDoldur
  <2>. QED BY <1>13, <2>2 DEF YazDoldur, TipDogru
<1>14. CASE YazmaIslenir
  BY <1>3, <1>14 DEF YazmaIslenir, TipDogru
<1>15. CASE GeriYazSonraOku
  BY <1>3, <1>4, <1>15 DEF GeriYazSonraOku, TipDogru, IstekTipi
<1>16. CASE GeriYazKelime
  <2>1. satir' \in [Satirlar -> SatirTipi]
    BY <1>2, <1>16, KurbanaYazEtki DEF GeriYazKelime
  <2>. QED BY <1>3, <1>16, <2>1 DEF GeriYazKelime, TipDogru
<1>17. CASE Sifirla
  <2>1. 0 \in Satirlar
    BY BoyutVarsayimi DEF Satirlar
  <2>. QED BY <1>4, <1>17, <2>1 DEF Sifirla, TipDogru
<1>18. CASE UNCHANGED vars
  BY <1>18 DEF vars, TipDogru
<1>. QED
  BY <1>5, <1>6, <1>7, <1>8, <1>9, <1>10, <1>11, <1>12, <1>13, <1>14, <1>15, <1>16, <1>17, <1>18
     DEF Next, Saat, Cekirdek, BellekYaniti

\* The registers and RAMs of veri_onbellegi_denetleyici.v keep their widths, for
\* every number of rows, tags, lanes and byte values.
THEOREM TipTeoremi == Spec => []TipDogru
BY TipInit, TipAdim, PTL DEF Spec

-----------------------------------------------------------------------------
(* The inductive invariant *)

\* Before the reset loop ran no row is in use, so garbage in the RAMs is harmless.
LEMMA IInvInit == Init => IInv
<1> SUFFICES ASSUME Init PROVE IInv
  OBVIOUS
<1>1. ~Kullanimda /\ \A s \in Satirlar : ~(s < counter)
  BY BoyutVarsayimi DEF Init, Kullanimda, Satirlar
<1>. QED BY <1>1, TipInit DEF Init, IInv, TekIsabet, KirliGecerli, TemizTutarli,
            BeklemeTutarli, ResetTutarli

\* No line of the selected row carries the tag of a missing request.
LEMMA IskaTagi ==
    ASSUME IInv, ~Isabet, NEW w \in Yollar,
           satir[AdrV(istek.adr)].yol[w].gecerli
    PROVE  satir[AdrV(istek.adr)].yol[w].tag # TagV(istek.adr)
BY DEF Isabet, Isabetler, IsabetYollari, Secilen

\* A word of the RAM that is not the word under write-back keeps its value, and a
\* clean line in use is never the one under write-back.
LEMMA GeriYazEtki ==
    ASSUME IInv, durum = "BELLEK_YAZ",
           bellek' = [bellek EXCEPT ![iomem_addr] = iomem_wdata]
    PROVE  /\ bellek'[<<KurbanYol.tag, AdrV(istek.adr)>>] = KurbanYol.veri
           /\ \A s \in Satirlar, w \in Yollar :
                LET y == satir[s].yol[w]
                IN  y.gecerli /\ ~y.kirli => bellek'[<<y.tag, s>>] = bellek[<<y.tag, s>>]
<1> USE DEF IInv
<1>1. /\ KurbanYol.kirli
      /\ iomem_addr = <<KurbanYol.tag, AdrV(istek.adr)>>
      /\ iomem_wdata = KurbanYol.veri
  BY DEF BeklemeTutarli
<1>2. Kurban \in Yollar /\ AdrV(istek.adr) \in Satirlar
  BY KurbanTip
<1>3. KurbanYol = satir[AdrV(istek.adr)].yol[Kurban]
  BY DEF KurbanYol, Secilen
<1>4. KurbanYol.gecerli
  BY <1>1, <1>2, <1>3 DEF KirliGecerli, Kullanimda
<1>5. iomem_addr \in Adres /\ bellek \in [Adres -> Kelime]
  BY DEF TipDogru
<1>6. ASSUME NEW s \in Satirlar, NEW w \in Yollar,
             satir[s].yol[w].gecerli, ~satir[s].yol[w].kirli
      PROVE  bellek'[<<satir[s].yol[w].tag, s>>] = bellek[<<satir[s].yol[w].tag, s>>]
  <2>1. ~(s = AdrV(istek.adr) /\ w = Kurban)
    BY <1>1, <1>3, <1>6
  <2>2. s = AdrV(istek.adr) => satir[s].yol[w].tag # KurbanYol.tag
    BY <1>2, <1>3, <1>4, <1>6, <2>1 DEF TekIsabet, Kullanimda, Yollar
  <2>3. <<satir[s].yol[w].tag, s>> # iomem_addr
    BY <1>1, <2>2
  <2>4. <<satir[s].yol[w].tag, s>> \in Adres
    BY <1>6 DEF TipDogru, SatirTipi, YolTipi, Adres
  <2>. QED BY <1>5, <2>3, <2>4
<1>. QED BY <1>1, <1>5, <1>6

\* The reset loop extends the rows in use by one clean, empty row.
LEMMA IInvSatirTemizle == IInv /\ SatirTemizle => IInv'
<1> SUFFICES ASSUME IInv, SatirTemizle PROVE IInv'
  OBVIOUS
<1> USE DEF IInv
<1>1. TipDogru'
  BY TipAdim DEF Next, Saat
<1>2. /\ durum = "RESET" /\ durum' \in {"RESET", "BOY"}
      /\ durum' = "RESET" => istek' = istek
  BY DEF SatirTemizle
<1>3. \A s \in Satirlar : Kullanimda' \/ s < counter' => s < counter \/ s = counter
  BY DEF SatirTemizle, Kullanimda, Satirlar, SonSatir, TipDogru
<1>4. \A s \in Satirlar, w \in Yollar :
         IF s = counter THEN ~satir'[s].yol[w].gecerli /\ ~satir'[s].yol[w].kirli
                        ELSE satir'[s].yol[w] = satir[s].yol[w]
  <2> SUFFICES ASSUME NEW s \in Satirlar, NEW w \in Yollar
               PROVE  IF s = counter THEN ~satir'[s].yol[w].gecerli /\ ~satir'[s].yol[w].kirli
                                     ELSE satir'[s].yol[w] = satir[s].yol[w]
    OBVIOUS
  <2>1. CASE s = counter
    <3>1. satir'[s].yol[w] = [gecerli |-> FALSE, kirli |-> FALSE,
                              tag |-> TagV(istek.adr), veri |-> satir[s].yol[w].veri]
      BY <2>1, SatirTemizleEtki
    <3>. QED BY <2>1, <3>1
  <2>2. CASE s # counter
    BY <2>2, SatirTemizleEtki
  <2>. QED BY <2>1, <2>2
<1>5. \A s \in Satirlar, w \in Yollar :
         Kullanimda' \/ s < counter' => ~satir'[s].yol[w].gecerli /\ ~satir'[s].yol[w].kirli
  BY <1>2, <1>3, <1>4 DEF ResetTutarli
<1>6. TekIsabet' /\ KirliGecerli' /\ TemizTutarli'
  BY <1>5 DEF TekIsabet, KirliGecerli, TemizTutarli, Yollar
<1>7. BeklemeTutarli' /\ ResetTutarli'
  BY <1>2, <1>5 DEF BeklemeTutarli, ResetTutarli
<1>. QED BY <1>1, <1>6, <1>7

\* The victim's line is replaced after a miss: the new line is the only one with
\* the request's tag, and every other line and row is as before.
LEMMA IInvKurbanaYaz ==
    ASSUME IInv, NEW k \in BOOLEAN, NEW v \in Kelime, KurbanaYaz(k, v),
           durum # "RESET", istek.sec, ~Isabet,
           durum' = "BOY", TipDogru',
           \* other clean lines keep agreeing with the RAM
           \A s \in Satirlar, w \in Yollar :
              LET y == satir[s].yol[w]
              IN  y.gecerli /\ ~y.kirli => bellek'[<<y.tag, s>>] = bellek[<<y.tag, s>>],
           \* and so does the new one, or the held store writes it again
           \/ k
           \/ v = bellek'[istek.adr]
           \/ SaklamaMi(istek) /\ istek' = istek
    PROVE  IInv'
<1> USE DEF IInv
<1> DEFINE c == AdrV(istek.adr)
<1>1. c \in Satirlar /\ Kurban \in Yollar /\ istek.adr = <<TagV(istek.adr), c>>
  BY KurbanTip
<1>2. Kullanimda
  BY DEF Kullanimda
<1>3. \A s \in Satirlar, w \in Yollar :
         IF s = c /\ w = Kurban
         THEN satir'[s].yol[w] = [gecerli |-> TRUE, kirli |-> k,
                                  tag |-> TagV(istek.adr), veri |-> v]
         ELSE satir'[s].yol[w] = satir[s].yol[w]
  BY KurbanaYazEtki
<1>4. \A w \in Yollar : satir[c].yol[w].gecerli => satir[c].yol[w].tag # TagV(istek.adr)
  BY IskaTagi
<1>5. TekIsabet'
  BY <1>2, <1>3, <1>4 DEF TekIsabet, Yollar
<1>6. KirliGecerli'
  <2> SUFFICES ASSUME NEW s \in Satirlar, NEW w \in Yollar, satir'[s].yol[w].kirli
               PROVE  satir'[s].yol[w].gecerli
    BY DEF KirliGecerli
  <2>. QED BY <1>2, <1>3 DEF KirliGecerli
<1>7. TemizTutarli'
  <2> SUFFICES ASSUME NEW s \in Satirlar, NEW w \in Yollar,
                      satir'[s].yol[w].gecerli, ~satir'[s].yol[w].kirli,
                      ~SaklamaBekler(<<satir[s].yol[w].tag, s>>)'
               PROVE  satir'[s].yol[w].veri = bellek'[<<satir'[s].yol[w].tag, s>>]
    BY DEF TemizTutarli
  <2>1. CASE s = c /\ w = Kurban
    <3>1. satir'[s].yol[w] = [gecerli |-> TRUE, kirli |-> k,
                              tag |-> TagV(istek.adr), veri |-> v]
      BY <1>3, <2>1
    <3>2. <<satir'[s].yol[w].tag, s>> = istek.adr /\ satir'[s].yol[w].veri = v /\ ~k
      BY <1>1, <2>1, <3>1
    <3>3. ~(SaklamaMi(istek) /\ istek' = istek)
      BY <3>2 DEF SaklamaBekler
    <3>. QED BY <3>2, <3>3
  <2>2. CASE ~(s = c /\ w = Kurban)
    <3>1. satir'[s].yol[w] = satir[s].yol[w]
      BY <1>3, <2>2
    <3>2. ~SaklamaBekler(<<satir[s].yol[w].tag, s>>)
      <4>1. CASE s = c
        BY <1>1, <1>4, <3>1, <4>1 DEF SaklamaBekler
      <4>2. CASE s # c
        BY <1>1, <4>2 DEF SaklamaBekler
      <4>. QED BY <4>1, <4>2
    <3>. QED BY <1>2, <3>1, <3>2 DEF TemizTutarli
  <2>. QED BY <2>1, <2>2
<1>8. BeklemeTutarli' /\ ResetTutarli'
  BY DEF BeklemeTutarli, ResetTutarli
<1>. QED BY <1>5, <1>6, <1>7, <1>8

\* A store hit dirties the line that hits; every other line is as before.
LEMMA IInvYazIsabet == IInv /\ YazIsabet => IInv'
<1> SUFFICES ASSUME IInv, YazIsabet PROVE IInv'
  OBVIOUS
<1> USE DEF IInv
<1>1. TipDogru'
  BY TipAdim DEF Next, Saat, Cekirdek
<1>0. /\ satir \in [Satirlar -> SatirTipi]
      /\ \A s \in Satirlar, w \in Yollar :
           satir'[s].yol[w] =
             IF s = AdrV(istek.adr) /\ w \in Isabetler
             THEN [gecerli |-> TRUE, kirli |-> TRUE, tag |-> TagV(istek.adr),
                   veri |-> Birlestir(satir[s].yol[w].veri, istek)]
             ELSE satir[s].yol[w]
  BY YazIsabetEtki DEF TipDogru
<1>2. durum = "BOY" /\ durum' = "BOY" /\ bellek' = bellek
  BY DEF YazIsabet, Devral
<1>3. Kullanimda
  BY <1>2 DEF Kullanimda
<1>4. \A s \in Satirlar, w \in Yollar :
         /\ satir'[s].yol[w].tag = satir[s].yol[w].tag
         /\ satir'[s].yol[w].gecerli = satir[s].yol[w].gecerli
         /\ satir'[s].yol[w].kirli => satir'[s].yol[w].gecerli
  <2> SUFFICES ASSUME NEW s \in Satirlar, NEW w \in Yollar
               PROVE  /\ satir'[s].yol[w].tag = satir[s].yol[w].tag
                      /\ satir'[s].yol[w].gecerli = satir[s].yol[w].gecerli
                      /\ satir'[s].yol[w].kirli => satir'[s].yol[w].gecerli
    OBVIOUS
  <2>1. CASE s = AdrV(istek.adr) /\ w \in Isabetler
    <3>1. satir[s].yol[w].gecerli /\ satir[s].yol[w].tag = TagV(istek.adr)
      BY <2>1 DEF Isabetler, IsabetYollari, Secilen
    <3>2. satir[s].yol[w].gecerli \in BOOLEAN
      BY <1>0 DEF SatirTipi, YolTipi
    <3>3. satir'[s].yol[w] = [gecerli |-> TRUE, kirli |-> TRUE, tag |-> TagV(istek.adr),
                              veri |-> Birlestir(satir[s].yol[w].veri, istek)]
      BY <1>0, <2>1
    <3>. QED BY <3>1, <3>2, <3>3
  <2>2. CASE ~(s = AdrV(istek.adr) /\ w \in Isabetler)
    BY <1>0, <1>3, <2>2 DEF KirliGecerli
  <2>. QED BY <2>1, <2>2
<1>5. TekIsabet' /\ KirliGecerli'
  BY <1>3, <1>4 DEF TekIsabet, KirliGecerli, Yollar
<1>6. TemizTutarli'
  <2> SUFFICES ASSUME NEW s \in Satirlar, NEW w \in Yollar,
                      satir'[s].yol[w].gecerli, ~satir'[s].yol[w].kirli
               PROVE  satir'[s].yol[w].veri = bellek'[<<satir'[s].yol[w].tag, s>>]
    BY DEF TemizTutarli
  <2>1. ~(s = AdrV(istek.adr) /\ w \in Isabetler)
    <3> SUFFICES ASSUME s = AdrV(istek.adr), w \in Isabetler PROVE FALSE
      OBVIOUS
    <3>1. satir'[s].yol[w] = [gecerli |-> TRUE, kirli |-> TRUE, tag |-> TagV(istek.adr),
                              veri |-> Birlestir(satir[s].yol[w].veri, istek)]
      BY <1>0
    <3>2. satir'[s].yol[w].kirli
      BY <3>1
    <3>. QED BY <3>2
  <2>2. satir'[s].yol[w] = satir[s].yol[w]
    BY <1>0, <2>1
  <2>3. ~SaklamaBekler(<<satir[s].yol[w].tag, s>>)
    <3>1. istek.adr # <<satir[s].yol[w].tag, s>>
      BY <2>1, <2>2, KurbanTip DEF Isabetler, IsabetYollari, Secilen
    <3>. QED BY <3>1 DEF SaklamaBekler
  <2>. QED BY <1>2, <1>3, <2>2, <2>3 DEF TemizTutarli
<1>7. BeklemeTutarli' /\ ResetTutarli'
  BY <1>2 DEF BeklemeTutarli, ResetTutarli
<1>. QED BY <1>1, <1>5, <1>6, <1>7

\* Steps that leave every line, and what clean lines agree with, alone.
LEMMA IInvSatirSabit ==
    ASSUME IInv, TipDogru', satir' = satir,
           durum # "RESET", durum' # "RESET",
           \A s \in Satirlar, w \in Yollar :
              LET y == satir[s].yol[w]
              IN  y.gecerli /\ ~y.kirli => bellek'[<<y.tag, s>>] = bellek[<<y.tag, s>>],
           istek' = istek \/ ~SaklamaMi(istek)
    PROVE  TekIsabet' /\ KirliGecerli' /\ TemizTutarli' /\ ResetTutarli'
<1> USE DEF IInv
<1>1. Kullanimda /\ Kullanimda'
  BY DEF Kullanimda
<1>2. TekIsabet' /\ KirliGecerli' /\ ResetTutarli'
  BY <1>1 DEF TekIsabet, KirliGecerli, ResetTutarli
<1>3. TemizTutarli'
  BY <1>1 DEF TemizTutarli, SaklamaBekler
<1>. QED BY <1>2, <1>3

\* A waiting controller has a valid request that still misses.
LEMMA BekleyenIska ==
    ASSUME IInv, durum \in {"BELLEK_OKU", "BELLEK_YAZ"}
    PROVE  istek.sec /\ ~Isabet /\ istek \in IstekTipi
BY DEF IInv, BeklemeTutarli, TipDogru

\* Every clock edge keeps the inductive invariant.
LEMMA IInvAdim == IInv /\ [Next]_vars => IInv'
<1> SUFFICES ASSUME IInv, [Next]_vars PROVE IInv'
  OBVIOUS
<1>1. TipDogru /\ TipDogru'
  BY TipAdim DEF IInv
<1>2. CASE SatirTemizle
  BY <1>2, IInvSatirTemizle
<1>3. CASE Bosta
  <2>1. TekIsabet' /\ KirliGecerli' /\ TemizTutarli' /\ ResetTutarli'
    BY <1>1, <1>3, IInvSatirSabit DEF Bosta, Devral, SaklamaMi
  <2>2. BeklemeTutarli'
    BY <1>3 DEF Bosta, Devral, BeklemeTutarli
  <2>. QED BY <1>1, <2>1, <2>2 DEF IInv
<1>4. CASE OkuIsabet
  <2>1. TekIsabet' /\ KirliGecerli' /\ TemizTutarli' /\ ResetTutarli'
    BY <1>1, <1>4, IInvSatirSabit DEF OkuIsabet, Devral, YuklemeMi, SaklamaMi
  <2>2. BeklemeTutarli'
    BY <1>4 DEF OkuIsabet, Devral, BeklemeTutarli
  <2>. QED BY <1>1, <2>1, <2>2 DEF IInv
<1>5. CASE YazIsabet
  BY <1>5, IInvYazIsabet
<1>6. CASE YazTemizKurban
  <2>1. /\ KurbanaYaz(TRUE, istek.veri) /\ istek.veri \in Kelime
        /\ durum = "BOY" /\ durum' = "BOY" /\ istek.sec /\ ~Isabet /\ bellek' = bellek
    BY <1>1, <1>6 DEF YazTemizKurban, KelimeSaklama, SaklamaMi, Devral, TipDogru, IstekTipi
  <2>. QED BY <1>1, <2>1, IInvKurbanaYaz
<1>7. CASE KirliKurban
  <2>1. TekIsabet' /\ KirliGecerli' /\ TemizTutarli' /\ ResetTutarli'
    BY <1>1, <1>7, IInvSatirSabit DEF KirliKurban
  <2>2. BeklemeTutarli'
    BY <1>7 DEF KirliKurban, BeklemeTutarli, Isabet, Isabetler, IsabetYollari, KurbanYol, Kurban, Secilen
  <2>. QED BY <1>1, <2>1, <2>2 DEF IInv
<1>8. CASE TemizKurban
  <2>1. TekIsabet' /\ KirliGecerli' /\ TemizTutarli' /\ ResetTutarli'
    BY <1>1, <1>8, IInvSatirSabit DEF TemizKurban
  <2>2. istek.maske # Serit
    BY <1>8, BoyutVarsayimi DEF TemizKurban, KelimeSaklama, SaklamaMi
  <2>3. BeklemeTutarli'
    BY <1>8, <2>2 DEF TemizKurban, BeklemeTutarli, Isabet, Isabetler, IsabetYollari, KurbanYol, Kurban, Secilen
  <2>. QED BY <1>1, <2>1, <2>3 DEF IInv
<1>9. CASE OkuDoldur
  <2>1. iomem_addr = istek.adr /\ bellek[istek.adr] \in Kelime
    BY <1>1, <1>9 DEF IInv, OkuDoldur, BeklemeTutarli, TipDogru
  <2>. QED BY <1>1, <1>9, <2>1, BekleyenIska, IInvKurbanaYaz DEF OkuDoldur
<1>10. CASE YazDoldur
  <2>1. bellek[iomem_addr] \in Kelime
    BY <1>1 DEF TipDogru
  <2>2. Birlestir(bellek[iomem_addr], istek) \in Kelime
    BY <1>1, <2>1, BirlestirTip DEF TipDogru
  <2>3. istek.sec /\ ~Isabet /\ SaklamaMi(istek)
    BY <1>10, BekleyenIska DEF YazDoldur, SaklamaMi
  <2>. QED BY <1>1, <1>10, <2>2, <2>3, IInvKurbanaYaz DEF YazDoldur
<1>11. CASE YazmaIslenir
  <2>1. TekIsabet' /\ KirliGecerli' /\ TemizTutarli' /\ ResetTutarli'
    BY <1>1, <1>11, GeriYazEtki, IInvSatirSabit DEF YazmaIslenir
  <2>2. BeklemeTutarli'
    BY <1>11 DEF IInv, YazmaIslenir, BeklemeTutarli, Isabet, Isabetler, IsabetYollari, KurbanYol, Kurban, Secilen
  <2>. QED BY <1>1, <2>1, <2>2 DEF IInv
<1>12. CASE GeriYazSonraOku
  <2>1. TekIsabet' /\ KirliGecerli' /\ TemizTutarli' /\ ResetTutarli'
    BY <1>1, <1>12, GeriYazEtki, IInvSatirSabit DEF GeriYazSonraOku
  <2>2. bellek'[<<KurbanYol.tag, AdrV(istek.adr)>>] = KurbanYol.veri
    BY <1>12, GeriYazEtki DEF GeriYazSonraOku
  <2>3. BeklemeTutarli'
    BY <1>12, <2>2, BekleyenIska
       DEF GeriYazSonraOku, BeklemeTutarli, Isabet, Isabetler, IsabetYollari, KurbanYol, Kurban, Secilen
  <2>. QED BY <1>1, <2>1, <2>3 DEF IInv
<1>13. CASE GeriYazKelime
  <2>1. KurbanYol.veri \in Kelime
    BY <1>1, KurbanTip DEF YolTipi
  <2>2. KurbanaYaz(TRUE, KurbanYol.veri) /\ durum = "BELLEK_YAZ" /\ durum' = "BOY"
    BY <1>13 DEF GeriYazKelime
  <2>3. \A s \in Satirlar, w \in Yollar :
           LET y == satir[s].yol[w]
           IN  y.gecerli /\ ~y.kirli => bellek'[<<y.tag, s>>] = bellek[<<y.tag, s>>]
    BY <1>13, GeriYazEtki DEF GeriYazKelime
  <2>. QED BY <1>1, <2>1, <2>2, <2>3, BekleyenIska, IInvKurbanaYaz
<1>14. CASE Sifirla
  <2>1. ~Kullanimda' /\ \A s \in Satirlar : ~(s < counter')
    BY <1>14, BoyutVarsayimi DEF Sifirla, Kullanimda, Satirlar
  <2>2. TekIsabet' /\ KirliGecerli' /\ TemizTutarli'
    BY <2>1 DEF TekIsabet, KirliGecerli, TemizTutarli
  <2>3. BeklemeTutarli' /\ ResetTutarli'
    BY <1>14, <2>1 DEF Sifirla, BeklemeTutarli, ResetTutarli
  <2>. QED BY <1>1, <2>2, <2>3 DEF IInv
<1>15. CASE UNCHANGED vars
  BY <1>15 DEF vars, IInv, TipDogru, TekIsabet, KirliGecerli, TemizTutarli, BeklemeTutarli,
               ResetTutarli, Kullanimda, SaklamaBekler, Isabet, Isabetler, IsabetYollari, KurbanYol, Kurban, Secilen
<1>. QED
  BY <1>2, <1>3, <1>4, <1>5, <1>6, <1>7, <1>8, <1>9, <1>10, <1>11, <1>12, <1>13, <1>14, <1>15
     DEF Next, Saat, Cekirdek, BellekYaniti

\* The inductive invariant holds in every reachable state.
THEOREM IInvTeoremi == Spec => []IInv
BY IInvInit, IInvAdim, PTL DEF Spec

\* No request ever hits both ways (hit_yol0 and hit_yol1 are never up together).
THEOREM TekIsabetTeoremi == Spec => []TekIsabet
<1>1. IInv => TekIsabet
  BY DEF IInv
<1>. QED BY <1>1, IInvTeoremi, PTL

\* A line marked clean agrees with the RAM, except under the store being retried.
THEOREM TemizTutarliTeoremi == Spec => []TemizTutarli
<1>1. IInv => TemizTutarli
  BY DEF IInv
<1>. QED BY <1>1, IInvTeoremi, PTL

-----------------------------------------------------------------------------
(* What a step may do *)

\* A dirty line leaves the cache only with its data in the RAM, at every step.
LEMMA KirliKaybolmazAdim ==
    ASSUME IInv, [Next]_vars,
           NEW s \in Satirlar, NEW w \in Yollar,
           durum # "RESET", satir[s].yol[w].kirli, satir'[s].yol[w].tag # satir[s].yol[w].tag
    PROVE  \/ bellek[<<satir[s].yol[w].tag, s>>] = satir[s].yol[w].veri
           \/ bellek'[<<satir[s].yol[w].tag, s>>] = satir[s].yol[w].veri
<1>1. TipDogru
  BY DEF IInv
<1>2. satir' # satir
  OBVIOUS
<1>3. ASSUME NEW k \in BOOLEAN, NEW v \in Kelime, KurbanaYaz(k, v)
      PROVE  s = AdrV(istek.adr) /\ w = Kurban /\ satir[s].yol[w] = KurbanYol
  BY <1>1, <1>3, KurbanaYazEtki DEF KurbanYol, Secilen
<1>4. CASE YazIsabet
  <2>1. s = AdrV(istek.adr) /\ w \in Isabetler
    BY <1>1, <1>4, YazIsabetEtki
  <2>2. satir[s].yol[w].tag = TagV(istek.adr)
    BY <2>1 DEF Isabetler, IsabetYollari, Secilen
  <2>3. satir'[s].yol[w] = [gecerli |-> TRUE, kirli |-> TRUE, tag |-> TagV(istek.adr),
                            veri |-> Birlestir(satir[s].yol[w].veri, istek)]
    BY <1>1, <1>4, <2>1, YazIsabetEtki
  <2>. QED BY <2>2, <2>3
<1>5. CASE YazTemizKurban
  <2>1. istek.veri \in Kelime
    BY <1>1 DEF TipDogru, IstekTipi
  <2>. QED BY <1>3, <1>5, <2>1 DEF YazTemizKurban
<1>6. CASE OkuDoldur
  <2>1. bellek[iomem_addr] \in Kelime
    BY <1>1 DEF TipDogru
  <2>. QED BY <1>3, <1>6, <2>1 DEF OkuDoldur, IInv, BeklemeTutarli
<1>7. CASE YazDoldur
  <2>1. Birlestir(bellek[iomem_addr], istek) \in Kelime
    BY <1>1, BirlestirTip DEF TipDogru
  <2>. QED BY <1>3, <1>7, <2>1 DEF YazDoldur, IInv, BeklemeTutarli
<1>8. CASE GeriYazKelime
  <2>1. KurbanYol.veri \in Kelime
    BY <1>1, KurbanTip DEF YolTipi
  <2>. QED BY <1>3, <1>8, <2>1, GeriYazEtki DEF GeriYazKelime
<1>. QED
  BY <1>2, <1>4, <1>5, <1>6, <1>7, <1>8
     DEF Next, Saat, Cekirdek, BellekYaniti, SatirTemizle, Bosta, OkuIsabet, KirliKurban,
         TemizKurban, YazmaIslenir, GeriYazSonraOku, Sifirla, vars

\* No dirty line is dropped before its write-back (BELLEK_YAZ precedes the takeover).
THEOREM KirliKaybolmazTeoremi == Spec => KirliKaybolmaz
<1> DEFINE A == \A s \in Satirlar, w \in Yollar :
                  LET y == satir[s].yol[w]
                  IN  durum # "RESET" /\ y.kirli /\ satir'[s].yol[w].tag # y.tag
                        => bellek[<<y.tag, s>>] = y.veri \/ bellek'[<<y.tag, s>>] = y.veri
<1>1. IInv /\ [Next]_vars => A
  BY KirliKaybolmazAdim
<1>2. Spec => [][A]_vars
  <2> HIDE DEF A
  <2>. QED BY <1>1, IInvTeoremi, PTL DEF Spec
<1>. QED BY <1>2 DEF KirliKaybolmaz

\* After the memory answered, the held request hits.
LEMMA TekrarIsabetAdim == IInv /\ [Next]_vars => (Bekleyen /\ durum' = "BOY" => Isabet')
<1> SUFFICES ASSUME IInv, [Next]_vars, Bekleyen, durum' = "BOY" PROVE Isabet'
  OBVIOUS
<1>1. TipDogru
  BY DEF IInv
<1>2. ASSUME NEW k \in BOOLEAN, NEW v \in Kelime, KurbanaYaz(k, v), istek' = istek
      PROVE  Isabet'
  <2>1. Kurban \in Yollar /\ AdrV(istek.adr) \in Satirlar
    BY <1>1, KurbanTip
  <2>2. satir'[AdrV(istek.adr)].yol[Kurban] =
          [gecerli |-> TRUE, kirli |-> k, tag |-> TagV(istek.adr), veri |-> v]
    BY <1>1, <1>2, <2>1, KurbanaYazEtki
  <2>3. /\ satir'[AdrV(istek.adr)].yol[Kurban].gecerli
        /\ satir'[AdrV(istek.adr)].yol[Kurban].tag = TagV(istek.adr)
    BY <2>2
  <2>4. Kurban \in IsabetYollari(satir'[AdrV(istek.adr)], TagV(istek.adr))
    BY <2>1, <2>3 DEF IsabetYollari
  <2>. QED BY <1>2, <2>4 DEF Isabet, Isabetler, Secilen
<1>3. CASE OkuDoldur
  <2>1. bellek[iomem_addr] \in Kelime
    BY <1>1 DEF TipDogru
  <2>. QED BY <1>2, <1>3, <2>1 DEF OkuDoldur
<1>4. CASE YazDoldur
  <2>1. Birlestir(bellek[iomem_addr], istek) \in Kelime
    BY <1>1, BirlestirTip DEF TipDogru
  <2>. QED BY <1>2, <1>4, <2>1 DEF YazDoldur
<1>5. CASE GeriYazKelime
  <2>1. KurbanYol.veri \in Kelime
    BY <1>1, KurbanTip DEF YolTipi
  <2>. QED BY <1>2, <1>5, <2>1 DEF GeriYazKelime
<1>. QED
  BY <1>3, <1>4, <1>5
     DEF Bekleyen, Next, Saat, Cekirdek, BellekYaniti, SatirTemizle, Bosta, OkuIsabet, YazIsabet,
         YazTemizKurban, KirliKurban, TemizKurban, YazmaIslenir, GeriYazSonraOku, Sifirla, vars

\* The retry after a fill or a takeover never misses again.
THEOREM TekrarIsabetTeoremi == Spec => TekrarIsabet
<1>1. Spec => [][Bekleyen /\ durum' = "BOY" => Isabet']_vars
  BY TekrarIsabetAdim, IInvTeoremi, PTL DEF Spec
<1>. QED BY <1>1 DEF TekrarIsabet

-----------------------------------------------------------------------------
(* Refinement: the data cache implements the plain memory of module Bellek:    *)
(* initial states map to initial states, and every clock edge to a step of the *)
(* memory or to a stutter.                                                     *)

-----------------------------------------------------------------------------
(* Reading a row *)

\* With one copy of the tag, the row returns that copy.
LEMMA SatirVerisiIsabet ==
    ASSUME NEW r, NEW t, NEW d, NEW w \in Yollar,
           r.yol[w].gecerli, r.yol[w].tag = t,
           r.yol[0].gecerli /\ r.yol[1].gecerli => r.yol[0].tag # r.yol[1].tag
    PROVE  SatirVerisi(r, t, d) = r.yol[w].veri
BY DEF SatirVerisi, IsabetYollari, Yollar

\* With no copy of the tag, the row returns what lies below.
LEMMA SatirVerisiIska ==
    ASSUME NEW r, NEW t, NEW d, \A w \in Yollar : r.yol[w].gecerli => r.yol[w].tag # t
    PROVE  SatirVerisi(r, t, d) = d
BY DEF SatirVerisi, IsabetYollari

\* Rows with the same ways return the same data.
LEMMA SatirVerisiEs ==
    ASSUME NEW r, NEW q, NEW t, NEW d, \A w \in Yollar : r.yol[w] = q.yol[w]
    PROVE  SatirVerisi(r, t, d) = SatirVerisi(q, t, d)
<1>1. 0 \in Yollar /\ 1 \in Yollar
  BY DEF Yollar
<1>2. r.yol[0] = q.yol[0] /\ r.yol[1] = q.yol[1]
  BY <1>1
<1>3. IsabetYollari(r, t) = IsabetYollari(q, t)
  BY DEF IsabetYollari
<1>. QED BY <1>2, <1>3 DEF SatirVerisi

\* The contents of a row are a word if what lies below is.
LEMMA SatirVerisiTip ==
    ASSUME NEW r \in SatirTipi, NEW t, NEW d \in Kelime
    PROVE  SatirVerisi(r, t, d) \in Kelime
<1>1. r.yol[0].veri \in Kelime /\ r.yol[1].veri \in Kelime
  BY DEF SatirTipi, YolTipi, Yollar
<1>. QED BY <1>1 DEF SatirVerisi

\* Every word of the mapped memory is a word.
LEMMA GorunenTip == TipDogru => Gorunen \in [Adres -> Kelime]
<1> SUFFICES ASSUME TipDogru, NEW a \in Adres
             PROVE  /\ Altta(a) \in Kelime
                    /\ Birlestir(Altta(a), istek) \in Kelime
  BY DEF Gorunen
<1>1. Altta(a) \in Kelime
  BY AdresTip, SatirVerisiTip DEF TipDogru, Altta
<1>. QED BY <1>1, BirlestirTip DEF TipDogru

\* A full-word store leaves nothing of the old word.
LEMMA BirlestirTam ==
    ASSUME NEW k, NEW i \in IstekTipi, i.maske = Serit
    PROVE  Birlestir(k, i) = i.veri
BY DEF Birlestir, IstekTipi, Kelime

-----------------------------------------------------------------------------
(* What the steps do to the words below the held request *)

\* Outside RESET, two addresses of one row differ in their tags.
LEMMA AdresEsit ==
    ASSUME NEW a \in Adres, NEW b \in Adres, AdrV(a) = AdrV(b), TagV(a) = TagV(b)
    PROVE  a = b
BY AdresTip

\* A write-back of the victim changes no word the cache shows.
LEMMA GeriYazAltta ==
    ASSUME IInv, durum = "BELLEK_YAZ", satir' = satir, durum' # "RESET",
           bellek' = [bellek EXCEPT ![iomem_addr] = iomem_wdata],
           NEW a \in Adres
    PROVE  Altta(a)' = Altta(a)
<1> DEFINE c == AdrV(istek.adr)
<1>1. TipDogru /\ Kullanimda /\ Kullanimda'
  BY DEF IInv, Kullanimda
<1>2. KurbanYol.kirli /\ iomem_addr = <<KurbanYol.tag, c>>
  BY DEF IInv, BeklemeTutarli
<1>3. c \in Satirlar /\ Kurban \in Yollar /\ KurbanYol = satir[c].yol[Kurban]
  BY <1>1, KurbanTip DEF KurbanYol, Secilen
<1>4. KurbanYol.gecerli
  BY <1>1, <1>2, <1>3 DEF IInv, KirliGecerli
<1>5. a = <<TagV(a), AdrV(a)>> /\ AdrV(a) \in Satirlar
  BY AdresTip
<1>6. CASE a = iomem_addr
  <2>1. AdrV(a) = c /\ TagV(a) = KurbanYol.tag
    BY <1>2, <1>5, <1>6
  <2>2. satir[c].yol[0].gecerli /\ satir[c].yol[1].gecerli => satir[c].yol[0].tag # satir[c].yol[1].tag
    BY <1>1, <1>3 DEF IInv, TekIsabet
  <2>3. \A d : SatirVerisi(satir[c], TagV(a), d) = KurbanYol.veri
    BY <1>3, <1>4, <2>1, <2>2, SatirVerisiIsabet
  <2>. QED BY <1>1, <2>1, <2>3 DEF Altta
<1>7. CASE a # iomem_addr
  BY <1>1, <1>7 DEF Altta, TipDogru
<1>. QED BY <1>6, <1>7

\* Taking over the victim puts the new word under the request's address and leaves
\* every other word the cache shows as it was, provided the RAM has the victim's.
LEMMA KurbanaYazAltta ==
    ASSUME IInv, IInv', NEW k \in BOOLEAN, NEW v \in Kelime, KurbanaYaz(k, v),
           durum # "RESET", durum' # "RESET", ~Isabet,
           KurbanYol.gecerli => bellek'[<<KurbanYol.tag, AdrV(istek.adr)>>] = KurbanYol.veri,
           \A b \in Adres : \/ bellek'[b] = bellek[b]
                            \/ KurbanYol.gecerli /\ b = <<KurbanYol.tag, AdrV(istek.adr)>>,
           NEW a \in Adres
    PROVE  IF a = istek.adr THEN Altta(a)' = v /\ Altta(a) = bellek[a] ELSE Altta(a)' = Altta(a)
<1> DEFINE c == AdrV(istek.adr)
           y == [gecerli |-> TRUE, kirli |-> k, tag |-> TagV(istek.adr), veri |-> v]
<1>1. TipDogru /\ TipDogru' /\ Kullanimda /\ Kullanimda'
  BY DEF IInv, Kullanimda
<1>2. /\ c \in Satirlar /\ Kurban \in Yollar /\ KurbanYol = satir[c].yol[Kurban]
      /\ istek.adr \in Adres
  BY <1>1, KurbanTip DEF KurbanYol, Secilen, TipDogru, IstekTipi
<1>3. \A s \in Satirlar, w \in Yollar :
         satir'[s].yol[w] = IF s = c /\ w = Kurban THEN y ELSE satir[s].yol[w]
  BY <1>1, KurbanaYazEtki
<1>4. \A w \in Yollar : satir[c].yol[w].gecerli => satir[c].yol[w].tag # TagV(istek.adr)
  BY IskaTagi
<1>5. /\ satir[c].yol[0].gecerli /\ satir[c].yol[1].gecerli => satir[c].yol[0].tag # satir[c].yol[1].tag
      /\ satir'[c].yol[0].gecerli /\ satir'[c].yol[1].gecerli => satir'[c].yol[0].tag # satir'[c].yol[1].tag
  BY <1>1, <1>2 DEF IInv, TekIsabet
<1>6. AdrV(a) \in Satirlar /\ a = <<TagV(a), AdrV(a)>>
  BY AdresTip
<1>7. satir'[c].yol[Kurban] = y /\ y.gecerli /\ y.tag = TagV(istek.adr) /\ y.veri = v
  BY <1>2, <1>3
<1> HIDE DEF y
<1>8. CASE a = istek.adr
  <2>1. SatirVerisi(satir'[c], TagV(a), bellek'[a]) = v
    BY <1>2, <1>5, <1>7, <1>8, SatirVerisiIsabet
  <2>2. SatirVerisi(satir[c], TagV(a), bellek[a]) = bellek[a]
    BY <1>4, <1>8, SatirVerisiIska
  <2>. QED BY <1>1, <1>8, <2>1, <2>2 DEF Altta
<1>9. CASE AdrV(a) # c
  <2>1. a # <<KurbanYol.tag, c>> /\ a # istek.adr
    BY <1>6, <1>9
  <2>2. bellek'[a] = bellek[a]
    BY <2>1
  <2>3. \A w \in Yollar : satir'[AdrV(a)].yol[w] = satir[AdrV(a)].yol[w]
    BY <1>3, <1>6, <1>9
  <2>4. SatirVerisi(satir'[AdrV(a)], TagV(a), bellek'[a]) = SatirVerisi(satir[AdrV(a)], TagV(a), bellek[a])
    BY <2>2, <2>3, SatirVerisiEs
  <2>. QED BY <1>1, <2>1, <2>4 DEF Altta
<1>10. CASE AdrV(a) = c /\ a # istek.adr
  <2>1. TagV(a) # TagV(istek.adr)
    BY <1>2, <1>10, AdresEsit
  <2>2. CASE KurbanYol.gecerli /\ KurbanYol.tag = TagV(a)
    <3>1. SatirVerisi(satir[c], TagV(a), bellek[a]) = KurbanYol.veri
      BY <1>2, <1>5, <2>2, SatirVerisiIsabet
    <3>2. bellek'[a] = KurbanYol.veri
      BY <1>6, <1>10, <2>2
    <3>3. \A w \in Yollar : satir'[c].yol[w].gecerli => satir'[c].yol[w].tag # TagV(a)
      <4> SUFFICES ASSUME NEW w \in Yollar, satir'[c].yol[w].gecerli
                   PROVE  satir'[c].yol[w].tag # TagV(a)
        OBVIOUS
      <4>1. CASE w = Kurban
        BY <1>7, <2>1, <4>1
      <4>2. CASE w # Kurban
        BY <1>2, <1>3, <1>5, <2>2, <4>2 DEF Yollar
      <4>. QED BY <4>1, <4>2
    <3>4. SatirVerisi(satir'[c], TagV(a), bellek'[a]) = bellek'[a]
      BY <3>3, SatirVerisiIska
    <3>. QED BY <1>1, <1>10, <3>1, <3>2, <3>4 DEF Altta
  <2>3. CASE ~(KurbanYol.gecerli /\ KurbanYol.tag = TagV(a))
    <3>1. bellek'[a] = bellek[a]
      BY <1>6, <2>3
    <3>2. IsabetYollari(satir'[c], TagV(a)) = IsabetYollari(satir[c], TagV(a))
      <4>1. Kurban \notin IsabetYollari(satir'[c], TagV(a))
        BY <1>7, <2>1 DEF IsabetYollari
      <4>2. Kurban \notin IsabetYollari(satir[c], TagV(a))
        BY <1>2, <2>3 DEF IsabetYollari
      <4>3. \A w \in Yollar : w # Kurban => satir'[c].yol[w] = satir[c].yol[w]
        BY <1>2, <1>3
      <4>. QED BY <4>1, <4>2, <4>3 DEF IsabetYollari
    <3>3. \A w \in IsabetYollari(satir[c], TagV(a)) : satir'[c].yol[w] = satir[c].yol[w]
      <4>1. Kurban \notin IsabetYollari(satir[c], TagV(a))
        BY <1>2, <2>3 DEF IsabetYollari
      <4>. QED BY <1>2, <1>3, <4>1 DEF IsabetYollari
    <3>4. SatirVerisi(satir'[c], TagV(a), bellek'[a]) = SatirVerisi(satir[c], TagV(a), bellek[a])
      <4> DEFINE i == IsabetYollari(satir[c], TagV(a))
      <4>1. i \subseteq {0, 1}
        BY DEF IsabetYollari, Yollar
      <4>. QED BY <3>1, <3>2, <3>3, <4>1 DEF SatirVerisi
    <3>. QED BY <1>1, <1>10, <3>4 DEF Altta
  <2>. QED BY <2>2, <2>3
<1>. QED BY <1>8, <1>9, <1>10

-----------------------------------------------------------------------------
(* Refinement *)

\* The vocabulary of the instance is the vocabulary of this module.
LEMMA SoyutEs ==
    /\ Soyut!Adres = Adres
    /\ Soyut!Kelime = Kelime
    /\ Soyut!Bos = Bos
    /\ Soyut!Istekler = Istekler
    /\ \A i : (Soyut!YuklemeMi(i) <=> YuklemeMi(i)) /\ (Soyut!SaklamaMi(i) <=> SaklamaMi(i))
    /\ \A k, i : Soyut!Birlestir(k, i) = Birlestir(k, i)
<1>1. Soyut!Adres = Adres /\ Soyut!Kelime = Kelime
  BY DEF Soyut!Adres, Soyut!Satirlar, Soyut!Kelime, Adres, Satirlar, Kelime
<1>2. Soyut!OnemsizAdres = OnemsizAdres /\ Soyut!OnemsizKelime = OnemsizKelime
  BY <1>1 DEF Soyut!OnemsizAdres, OnemsizAdres, Soyut!OnemsizKelime, OnemsizKelime
<1>3. Soyut!Bos = Bos
  BY <1>2 DEF Soyut!Bos, Bos
<1>4. \A a : Soyut!Yukleme(a) = Yukleme(a)
  BY <1>2 DEF Soyut!Yukleme, Yukleme
<1>5. \A a, m, v : Soyut!Saklama(a, m, v) = Saklama(a, m, v)
  BY DEF Soyut!Saklama, Saklama
<1>6. Soyut!Istekler = Istekler
  BY <1>1, <1>3, <1>4, <1>5 DEF Soyut!Istekler, Istekler
<1>7. \A i : (Soyut!YuklemeMi(i) <=> YuklemeMi(i)) /\ (Soyut!SaklamaMi(i) <=> SaklamaMi(i))
  BY DEF Soyut!YuklemeMi, YuklemeMi, Soyut!SaklamaMi, SaklamaMi
<1>8. \A k, i : Soyut!Birlestir(k, i) = Birlestir(k, i)
  BY DEF Soyut!Birlestir, Birlestir
<1>. QED BY <1>1, <1>3, <1>6, <1>7, <1>8

\* Power-on: the program sees the RAM.
LEMMA SoyutInit == Init => Soyut!Init
BY TipInit, GorunenTip, SoyutEs DEF Init, Soyut!Init, TipDogru

\* An edge that lets the core go is a step of the plain memory, if the words below
\* then hold what was visible before.
LEMMA SoyutTamamla ==
    ASSUME istek' \in Istekler,
           \A a \in Adres : Altta(a)' = Gorunen[a],
           l1v_veri' = IF YuklemeMi(istek) THEN Gorunen[istek.adr] ELSE l1v_veri
    PROVE  Soyut!Tamamla
<1>1. Gorunen' = [a \in Adres |-> IF SaklamaMi(istek') /\ istek'.adr = a
                                  THEN Birlestir(Gorunen[a], istek') ELSE Gorunen[a]]
  BY DEF Gorunen, SaklamaBekler
<1>2. Gorunen' = Soyut!Uygula(istek')
  BY <1>1, SoyutEs DEF Soyut!Uygula
<1>. QED BY <1>2, SoyutEs DEF Soyut!Tamamla

\* An edge that keeps the request waiting is a stutter, if the words below only
\* change under the store in service, and there only in lanes it writes.
LEMMA SoyutBekle ==
    ASSUME istek' = istek, l1v_veri' = l1v_veri,
           \A a \in Adres : IF SaklamaBekler(a)
                            THEN Birlestir(Altta(a)', istek) = Birlestir(Altta(a), istek)
                            ELSE Altta(a)' = Altta(a)
    PROVE  UNCHANGED Soyut!vars
<1>1. \A a \in Adres : SaklamaBekler(a)' <=> SaklamaBekler(a)
  BY DEF SaklamaBekler
<1>2. Gorunen' = [a \in Adres |-> IF SaklamaBekler(a) THEN Birlestir(Altta(a)', istek)
                                                    ELSE Altta(a)']
  BY <1>1 DEF Gorunen
<1>3. Gorunen' = Gorunen
  BY <1>2 DEF Gorunen
<1>. QED BY <1>3 DEF Soyut!vars

\* Every clock edge out of reset ends a request of the plain memory or is a stutter.
LEMMA SoyutAdim == IInv /\ IInv' /\ [Next]_vars => [~Sifirla => Soyut!Tamamla]_(Soyut!vars)
<1> SUFFICES ASSUME IInv, IInv', [Next]_vars, ~Sifirla
             PROVE  Soyut!Tamamla \/ UNCHANGED Soyut!vars
  OBVIOUS
<1>1. TipDogru /\ TipDogru' /\ istek \in IstekTipi /\ istek.adr \in Adres
  BY DEF IInv, TipDogru, IstekTipi
<1>2. /\ AdrV(istek.adr) \in Satirlar /\ Kurban \in Yollar
      /\ Secilen = satir[AdrV(istek.adr)] /\ KurbanYol = satir[AdrV(istek.adr)].yol[Kurban]
  BY <1>1, KurbanTip DEF KurbanYol, Secilen
<1>3. CASE SatirTemizle
  <2>1. \A a \in Adres : Altta(a)' = Altta(a)
    <3> SUFFICES ASSUME NEW a \in Adres PROVE Altta(a)' = bellek[a] /\ Altta(a) = bellek[a]
      OBVIOUS
    <3>1. Altta(a) = bellek[a] /\ bellek' = bellek
      BY <1>3 DEF SatirTemizle, Altta, Kullanimda
    <3>2. CASE durum' = "RESET"
      BY <3>1, <3>2 DEF Altta, Kullanimda
    <3>3. CASE durum' # "RESET"
      <4>1. counter = SonSatir /\ durum = "RESET"
        BY <1>3, <3>3 DEF SatirTemizle
      <4>2. AdrV(a) \in Satirlar /\ (AdrV(a) < counter \/ AdrV(a) = counter)
        BY <4>1, AdresTip, BoyutVarsayimi DEF SonSatir, Satirlar
      <4>3. \A w \in Yollar : ~satir'[AdrV(a)].yol[w].gecerli
        <5> SUFFICES ASSUME NEW w \in Yollar PROVE ~satir'[AdrV(a)].yol[w].gecerli
          OBVIOUS
        <5>1. CASE AdrV(a) = counter
          <6>1. satir'[AdrV(a)].yol[w] =
                  [gecerli |-> FALSE, kirli |-> FALSE, tag |-> TagV(istek.adr),
                   veri |-> satir[AdrV(a)].yol[w].veri]
            BY <1>1, <1>3, <4>2, <5>1, SatirTemizleEtki
          <6>. QED BY <6>1
        <5>2. CASE AdrV(a) # counter
          <6>1. satir'[AdrV(a)].yol[w] = satir[AdrV(a)].yol[w]
            BY <1>1, <1>3, <4>2, <5>2, SatirTemizleEtki
          <6>. QED BY <4>1, <4>2, <5>2, <6>1 DEF IInv, ResetTutarli
        <5>. QED BY <5>1, <5>2
      <4>4. SatirVerisi(satir'[AdrV(a)], TagV(a), bellek'[a]) = bellek'[a]
        BY <4>3, SatirVerisiIska
      <4>. QED BY <3>1, <3>3, <4>4 DEF Altta, Kullanimda
    <3>. QED BY <3>1, <3>2, <3>3
  <2>2. CASE counter # SonSatir
    BY <1>3, <2>1, <2>2, SoyutBekle DEF SatirTemizle
  <2>3. CASE counter = SonSatir
    <3>1. ~istek.sec
      BY <1>3 DEF SatirTemizle, IInv, ResetTutarli, Bos
    <3>2. \A a \in Adres : Altta(a)' = Gorunen[a]
      BY <2>1, <3>1 DEF Gorunen, SaklamaBekler, SaklamaMi
    <3>. QED BY <1>3, <2>3, <3>1, <3>2, SoyutTamamla DEF SatirTemizle, Birak, YuklemeMi
  <2>. QED BY <2>2, <2>3
<1>4. CASE Bosta
  <2>1. \A a \in Adres : Altta(a)' = Gorunen[a]
    BY <1>4 DEF Bosta, Devral, Altta, Kullanimda, Gorunen, SaklamaBekler, SaklamaMi
  <2>. QED BY <1>4, <2>1, SoyutTamamla DEF Bosta, Birak, YuklemeMi
<1>5. CASE OkuIsabet
  <2>1. \A a \in Adres : Altta(a) = Gorunen[a] /\ Altta(a)' = Gorunen[a]
    BY <1>5 DEF OkuIsabet, Devral, Altta, Kullanimda, Gorunen, SaklamaBekler, SaklamaMi, YuklemeMi
  <2>2. l1v_veri' = Altta(istek.adr)
    BY <1>2, <1>5 DEF OkuIsabet, Altta, Kullanimda, Isabet, Isabetler, SatirVerisi
  <2>. QED BY <1>1, <1>5, <2>1, <2>2, SoyutTamamla DEF OkuIsabet, Birak
<1>6. CASE YazIsabet
  <2>1. durum = "BOY" /\ durum' = "BOY" /\ bellek' = bellek /\ Kullanimda /\ Kullanimda'
    BY <1>6 DEF YazIsabet, Devral, Kullanimda
  <2>2. PICK w \in Yollar : w \in Isabetler
    BY <1>6 DEF YazIsabet, Isabet, Isabetler, IsabetYollari
  <2>3. satir[AdrV(istek.adr)].yol[w].gecerli /\ satir[AdrV(istek.adr)].yol[w].tag = TagV(istek.adr)
    BY <1>2, <2>2 DEF Isabetler, IsabetYollari
  <2>4. \A s \in Satirlar : satir[s].yol[0].gecerli /\ satir[s].yol[1].gecerli
                              => satir[s].yol[0].tag # satir[s].yol[1].tag
    BY <2>1 DEF IInv, TekIsabet
  <2>5. Isabetler = {w}
    BY <1>2, <2>2, <2>3, <2>4 DEF Isabetler, IsabetYollari, Yollar
  <2>6. \A s \in Satirlar, x \in Yollar :
           satir'[s].yol[x] =
             IF s = AdrV(istek.adr) /\ x = w
             THEN [gecerli |-> TRUE, kirli |-> TRUE, tag |-> TagV(istek.adr),
                   veri |-> Birlestir(satir[s].yol[x].veri, istek)]
             ELSE satir[s].yol[x]
    BY <1>1, <1>6, <2>5, YazIsabetEtki
  <2>7. \A s \in Satirlar : satir'[s].yol[0].gecerli /\ satir'[s].yol[1].gecerli
                              => satir'[s].yol[0].tag # satir'[s].yol[1].tag
    BY <2>1 DEF IInv, TekIsabet
  <2>8. ASSUME NEW a \in Adres PROVE Altta(a)' = Gorunen[a]
    <3> DEFINE s == AdrV(a)
    <3>1. s \in Satirlar
      BY AdresTip
    <3>2. CASE a = istek.adr
      <4>1. Altta(a) = satir[s].yol[w].veri
        BY <2>1, <2>3, <2>4, <3>1, <3>2, SatirVerisiIsabet DEF Altta
      <4>2. satir'[s].yol[w] = [gecerli |-> TRUE, kirli |-> TRUE, tag |-> TagV(istek.adr),
                                veri |-> Birlestir(satir[s].yol[w].veri, istek)]
        BY <2>6, <3>1, <3>2
      <4>3. Altta(a)' = Birlestir(satir[s].yol[w].veri, istek)
        <5>1. /\ satir'[s].yol[w].gecerli /\ satir'[s].yol[w].tag = TagV(a)
              /\ satir'[s].yol[w].veri = Birlestir(satir[s].yol[w].veri, istek)
          BY <3>2, <4>2
        <5>2. SatirVerisi(satir'[s], TagV(a), bellek'[a]) = satir'[s].yol[w].veri
          BY <2>2, <2>7, <3>1, <5>1, SatirVerisiIsabet
        <5>. QED BY <2>1, <5>1, <5>2 DEF Altta
      <4>. QED BY <1>6, <3>2, <4>1, <4>3 DEF YazIsabet, Gorunen, SaklamaBekler
    <3>3. CASE a # istek.adr
      <4>1. Gorunen[a] = Altta(a)
        BY <3>3 DEF Gorunen, SaklamaBekler
      <4>2. CASE s # AdrV(istek.adr)
        <5>1. \A x \in Yollar : satir'[s].yol[x] = satir[s].yol[x]
          BY <2>6, <3>1, <4>2
        <5>. QED BY <2>1, <4>1, <5>1, SatirVerisiEs DEF Altta
      <4>3. CASE s = AdrV(istek.adr)
        <5>1. TagV(a) # TagV(istek.adr)
          BY <1>1, <3>3, <4>3, AdresEsit
        <5>2. satir'[s].yol[w].tag = TagV(istek.adr) /\ satir[s].yol[w].tag = TagV(istek.adr)
          <6>1. satir'[s].yol[w] = [gecerli |-> TRUE, kirli |-> TRUE, tag |-> TagV(istek.adr),
                                    veri |-> Birlestir(satir[s].yol[w].veri, istek)]
            BY <2>2, <2>6, <3>1, <4>3
          <6>. QED BY <2>3, <4>3, <6>1
        <5>3. \A x \in Yollar : x # w => satir'[s].yol[x] = satir[s].yol[x]
          BY <2>6, <3>1
        <5>4. IsabetYollari(satir'[s], TagV(a)) = IsabetYollari(satir[s], TagV(a))
          BY <5>1, <5>2, <5>3 DEF IsabetYollari
        <5>5. \A x \in IsabetYollari(satir[s], TagV(a)) : satir'[s].yol[x] = satir[s].yol[x]
          BY <5>1, <5>2, <5>3 DEF IsabetYollari
        <5>6. IsabetYollari(satir[s], TagV(a)) \subseteq {0, 1}
          BY DEF IsabetYollari, Yollar
        <5>7. SatirVerisi(satir'[s], TagV(a), bellek[a]) = SatirVerisi(satir[s], TagV(a), bellek[a])
          BY <5>4, <5>5, <5>6 DEF SatirVerisi
        <5>. QED BY <2>1, <4>1, <5>7 DEF Altta
      <4>. QED BY <4>2, <4>3
    <3>. QED BY <3>2, <3>3
  <2>. QED BY <1>6, <2>8, SoyutTamamla DEF YazIsabet, Birak, Devral, SaklamaMi, YuklemeMi
<1>7. ASSUME YazTemizKurban PROVE Soyut!Tamamla
  <2>1. /\ KurbanaYaz(TRUE, istek.veri) /\ istek.veri \in Kelime /\ bellek' = bellek
        /\ durum = "BOY" /\ durum' = "BOY" /\ ~Isabet /\ SaklamaMi(istek) /\ istek.maske = Serit
    BY <1>1, <1>7 DEF YazTemizKurban, KelimeSaklama, Devral, IstekTipi
  <2>2. KurbanYol.gecerli => bellek'[<<KurbanYol.tag, AdrV(istek.adr)>>] = KurbanYol.veri
    <3>1. KurbanYol.gecerli => ~SaklamaBekler(<<KurbanYol.tag, AdrV(istek.adr)>>)
      <4>1. KurbanYol.gecerli => KurbanYol.tag # TagV(istek.adr)
        BY <1>2, <2>1, IskaTagi
      <4>. QED BY <1>1, <4>1, AdresTip DEF SaklamaBekler
    <3>2. ~KurbanYol.kirli
      BY <1>7 DEF YazTemizKurban
    <3>. QED BY <1>2, <2>1, <3>1, <3>2 DEF IInv, TemizTutarli, Kullanimda
  <2>3. \A a \in Adres : IF a = istek.adr THEN Altta(a)' = istek.veri ELSE Altta(a)' = Altta(a)
    BY <2>1, <2>2, KurbanaYazAltta
  <2>4. \A a \in Adres : Altta(a)' = Gorunen[a]
    BY <1>1, <2>1, <2>3, BirlestirTam DEF Gorunen, SaklamaBekler
  <2>. QED BY <1>7, <2>1, <2>4, SoyutTamamla DEF YazTemizKurban, Birak, Devral, SaklamaMi, YuklemeMi
<1>8. CASE KirliKurban \/ TemizKurban
  <2>1. \A a \in Adres : Altta(a)' = Altta(a)
    BY <1>8 DEF KirliKurban, TemizKurban, Altta, Kullanimda
  <2>. QED BY <1>8, <2>1, SoyutBekle DEF KirliKurban, TemizKurban
<1>9. ASSUME durum = "BELLEK_OKU" PROVE
         /\ KurbanYol.gecerli => bellek[<<KurbanYol.tag, AdrV(istek.adr)>>] = KurbanYol.veri
         /\ iomem_addr = istek.adr /\ ~Isabet /\ istek.sec
  <2>1. /\ iomem_addr = istek.adr /\ ~Isabet /\ istek.sec
        /\ KurbanYol.kirli => bellek[<<KurbanYol.tag, AdrV(istek.adr)>>] = KurbanYol.veri
    BY <1>9 DEF IInv, BeklemeTutarli
  <2>2. KurbanYol.gecerli => ~SaklamaBekler(<<KurbanYol.tag, AdrV(istek.adr)>>)
    <3>1. KurbanYol.gecerli => KurbanYol.tag # TagV(istek.adr)
      BY <1>2, <2>1, IskaTagi
    <3>. QED BY <1>1, <3>1, AdresTip DEF SaklamaBekler
  <2>. QED BY <1>2, <1>9, <2>1, <2>2 DEF IInv, TemizTutarli, Kullanimda
<1>10. CASE OkuDoldur
  <2>1. bellek[istek.adr] \in Kelime
    BY <1>1 DEF TipDogru
  <2>2. \A a \in Adres : Altta(a)' = Altta(a)
    BY <1>9, <1>10, <2>1, KurbanaYazAltta DEF OkuDoldur
  <2>. QED BY <1>10, <2>2, SoyutBekle DEF OkuDoldur
<1>11. CASE YazDoldur
  <2>1. Birlestir(bellek[iomem_addr], istek) \in Kelime
    BY <1>1, BirlestirTip DEF TipDogru
  <2>2. \A a \in Adres : IF a = istek.adr
                         THEN /\ Altta(a)' = Birlestir(bellek[a], istek)
                              /\ Altta(a) = bellek[a]
                         ELSE Altta(a)' = Altta(a)
    BY <1>9, <1>11, <2>1, KurbanaYazAltta DEF YazDoldur
  <2>3. \A a \in Adres : IF SaklamaBekler(a)
                         THEN Birlestir(Altta(a)', istek) = Birlestir(Altta(a), istek)
                         ELSE Altta(a)' = Altta(a)
    BY <1>9, <1>11, <2>2, BirlestirTekrar DEF SaklamaBekler, SaklamaMi, YazDoldur
  <2>. QED BY <1>11, <2>3, SoyutBekle DEF YazDoldur
<1>12. CASE YazmaIslenir
  <2>1. \A a \in Adres : Altta(a)' = Altta(a)
    BY <1>12, GeriYazAltta DEF YazmaIslenir
  <2>. QED BY <1>12, <2>1, SoyutBekle DEF YazmaIslenir
<1>13. CASE GeriYazSonraOku
  <2>1. \A a \in Adres : Altta(a)' = Altta(a)
    BY <1>13, GeriYazAltta DEF GeriYazSonraOku
  <2>. QED BY <1>13, <2>1, SoyutBekle DEF GeriYazSonraOku
<1>14. CASE GeriYazKelime
  <2>1. /\ iomem_addr = <<KurbanYol.tag, AdrV(istek.adr)>> /\ KurbanYol.kirli
        /\ ~Isabet /\ istek.sec /\ durum = "BELLEK_YAZ"
    BY <1>14 DEF GeriYazKelime, IInv, BeklemeTutarli
  <2>2. KurbanYol.gecerli
    BY <1>2, <2>1 DEF IInv, KirliGecerli, Kullanimda
  <2>3. KurbanYol.veri \in Kelime
    BY <1>1, KurbanTip DEF YolTipi
  <2>4. bellek'[<<KurbanYol.tag, AdrV(istek.adr)>>] = KurbanYol.veri
    BY <1>14, <2>1, GeriYazEtki DEF GeriYazKelime
  <2>5. \A b \in Adres : bellek'[b] = bellek[b] \/ b = <<KurbanYol.tag, AdrV(istek.adr)>>
    BY <1>1, <1>14, <2>1 DEF GeriYazKelime, TipDogru
  <2>6. \A a \in Adres : a # istek.adr => Altta(a)' = Altta(a)
    BY <1>14, <2>1, <2>2, <2>3, <2>4, <2>5, KurbanaYazAltta DEF GeriYazKelime
  <2>7. SaklamaMi(istek) /\ istek.maske = Serit
    BY <1>14, <2>1, BoyutVarsayimi DEF GeriYazKelime, SaklamaMi
  <2>8. \A a \in Adres : IF SaklamaBekler(a)
                         THEN Birlestir(Altta(a)', istek) = Birlestir(Altta(a), istek)
                         ELSE Altta(a)' = Altta(a)
    BY <1>1, <2>6, <2>7, BirlestirTam DEF SaklamaBekler
  <2>. QED BY <1>14, <2>8, SoyutBekle DEF GeriYazKelime
<1>15. CASE UNCHANGED vars
  BY <1>15 DEF vars, Soyut!vars, Gorunen, SaklamaBekler, Altta, Kullanimda
<1>. QED
  BY <1>3, <1>4, <1>5, <1>6, <1>7, <1>8, <1>10, <1>11, <1>12, <1>13, <1>14, <1>15
     DEF Next, Saat, Cekirdek, BellekYaniti

\* A reset of the cache is one of the plain memory.
LEMMA SoyutSifirla == ASSUME IInv, IInv', Sifirla PROVE Soyut!Sifirla
<1>1. (TipDogru => Gorunen \in [Adres -> Kelime])'
  BY GorunenTip, PTL
<1>. QED BY <1>1, SoyutEs DEF IInv, Sifirla, Soyut!Sifirla

\* The cache, with its fills, write-backs, retries and resets, is the plain memory
\* of module Bellek for every cache geometry, word and set of masks.
THEOREM SoyutTeoremi == Spec => SoyutSpec
<1>1. IInv /\ IInv' /\ [Next]_vars => [Soyut!Next]_(Soyut!vars)
  BY SoyutAdim, SoyutSifirla DEF Soyut!Next
<1>. QED
  BY <1>1, SoyutInit, SoyutAdim, IInvTeoremi, PTL DEF Spec, Soyut!Spec, SoyutSpec

-----------------------------------------------------------------------------
(* Refinement: on the memory port the cache is VeriKapisi. *)

\* The requests of the interface, written out.
LEMMA KapiEs ==
    /\ \A t : Kapi!Sade(t) = [tur |-> t, adr |-> OnemsizAdres, kurban |-> OnemsizAdres,
                              veri |-> OnemsizKelime]
    /\ \A a : Kapi!Okuma(a) = [tur |-> "oku", adr |-> a, kurban |-> OnemsizAdres,
                               veri |-> OnemsizKelime]
BY DEF Kapi!Sade, Kapi!Okuma

\* A request that writes its victim back: the victim is another line of its row.
LEMMA KapiYazar ==
    ASSUME IInv, istek.sec, durum \in {"BOY", "BELLEK_YAZ"}, ~Isabet, KurbanYol.kirli
    PROVE  LET g == IF KelimeSaklama THEN "yaz" ELSE "yazoku"
               k == <<KurbanYol.tag, AdrV(istek.adr)>>
           IN  /\ KapiIstegi = [tur |-> g, adr |-> istek.adr, kurban |-> k, veri |-> KurbanYol.veri]
               /\ KapiIstegi \in Kapi!Istekler
<1> DEFINE g == IF KelimeSaklama THEN "yaz" ELSE "yazoku"
           k == <<KurbanYol.tag, AdrV(istek.adr)>>
           r == [tur |-> g, adr |-> istek.adr, kurban |-> k, veri |-> KurbanYol.veri]
<1>1. TipDogru /\ istek.adr \in Adres
  BY DEF IInv, TipDogru, IstekTipi
<1>2. KurbanYol \in YolTipi /\ Kurban \in Yollar /\ KurbanYol = satir[AdrV(istek.adr)].yol[Kurban]
  BY <1>1, KurbanTip DEF KurbanYol, Secilen
<1>3. Gereken = g /\ g \in {"yaz", "yazoku"}
  BY DEF Gereken
<1>4. KapiIstegi = r
  BY <1>3 DEF KapiIstegi
<1>5. k \in Adres /\ KurbanYol.veri \in Kelime
  BY <1>1, <1>2, KurbanTip DEF YolTipi, Adres
<1>6. k # istek.adr
  <2>1. KurbanYol.gecerli
    BY <1>1, <1>2, KurbanTip DEF IInv, KirliGecerli, Kullanimda
  <2>2. KurbanYol.tag # TagV(istek.adr)
    BY <1>2, <2>1, IskaTagi
  <2>. QED BY <1>1, <2>2, KurbanTip
<1> HIDE DEF g, k
<1>7. r \in Kapi!IstekTipi /\ r.tur \in {"yazoku", "yaz"} /\ r.adr # r.kurban
  BY <1>1, <1>3, <1>5, <1>6 DEF Kapi!IstekTipi
<1>8. r \in Kapi!Istekler
  <2> HIDE DEF r
  <2>. QED BY <1>7 DEF Kapi!Istekler
<1>. QED BY <1>4, <1>8 DEF g, k

\* The other requests.
LEMMA KapiSade ==
    /\ ~istek.sec => KapiIstegi = Kapi!Sade("yok")
    /\ istek.sec /\ durum = "BELLEK_OKU" => KapiIstegi = Kapi!Okuma(istek.adr)
    /\ istek.sec /\ durum # "BELLEK_OKU" /\ (Isabet \/ (KelimeSaklama /\ ~KurbanYol.kirli))
          => KapiIstegi = Kapi!Sade("isabet")
    /\ istek.sec /\ durum # "BELLEK_OKU" /\ ~Isabet /\ ~KelimeSaklama /\ ~KurbanYol.kirli
          => KapiIstegi = Kapi!Okuma(istek.adr)
<1>1. ASSUME ~istek.sec PROVE KapiIstegi = Kapi!Sade("yok")
  <2>1. Gereken = "yok"
    BY <1>1 DEF Gereken
  <2>. QED BY <2>1, KapiEs DEF KapiIstegi
<1>2. ASSUME istek.sec, \/ durum = "BELLEK_OKU"
                        \/ ~Isabet /\ ~KelimeSaklama /\ ~KurbanYol.kirli
      PROVE  KapiIstegi = Kapi!Okuma(istek.adr)
  <2>1. Gereken = "oku"
    BY <1>2 DEF Gereken
  <2>. QED BY <2>1, KapiEs DEF KapiIstegi
<1>3. ASSUME istek.sec, durum # "BELLEK_OKU", Isabet \/ (KelimeSaklama /\ ~KurbanYol.kirli)
      PROVE  KapiIstegi = Kapi!Sade("isabet")
  <2>1. Gereken = "isabet"
    BY <1>3 DEF Gereken
  <2>. QED BY <2>1, KapiEs DEF KapiIstegi
<1>. QED BY <1>1, <1>2, <1>3

\* What the core presents to a cache that is ready is a request of the interface.
LEMMA KapiIstekTip == IInv /\ durum = "BOY" => KapiIstegi \in Kapi!Istekler
<1> SUFFICES ASSUME IInv, durum = "BOY" PROVE KapiIstegi \in Kapi!Istekler
  OBVIOUS
<1>1. istek.adr \in Adres
  BY DEF IInv, TipDogru, IstekTipi
<1>2. /\ Kapi!Sade("yok") \in Kapi!Istekler /\ Kapi!Sade("isabet") \in Kapi!Istekler
      /\ Kapi!Okuma(istek.adr) \in Kapi!Istekler
  BY <1>1 DEF Kapi!Istekler
<1>3. CASE ~istek.sec
  BY <1>2, <1>3, KapiSade
<1>4. CASE istek.sec /\ ~Isabet /\ KurbanYol.kirli
  BY <1>4, KapiYazar
<1>5. CASE istek.sec /\ (Isabet \/ ~KurbanYol.kirli)
  BY <1>2, <1>5, KapiSade
<1>. QED BY <1>3, <1>4, <1>5

\* Power-on: nothing on the port, nothing requested.
LEMMA KapiInit == Init => Kapi!Init
BY TipInit, KapiSade DEF Init, TipDogru, Bos, Kapi!Init

\* An answer after which the request hits.
LEMMA KapiYanit ==
    ASSUME durum' = "BOY", istek' = istek, istek.sec, Isabet'
    PROVE  KapiIstegi' = Kapi!Sade("isabet")
<1>1. (istek.sec /\ durum # "BELLEK_OKU" /\ (Isabet \/ (KelimeSaklama /\ ~KurbanYol.kirli))
         => KapiIstegi = Kapi!Sade("isabet"))'
  BY KapiSade, PTL
<1>. QED BY <1>1, KapiEs

\* Every clock edge out of reset is a step of the interface or a stutter.
LEMMA KapiAdim == IInv /\ IInv' /\ [Next]_vars => [~Sifirla => Kapi!Calis]_(Kapi!vars)
<1> SUFFICES ASSUME IInv, IInv', [Next]_vars, ~Sifirla
             PROVE  Kapi!Calis \/ UNCHANGED Kapi!vars
  OBVIOUS
<1>1. (IInv /\ durum = "BOY" => KapiIstegi \in Kapi!Istekler)'
  BY KapiIstekTip, PTL
<1>2. (~istek.sec => KapiIstegi = Kapi!Sade("yok"))'
  BY KapiSade, PTL
<1>3. (istek.sec /\ durum = "BELLEK_OKU" => KapiIstegi = Kapi!Okuma(istek.adr))'
  BY KapiSade, PTL
<1>4. \A t : Kapi!Sade(t).tur = t
  BY KapiEs
<1>5. CASE SatirTemizle
  <2>1. KapiIstegi = Kapi!Sade("yok") /\ durum = "RESET" /\ ~istek.sec
    BY <1>5, KapiSade DEF SatirTemizle, IInv, ResetTutarli, Bos
  <2>2. CASE counter = SonSatir
    BY <1>1, <1>5, <2>1, <2>2 DEF SatirTemizle, Kapi!Basla, Kapi!Calis
  <2>3. CASE counter # SonSatir
    <3>1. KapiIstegi' = KapiIstegi
      BY <1>2, <1>5, <2>1, <2>3, KapiEs DEF SatirTemizle
    <3>. QED BY <1>5, <2>3, <3>1 DEF SatirTemizle, Kapi!vars
  <2>. QED BY <2>2, <2>3
<1>6. CASE Cekirdek
  <2>1. durum = "BOY" /\ durum' = "BOY" /\ iomem_addr' = iomem_addr /\ iomem_wdata' = iomem_wdata
    BY <1>6 DEF Cekirdek, Bosta, OkuIsabet, YazIsabet, YazTemizKurban, Devral
  <2>2. ~istek.sec \/ (istek.sec /\ (Isabet \/ (KelimeSaklama /\ ~KurbanYol.kirli)))
    BY <1>6 DEF Cekirdek, Bosta, OkuIsabet, YazIsabet, YazTemizKurban, YuklemeMi, SaklamaMi,
                KelimeSaklama
  <2>3. KapiIstegi.tur \in {"yok", "isabet"}
    BY <1>4, <2>1, <2>2, KapiSade
  <2>. QED BY <1>1, <2>1, <2>3 DEF Kapi!Birak, Kapi!Calis
<1>7. CASE KirliKurban
  <2>1. KapiIstegi' = KapiIstegi
    BY <1>7 DEF KirliKurban, KapiIstegi, Gereken, Isabet, Isabetler, IsabetYollari, KelimeSaklama,
                KurbanYol, Kurban, Secilen
  <2>2. /\ KapiIstegi.tur \in {"yazoku", "yaz"}
        /\ KapiIstegi.kurban = <<KurbanYol.tag, AdrV(istek.adr)>>
        /\ KapiIstegi.veri = KurbanYol.veri
    BY <1>7, KapiYazar DEF KirliKurban
  <2>. QED BY <1>7, <2>1, <2>2 DEF KirliKurban, Kapi!GeriYaz, Kapi!Calis
<1>8. CASE TemizKurban
  <2>1. KapiIstegi = Kapi!Okuma(istek.adr)
    BY <1>8, KapiSade DEF TemizKurban
  <2>2. KapiIstegi' = KapiIstegi
    BY <1>3, <1>8, <2>1, KapiEs DEF TemizKurban
  <2>3. KapiIstegi.tur = "oku" /\ KapiIstegi.adr = istek.adr
    BY <2>1, KapiEs
  <2>. QED BY <1>8, <2>2, <2>3 DEF TemizKurban, Kapi!Oku, Kapi!Calis
<1>9. CASE OkuDoldur \/ YazDoldur
  <2>1. /\ durum = "BELLEK_OKU" /\ durum' = "BOY" /\ istek' = istek
        /\ iomem_addr' = iomem_addr /\ iomem_wdata' = iomem_wdata
    BY <1>9 DEF OkuDoldur, YazDoldur
  <2>2. istek.sec /\ iomem_addr = istek.adr
    BY <2>1 DEF IInv, BeklemeTutarli
  <2>3. Isabet'
    BY <2>1, TekrarIsabetAdim DEF Bekleyen
  <2>4. KapiIstegi = Kapi!Okuma(iomem_addr) /\ KapiIstegi' = Kapi!Sade("isabet")
    BY <2>1, <2>2, <2>3, KapiSade, KapiYanit
  <2>. QED BY <2>1, <2>4 DEF Kapi!Okundu, Kapi!Calis
<1>10. CASE YazmaIslenir
  BY <1>10 DEF YazmaIslenir, Kapi!vars, KapiIstegi, Gereken, Isabet, Isabetler, IsabetYollari,
               KelimeSaklama, KurbanYol, Kurban, Secilen
<1>11. CASE GeriYazSonraOku \/ GeriYazKelime
  <2>1. durum = "BELLEK_YAZ" /\ istek' = istek /\ iomem_wdata' = iomem_wdata
    BY <1>11 DEF GeriYazSonraOku, GeriYazKelime
  <2>2. /\ istek.sec /\ ~Isabet /\ KurbanYol.kirli
        /\ iomem_addr = <<KurbanYol.tag, AdrV(istek.adr)>> /\ iomem_wdata = KurbanYol.veri
    BY <2>1 DEF IInv, BeklemeTutarli
  <2>3. /\ KapiIstegi.tur = IF KelimeSaklama THEN "yaz" ELSE "yazoku"
        /\ KapiIstegi.adr = istek.adr
        /\ <<iomem_addr, iomem_wdata>> = <<KapiIstegi.kurban, KapiIstegi.veri>>
    BY <2>1, <2>2, KapiYazar
  <2>4. CASE GeriYazSonraOku
    <3>1. ~KelimeSaklama
      BY <2>4 DEF GeriYazSonraOku, KelimeSaklama
    <3>2. KapiIstegi' = Kapi!Okuma(istek.adr)
      BY <1>3, <2>1, <2>2, <2>4, KapiEs DEF GeriYazSonraOku
    <3>. QED BY <2>1, <2>3, <2>4, <3>1, <3>2 DEF GeriYazSonraOku, Kapi!YazildiOku, Kapi!Calis
  <2>5. CASE GeriYazKelime
    <3>1. KelimeSaklama
      BY <2>2, <2>5, BoyutVarsayimi DEF GeriYazKelime, KelimeSaklama, SaklamaMi
    <3>2. durum' = "BOY" /\ iomem_addr' = iomem_addr
      BY <2>5 DEF GeriYazKelime
    <3>3. Isabet'
      BY <2>1, <3>2, TekrarIsabetAdim DEF Bekleyen
    <3>4. KapiIstegi' = Kapi!Sade("isabet")
      BY <2>1, <2>2, <3>2, <3>3, KapiYanit
    <3>. QED BY <2>1, <2>3, <3>1, <3>2, <3>4 DEF Kapi!Yazildi, Kapi!Calis
  <2>. QED BY <1>11, <2>4, <2>5
<1>12. CASE UNCHANGED vars
  BY <1>12 DEF vars, Kapi!vars, KapiIstegi, Gereken, Isabet, Isabetler, IsabetYollari,
               KelimeSaklama, KurbanYol, Kurban, Secilen
<1>. QED
  BY <1>5, <1>6, <1>7, <1>8, <1>9, <1>10, <1>11, <1>12 DEF Next, Saat, BellekYaniti

\* A reset of the cache is one of the interface.
LEMMA KapiSifirla == ASSUME Sifirla PROVE Kapi!Sifirla
<1>1. (~istek.sec => KapiIstegi = Kapi!Sade("yok"))'
  BY KapiSade, PTL
<1>2. KapiIstegi' = Kapi!Sade("yok")
  BY <1>1, KapiEs DEF Sifirla, Bos
<1>. QED BY <1>2 DEF Sifirla, Kapi!Sifirla

\* The cache implements its interface to the memory, for every geometry, word and set of
\* masks: what BellekSistemi takes a request to need is what the lines of the row need.
THEOREM KapiTeoremi == Spec => KapiSpec
<1>1. IInv /\ IInv' /\ [Next]_vars => [Kapi!Next]_(Kapi!vars)
  BY KapiAdim, KapiSifirla DEF Kapi!Next
<1>. QED
  BY <1>1, KapiInit, KapiAdim, IInvTeoremi, PTL DEF Spec, Kapi!Spec, KapiSpec

=============================================================================
