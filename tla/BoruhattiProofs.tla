-------------------------- MODULE BoruhattiProofs ---------------------------
(* The proofs about Boruhatti: its inductive invariant, and that the pipeline     *)
(* implements the machine of Mimari, for every instruction set, every arithmetic,  *)
(* every number of registers and addresses.                                        *)
EXTENDS Boruhatti, TLAPS

\* The inputs of a cycle: what the cache answers and the predictor says counts only when
\* the fetch moves.
Girdi(hazir, bit, veri, b, on) ==
    /\ hazir \in BOOLEAN /\ bit \in BOOLEAN /\ veri \in Veriler
    /\ ~GtrDurdur(hazir, bit) => b \in Program[ps] /\ on \in Ongorular(b)

\* The bubble is an instruction too, of no effect.
LEMMA NopTipi ==
    /\ Nop \in BuyrukTipi
    /\ Nop.birim = "amb" /\ Nop.dal = "yok" /\ Nop.yaz = FALSE
    /\ Buyruklar \cup {Nop} \subseteq BuyrukTipi
    /\ YOK \notin Buyruklar
BY BuyrukVarsayimi

\* Addresses stay addresses when they are counted on.
LEMMA PsArtmisTipi ==
    ASSUME NEW b \in BuyrukTipi, NEW p \in Ps
    PROVE  PsArtmis(b, p) \in Ps
<1>1. PsSayisi \in Nat /\ PsSayisi > 0
  BY DegerVarsayimi
<1>2. b.boy \in {1, 2} /\ p \in Nat
  BY <1>1 DEF BuyrukTipi, Ps
<1> QED
  BY <1>1, <1>2 DEF PsArtmis, Ps

\* What is fetched is an instruction.
LEMMA GirdiTipi ==
    ASSUME IInv, NEW hazir, NEW bit, NEW veri, NEW b, NEW on,
           Girdi(hazir, bit, veri, b, on), ~GtrDurdur(hazir, bit)
    PROVE  b \in Buyruklar /\ on \in Ongorular(b)
<1>1. ps \in Ps
  BY DEF IInv, TipDogru
<1>2. Program[ps] \subseteq Buyruklar
  BY <1>1, BuyrukVarsayimi
<1> QED
  BY <1>2 DEF Girdi

\* What the predictor says has the right type, and an instruction that is no jump is not
\* said to jump.
LEMMA OngoruTipi ==
    ASSUME NEW b \in Buyruklar, NEW on \in Ongorular(b)
    PROVE  /\ on.atlar \in BOOLEAN /\ on.ps \in Ps
           /\ b.dal = "yok" => on.atlar = FALSE
BY DEF Ongorular

\* Every step but a reset is a cycle with some input.
LEMMA AdimCevrim ==
    ASSUME Next, ~Sifirla
    PROVE  \E hazir, bit, veri, b, on :
               Girdi(hazir, bit, veri, b, on) /\ Cevrim(hazir, bit, veri, b, on)
<1>1. CASE Ilerle
  BY <1>1 DEF Ilerle, Girdi
<1>2. CASE GetirBekler
  <2>1. PICK bit \in BOOLEAN, veri \in Veriler : Cevrim(FALSE, bit, veri, Nop, Ongorusuz)
    BY <1>2 DEF GetirBekler
  <2>2. GtrDurdur(FALSE, bit)
    BY DEF GtrDurdur
  <2>3. Girdi(FALSE, bit, veri, Nop, Ongorusuz)
    BY <2>2 DEF Girdi
  <2> QED
    BY <2>1, <2>3
<1>3. CASE YurutBekler
  <2>1. PICK veri \in Veriler : Cevrim(TRUE, FALSE, veri, Nop, Ongorusuz)
    BY <1>3 DEF YurutBekler
  <2>2. GtrDurdur(TRUE, FALSE)
    BY <1>3 DEF YurutBekler, GtrDurdur
  <2>3. Girdi(TRUE, FALSE, veri, Nop, Ongorusuz)
    BY <2>2 DEF Girdi
  <2> QED
    BY <2>1, <2>3
<1> QED
  BY <1>1, <1>2, <1>3 DEF Next

-----------------------------------------------------------------------------
(* Values *)

\* The instruction in execute is known, and only a real one writes.
LEMMA YrtTipi ==
    ASSUME IInv
    PROVE  /\ yrt_buyruk \in BuyrukTipi /\ cyo_buyruk \in BuyrukTipi
           /\ yrt_buyruk \in Buyruklar \cup {Nop}
           /\ YrtYazar \in BOOLEAN
           /\ YrtYazar => yrt_gercek
           /\ YrtAtlar => yrt_gercek
           /\ YrtAtlar \in BOOLEAN /\ YrtHedef \in Ps
           /\ Hesap(yrt_buyruk, yrt_ps, yrt_deger1, yrt_deger2) \in Deger
<1>1. yrt_buyruk \in Buyruklar \cup {Nop} /\ cyo_buyruk \in Buyruklar \cup {Nop}
  BY DEF IInv, TipDogru
<1>2. yrt_buyruk \in BuyrukTipi /\ cyo_buyruk \in BuyrukTipi
  BY <1>1, NopTipi
<1>3. YrtYazar \in BOOLEAN
  BY <1>2 DEF YrtYazar, BuyrukTipi
<1>4. (YrtYazar => yrt_gercek) /\ (YrtAtlar => yrt_gercek)
  BY NopTipi DEF IInv, KabarcikBos, YrtYazar, YrtAtlar, Atlar, Baglar
<1>5. YrtAtlar \in BOOLEAN
  BY <1>1, IslemVarsayimi DEF IInv, TipDogru, YrtAtlar, Atlar, Baglar
<1>6. YrtHedef \in Ps /\ Hesap(yrt_buyruk, yrt_ps, yrt_deger1, yrt_deger2) \in Deger
  BY <1>1, IslemVarsayimi DEF IInv, TipDogru, YrtHedef
<1> QED
  BY <1>1, <1>2, <1>3, <1>4, <1>5, <1>6

\* A unit that is done hands on a value, and forwards the very one it hands on.
LEMMA SonucDegeri ==
    ASSUME IInv, NEW bit \in BOOLEAN, NEW veri \in Veriler, YrtHazir(bit), YrtYazar
    PROVE  /\ GyDegerSonraki(bit, veri) \in Deger
           /\ ~YonlendirGecersiz => YonlendirDeger(bit, veri) = GyDegerSonraki(bit, veri)
           /\ YonlendirGecersiz =>
                 GyDegerSonraki(bit, veri) = Hesap(yrt_buyruk, yrt_ps, yrt_deger1, yrt_deger2)
           /\ GyDegerSonraki(bit, veri)
                 \in Makine!SonucVar(yrt_buyruk, yrt_ps, yrt_deger1, yrt_deger2)
<1>1. /\ yrt_buyruk.birim \in {"amb", "carpma", "bolme", "bib"}
      /\ yrt_buyruk.dal # "yok" => yrt_buyruk.birim = "amb"
      /\ Hesap(yrt_buyruk, yrt_ps, yrt_deger1, yrt_deger2) \in Deger
  BY YrtTipi, NopTipi, BuyrukVarsayimi DEF BuyrukTipi
<1>2. Baglanti(PsArtmis(yrt_buyruk, yrt_ps)) \in Deger
  <2>1. PsArtmis(yrt_buyruk, yrt_ps) \in Ps
    BY YrtTipi, PsArtmisTipi DEF IInv, TipDogru
  <2> QED
    BY <2>1, YrtTipi, IslemVarsayimi DEF IInv, TipDogru
<1>3. yrt_buyruk.birim = "bib" => veri \in Deger
  BY DEF Veriler
<1>4. Baglar(yrt_buyruk) => ~YonlendirGecersiz
  BY <1>1 DEF Baglar, YonlendirGecersiz
<1>5. CASE YonlendirGecersiz
  BY <1>1, <1>4, <1>5 DEF GyDegerSonraki, YonlendirGecersiz, Makine!SonucVar, Makine!Baglar, Baglar
<1>6. CASE ~YonlendirGecersiz /\ Baglar(yrt_buyruk)
  BY <1>2, <1>6 DEF GyDegerSonraki, YonlendirDeger, Makine!SonucVar, Makine!Baglar,
                    Makine!PsArtmis, PsArtmis, Baglar
<1>7. CASE ~YonlendirGecersiz /\ ~Baglar(yrt_buyruk)
  <2>1. bit \/ yrt_buyruk.birim = "amb"
    BY <1>1, <1>7 DEF YrtHazir, YonlendirGecersiz
  <2> QED
    BY <1>1, <1>3, <1>7, <2>1 DEF GyDegerSonraki, YonlendirDeger, RdDeger, YonlendirGecersiz,
                                   Makine!SonucVar, Makine!Baglar, Baglar
<1> QED
  BY <1>5, <1>6, <1>7

\* Between two stalls of the fetch nothing but the start-up counter waits.
LEMMA Durmayan ==
    ASSUME IInv, NEW hazir \in BOOLEAN, NEW bit \in BOOLEAN, ~GtrDurdur(hazir, bit)
    PROVE  /\ hazir /\ YrtHazir(bit) /\ ~Basliyor /\ (durmus \/ ~Durmali)
           /\ ~CyoDurdur(hazir, bit) /\ ~YrtDurdur(hazir)
           /\ bos_basla = FALSE
BY DEF GtrDurdur, CyoDurdur, YrtDurdur, IInv, KabarcikBos, TipDogru

\* What the registers of retired instructions become.
LEMMA EmekliYazar ==
    ASSUME IInv, NEW hazir, NEW bit, NEW veri, NEW b, NEW on,
           Girdi(hazir, bit, veri, b, on), Cevrim(hazir, bit, veri, b, on)
    PROVE  /\ Emekli(hazir, bit) /\ YrtYazar /\ yrt_buyruk.rd # 0 =>
                 /\ emekli_yazmaclar' =
                       [emekli_yazmaclar EXCEPT ![yrt_buyruk.rd] = GyDegerSonraki(bit, veri)]
                 /\ GyDegerSonraki(bit, veri) \in Deger
           /\ ~(Emekli(hazir, bit) /\ YrtYazar /\ yrt_buyruk.rd # 0) =>
                 emekli_yazmaclar' = emekli_yazmaclar
<1>1. hazir \in BOOLEAN /\ bit \in BOOLEAN /\ veri \in Veriler
  BY DEF Girdi
<1>2. Emekli(hazir, bit) => /\ ~YrtDurdur(hazir) /\ YrtHazir(bit)
                            /\ gy_yaz' = YrtYazar /\ gy_rd' = yrt_buyruk.rd
                            /\ gy_deger' = GyDegerSonraki(bit, veri)
  BY DEF Emekli, CyoDurdur, YrtDurdur, Cevrim, Yurut
<1>3. Emekli(hazir, bit) /\ YrtYazar => GyDegerSonraki(bit, veri) \in Deger
  BY <1>1, <1>2, SonucDegeri
<1>4. emekli_yazmaclar' = IF Emekli(hazir, bit) /\ gy_yaz' /\ gy_rd' # 0
                          THEN [emekli_yazmaclar EXCEPT ![gy_rd'] = gy_deger']
                          ELSE emekli_yazmaclar
  BY DEF Cevrim, Gecmis
<1>5. YrtYazar \in BOOLEAN
  BY YrtTipi
<1>6. CASE Emekli(hazir, bit) /\ YrtYazar
  BY <1>2, <1>3, <1>4, <1>6
<1>7. CASE Emekli(hazir, bit) /\ ~YrtYazar
  BY <1>2, <1>4, <1>7
<1>8. CASE ~Emekli(hazir, bit)
  BY <1>4, <1>8
<1> QED
  BY <1>6, <1>7, <1>8

\* Forwarding is right: what decode takes for a source register when it hands its
\* instruction on is what the instructions before it leave in that register.
LEMMA YonlendirmeDogru ==
    ASSUME IInv, NEW hazir, NEW bit, NEW veri, NEW b, NEW on,
           Girdi(hazir, bit, veri, b, on), Cevrim(hazir, bit, veri, b, on),
           ~GtrDurdur(hazir, bit), NEW rs \in {cyo_buyruk.rs1, cyo_buyruk.rs2}
    PROVE  Okunan(rs, bit, veri) = emekli_yazmaclar'[rs]
<1>1. hazir \in BOOLEAN /\ bit \in BOOLEAN /\ veri \in Veriler
  BY DEF Girdi
<1>2. /\ YrtHazir(bit) /\ (durmus \/ ~Durmali)
      /\ yrt_gercek => Emekli(hazir, bit)
  BY <1>1, Durmayan DEF Emekli, IInv, TipDogru
<1>3. rs \in Yazmac /\ yrt_buyruk.rd \in Yazmac
  BY YrtTipi DEF BuyrukTipi
<1>4. CASE YurutYonlendir(rs) /\ ~YonlendirGecersiz
  <2>1. Okunan(rs, bit, veri) = YonlendirDeger(bit, veri)
    BY <1>4 DEF Okunan
  <2>2. YrtYazar /\ yrt_gercek /\ rs = yrt_buyruk.rd /\ rs # 0
    BY <1>4, YrtTipi DEF YurutYonlendir
  <2>3. YonlendirDeger(bit, veri) = GyDegerSonraki(bit, veri)
    BY <1>1, <1>2, <1>4, <2>2, SonucDegeri
  <2>4. emekli_yazmaclar' = [emekli_yazmaclar EXCEPT ![rs] = GyDegerSonraki(bit, veri)]
    BY <1>2, <2>2, EmekliYazar
  <2> QED
    BY <1>3, <2>1, <2>3, <2>4 DEF IInv, TipDogru
<1>5. CASE YurutYonlendir(rs) /\ YonlendirGecersiz
  <2>1. Durmali
    BY <1>5 DEF Durmali
  <2>2. /\ gy_yaz = TRUE /\ gy_rd = yrt_buyruk.rd
        /\ gy_deger = Hesap(yrt_buyruk, yrt_ps, yrt_deger1, yrt_deger2)
    BY <1>2, <2>1 DEF IInv, CarpmaBekler
  <2>3. YrtYazar /\ yrt_gercek /\ rs = yrt_buyruk.rd /\ rs # 0
    BY <1>5, YrtTipi DEF YurutYonlendir
  <2>4. Okunan(rs, bit, veri) = gy_deger
    BY <1>5, <2>2, <2>3 DEF Okunan, GeriyazYonlendir
  <2>5. GyDegerSonraki(bit, veri) = gy_deger
    BY <1>1, <1>2, <1>5, <2>2, <2>3, SonucDegeri
  <2>6. emekli_yazmaclar' = [emekli_yazmaclar EXCEPT ![rs] = GyDegerSonraki(bit, veri)]
    BY <1>2, <2>3, EmekliYazar
  <2> QED
    BY <1>3, <2>4, <2>5, <2>6 DEF IInv, TipDogru
<1>6. CASE ~YurutYonlendir(rs)
  <2>1. ~(YrtYazar /\ yrt_buyruk.rd = rs /\ rs # 0)
    BY <1>6 DEF YurutYonlendir
  <2>2. Gorunen(rs) = emekli_yazmaclar[rs]
    BY <1>3, <2>1 DEF IInv, YazmacDogru
  <2>3. Okunan(rs, bit, veri) = Gorunen(rs)
    BY <1>6 DEF Okunan, Gorunen, GeriyazYonlendir
  <2>4. emekli_yazmaclar'[rs] = emekli_yazmaclar[rs]
    <3>1. CASE Emekli(hazir, bit) /\ YrtYazar /\ yrt_buyruk.rd # 0
      <4>1. emekli_yazmaclar' =
              [emekli_yazmaclar EXCEPT ![yrt_buyruk.rd] = GyDegerSonraki(bit, veri)]
        BY <3>1, EmekliYazar
      <4>2. rs # yrt_buyruk.rd
        BY <2>1, <3>1
      <4> QED
        BY <1>3, <4>1, <4>2 DEF IInv, TipDogru
    <3>2. CASE ~(Emekli(hazir, bit) /\ YrtYazar /\ yrt_buyruk.rd # 0)
      BY <3>2, EmekliYazar
    <3> QED
      BY <3>1, <3>2
  <2> QED
    BY <2>2, <2>3, <2>4
<1> QED
  BY <1>4, <1>5, <1>6

-----------------------------------------------------------------------------
(* The inductive invariant *)

LEMMA BaslangicIInv == ASSUME Init PROVE IInv
<1>1. 0 \in Ps
  BY DegerVarsayimi DEF Ps
<1>2. 0 \in 0 .. ACILIS /\ 0 # ACILIS
  BY AcilisVarsayimi
<1>3. TipDogru
  BY <1>1, <1>2, DegerVarsayimi DEF Init, TipDogru
<1>4. YazmacDogru
  BY DEF Init, YazmacDogru, Gorunen
<1>5. KabarcikBos
  BY <1>2 DEF Init, KabarcikBos, Basliyor
<1> QED
  BY <1>3, <1>4, <1>5 DEF Init, IInv, YolDogru, IslenenDogru, CarpmaBekler

LEMMA SifirlaIInv == ASSUME IInv, Sifirla PROVE IInv'
<1>1. 0 \in Ps
  BY DegerVarsayimi DEF Ps
<1>2. 0 \in 0 .. ACILIS /\ 0 # ACILIS
  BY AcilisVarsayimi
<1>3. TipDogru'
  BY <1>1, <1>2, DegerVarsayimi DEF Sifirla, TipDogru, IInv
<1>4. YazmacDogru'
  BY DEF Sifirla, YazmacDogru, Gorunen
<1>5. KabarcikBos'
  BY <1>2 DEF Sifirla, KabarcikBos, Basliyor
<1> QED
  BY <1>3, <1>4, <1>5 DEF Sifirla, IInv, YolDogru, IslenenDogru, CarpmaBekler

LEMMA CevrimTip ==
    ASSUME IInv, NEW hazir, NEW bit, NEW veri, NEW b, NEW on,
           Girdi(hazir, bit, veri, b, on), Cevrim(hazir, bit, veri, b, on)
    PROVE  TipDogru'
<1>1. hazir \in BOOLEAN /\ bit \in BOOLEAN /\ veri \in Veriler
  BY DEF Girdi
<1>2. emekli_yazmaclar' \in [Yazmac -> Deger]
  <2>1. emekli_yazmaclar \in [Yazmac -> Deger] /\ yrt_buyruk.rd \in Yazmac
    BY YrtTipi DEF IInv, TipDogru, BuyrukTipi
  <2> QED
    BY <2>1, EmekliYazar
<1>3. ps' \in Ps /\ cyo_ps' \in Ps /\ cyo_buyruk' \in Buyruklar \cup {Nop}
  <2>1. CASE GtrDurdur(hazir, bit)
    BY <2>1 DEF Cevrim, Getir, getir_vars, IInv, TipDogru
  <2>2. CASE ~GtrDurdur(hazir, bit)
    <3>1. b \in Buyruklar /\ on \in Ongorular(b)
      BY <2>2, GirdiTipi
    <3>2. on.ps \in Ps
      BY <3>1, OngoruTipi
    <3>3. ps \in Ps /\ yrt_ps \in Ps
      BY DEF IInv, TipDogru
    <3>4. PsArtmis(b, ps) \in Ps /\ PsArtmis(yrt_buyruk, yrt_ps) \in Ps
      BY <3>1, <3>3, YrtTipi, NopTipi, PsArtmisTipi
    <3>5. PsSonraki(b, on) \in Ps
      BY <3>2, <3>4, YrtTipi DEF PsSonraki
    <3> QED
      BY <2>2, <3>1, <3>3, <3>5 DEF Cevrim, Getir
  <2> QED
    BY <2>1, <2>2
<1>4. /\ tahmin_et' \in [cyo : BOOLEAN, yurut : BOOLEAN]
      /\ ongorulen' \in [cyo : BOOLEAN, yurut : BOOLEAN]
      /\ yrt_ps' \in Ps
  <2>1. CASE GtrDurdur(hazir, bit)
    BY <2>1 DEF Cevrim, Ongorucu, ongorucu_vars, IInv, TipDogru
  <2>2. CASE ~GtrDurdur(hazir, bit)
    <3>1. b \in Buyruklar /\ on \in Ongorular(b)
      BY <2>2, GirdiTipi
    <3>2. on.atlar \in BOOLEAN
      BY <3>1, OngoruTipi
    <3>3. ongorulen.cyo \in BOOLEAN /\ cyo_ps \in Ps
      BY DEF IInv, TipDogru
    <3>4. /\ tahmin_et' = [cyo |-> ~YanlisTahmin /\ b.dal # "yok",
                            yurut |-> ~YanlisTahmin /\ tahmin_et.cyo]
          /\ ongorulen' = [cyo |-> on.atlar, yurut |-> ongorulen.cyo]
          /\ yrt_ps' = cyo_ps
      BY <2>2 DEF Cevrim, Ongorucu
    <3>5. /\ (~YanlisTahmin /\ b.dal # "yok") \in BOOLEAN
          /\ (~YanlisTahmin /\ tahmin_et.cyo) \in BOOLEAN
      OBVIOUS
    <3> QED
      BY <3>2, <3>3, <3>4, <3>5
  <2> QED
    BY <2>1, <2>2
<1>5. yrt_buyruk' \in Buyruklar \cup {Nop} /\ yrt_deger1' \in Deger /\ yrt_deger2' \in Deger
  <2>1. CASE CyoDurdur(hazir, bit)
    BY <2>1 DEF Cevrim, CozYazmacoku, coz_vars, IInv, TipDogru
  <2>2. CASE ~CyoDurdur(hazir, bit)
    <3>1. ~GtrDurdur(hazir, bit)
      BY <2>2 DEF GtrDurdur, CyoDurdur
    <3>2. /\ Okunan(cyo_buyruk.rs1, bit, veri) = emekli_yazmaclar'[cyo_buyruk.rs1]
          /\ Okunan(cyo_buyruk.rs2, bit, veri) = emekli_yazmaclar'[cyo_buyruk.rs2]
      BY <3>1, YonlendirmeDogru
    <3>3. cyo_buyruk.rs1 \in Yazmac /\ cyo_buyruk.rs2 \in Yazmac
      BY YrtTipi DEF BuyrukTipi
    <3> QED
      BY <1>2, <2>2, <3>2, <3>3 DEF Cevrim, CozYazmacoku, IInv, TipDogru
  <2> QED
    BY <2>1, <2>2
<1>6. gy_yaz' \in BOOLEAN /\ gy_rd' \in Yazmac /\ gy_deger' \in Deger \cup {Belirsiz}
  <2>1. CASE YrtDurdur(hazir)
    BY <2>1 DEF Cevrim, Yurut, gy_vars, IInv, TipDogru
  <2>2. CASE ~YrtDurdur(hazir)
    <3>1. yrt_buyruk.rd \in Yazmac
      BY YrtTipi DEF BuyrukTipi
    <3>2. GyDegerSonraki(bit, veri) \in Deger \cup {Belirsiz}
      <4>1. CASE YrtYazar /\ YrtHazir(bit)
        BY <1>1, <4>1, SonucDegeri
      <4>2. CASE YrtYazar /\ ~YrtHazir(bit)
        <5>1. yrt_buyruk.birim \in {"bolme", "bib"} /\ ~bit
          BY <4>2 DEF YrtHazir
        <5>2. ~Baglar(yrt_buyruk)
          BY <5>1, YrtTipi, NopTipi, BuyrukVarsayimi DEF Baglar
        <5> QED
          BY <5>1, <5>2 DEF GyDegerSonraki, YonlendirGecersiz, YonlendirDeger, RdDeger
      <4>3. CASE ~YrtYazar
        BY <4>3 DEF GyDegerSonraki
      <4> QED
        BY <4>1, <4>2, <4>3
    <3> QED
      BY <2>2, <3>1, <3>2, YrtTipi DEF Cevrim, Yurut
  <2> QED
    BY <2>1, <2>2
<1>7. yazmaclar' \in [Yazmac -> Deger \cup {Belirsiz}]
  BY DEF Cevrim, YazmacYaz, IInv, TipDogru
<1>8. durmus' \in BOOLEAN /\ bos_basla' \in BOOLEAN
  BY <1>1 DEF Cevrim, Denetim, IInv, TipDogru, Durmali
<1>9. sayac' \in 0 .. ACILIS
  BY AcilisVarsayimi DEF Cevrim, Denetim, IInv, TipDogru, Basliyor
<1>10. cyo_gercek' \in BOOLEAN /\ yrt_gercek' \in BOOLEAN
  BY <1>1 DEF Cevrim, Gecmis, IInv, TipDogru, Bosalt, YanlisTahmin
<1>11. son' \in Buyruklar \cup {YOK}
  BY DEF Cevrim, Gecmis, Emekli, IInv, KabarcikBos
<1> QED
  BY <1>2, <1>3, <1>4, <1>5, <1>6, <1>7, <1>8, <1>9, <1>10, <1>11 DEF TipDogru

LEMMA CevrimYazmac ==
    ASSUME IInv, NEW hazir, NEW bit, NEW veri, NEW b, NEW on,
           Girdi(hazir, bit, veri, b, on), Cevrim(hazir, bit, veri, b, on)
    PROVE  YazmacDogru'
<1> SUFFICES ASSUME NEW r \in Yazmac,
                    ~(yrt_gercek' /\ YrtYazar' /\ yrt_buyruk'.rd = r /\ r # 0)
             PROVE  Gorunen(r)' = emekli_yazmaclar'[r]
  BY DEF YazmacDogru
<1>1. hazir \in BOOLEAN /\ bit \in BOOLEAN /\ veri \in Veriler
  BY DEF Girdi
<1>2. /\ yrt_buyruk.rd \in Yazmac /\ YrtYazar \in BOOLEAN
      /\ YrtYazar => yrt_gercek
  BY YrtTipi DEF BuyrukTipi
<1>3. yazmaclar'[r] = Gorunen(r)
  BY DEF Cevrim, YazmacYaz, Gorunen, IInv, TipDogru
<1>4. CASE YrtDurdur(hazir)
  <2>1. CyoDurdur(hazir, bit) /\ ~Emekli(hazir, bit)
    BY <1>4 DEF YrtDurdur, CyoDurdur, Emekli
  <2>2. yrt_gercek' = yrt_gercek /\ yrt_buyruk' = yrt_buyruk
    BY <2>1 DEF Cevrim, Gecmis, CozYazmacoku, coz_vars
  <2>3. gy_yaz' = gy_yaz /\ gy_rd' = gy_rd /\ gy_deger' = gy_deger
    BY <1>4 DEF Cevrim, Yurut, gy_vars
  <2>4. emekli_yazmaclar' = emekli_yazmaclar
    BY <2>1, EmekliYazar
  <2>5. Gorunen(r) = emekli_yazmaclar[r]
    BY <2>2 DEF IInv, YazmacDogru, YrtYazar
  <2>6. Gorunen(r)' = Gorunen(r)
    BY <1>3, <2>3 DEF Gorunen
  <2> QED
    BY <2>4, <2>5, <2>6
<1>5. CASE ~YrtDurdur(hazir)
  <2>1. gy_yaz' = YrtYazar /\ gy_rd' = yrt_buyruk.rd /\ gy_deger' = GyDegerSonraki(bit, veri)
    BY <1>5 DEF Cevrim, Yurut
  <2>2. CASE YrtYazar /\ yrt_buyruk.rd = r /\ r # 0
    <3>1. Emekli(hazir, bit)
      <4>1. SUFFICES ASSUME CyoDurdur(hazir, bit) PROVE FALSE
        BY <1>2, <2>2 DEF Emekli
      <4>2. yrt_gercek' = yrt_gercek /\ yrt_buyruk' = yrt_buyruk
        BY <4>1 DEF Cevrim, Gecmis, CozYazmacoku, coz_vars
      <4>3. YrtYazar' = YrtYazar
        BY <4>2 DEF YrtYazar
      <4> QED
        BY <1>2, <2>2, <4>2, <4>3
    <3>2. emekli_yazmaclar' = [emekli_yazmaclar EXCEPT ![r] = GyDegerSonraki(bit, veri)]
      BY <2>2, <3>1, EmekliYazar
    <3>3. Gorunen(r)' = GyDegerSonraki(bit, veri)
      BY <2>1, <2>2 DEF Gorunen
    <3> QED
      BY <3>2, <3>3 DEF IInv, TipDogru
  <2>3. CASE ~(YrtYazar /\ yrt_buyruk.rd = r /\ r # 0)
    <3>1. Gorunen(r)' = Gorunen(r)
      BY <1>3, <2>1, <2>3 DEF Gorunen
    <3>2. Gorunen(r) = emekli_yazmaclar[r]
      BY <2>3 DEF IInv, YazmacDogru
    <3>3. emekli_yazmaclar'[r] = emekli_yazmaclar[r]
      <4>1. CASE Emekli(hazir, bit) /\ YrtYazar /\ yrt_buyruk.rd # 0
        <5>1. r # yrt_buyruk.rd
          BY <2>3, <4>1
        <5>2. emekli_yazmaclar' =
                [emekli_yazmaclar EXCEPT ![yrt_buyruk.rd] = GyDegerSonraki(bit, veri)]
          BY <4>1, EmekliYazar
        <5> QED
          BY <5>1, <5>2 DEF IInv, TipDogru
      <4>2. CASE ~(Emekli(hazir, bit) /\ YrtYazar /\ yrt_buyruk.rd # 0)
        BY <4>2, EmekliYazar
      <4> QED
        BY <4>1, <4>2
    <3> QED
      BY <3>1, <3>2, <3>3
  <2> QED
    BY <2>2, <2>3
<1> QED
  BY <1>4, <1>5

\* A cycle in which the fetch waits leaves the front of the pipeline alone.
LEMMA DuranCevrim ==
    ASSUME IInv, NEW hazir, NEW bit, NEW veri, NEW b, NEW on,
           Girdi(hazir, bit, veri, b, on), Cevrim(hazir, bit, veri, b, on),
           GtrDurdur(hazir, bit)
    PROVE  /\ ps' = ps /\ cyo_buyruk' = cyo_buyruk /\ cyo_ps' = cyo_ps
           /\ tahmin_et' = tahmin_et /\ ongorulen' = ongorulen /\ yrt_ps' = yrt_ps
           /\ yrt_buyruk' = yrt_buyruk /\ yrt_deger1' = yrt_deger1 /\ yrt_deger2' = yrt_deger2
           /\ cyo_gercek' = cyo_gercek /\ yrt_gercek' = yrt_gercek
           /\ emekli_yazmaclar' = emekli_yazmaclar /\ son' = YOK
<1>1. CyoDurdur(hazir, bit) /\ ~Emekli(hazir, bit)
  BY DEF GtrDurdur, CyoDurdur, Emekli
<1>2. emekli_yazmaclar' = emekli_yazmaclar
  BY <1>1, EmekliYazar
<1> QED
  BY <1>1, <1>2 DEF Cevrim, Getir, getir_vars, Ongorucu, ongorucu_vars,
                    CozYazmacoku, coz_vars, Gecmis

LEMMA CevrimKabarcik ==
    ASSUME IInv, NEW hazir, NEW bit, NEW veri, NEW b, NEW on,
           Girdi(hazir, bit, veri, b, on), Cevrim(hazir, bit, veri, b, on)
    PROVE  KabarcikBos'
<1>1. hazir \in BOOLEAN /\ bit \in BOOLEAN
  BY DEF Girdi
<1>2. bos_basla' = FALSE
  BY DEF Cevrim, Denetim
<1>3. CASE GtrDurdur(hazir, bit)
  <2>1. Basliyor' => Basliyor
    BY DEF Cevrim, Denetim, Basliyor
  <2> QED
    BY <1>2, <1>3, <2>1, DuranCevrim DEF IInv, KabarcikBos
<1>4. CASE ~GtrDurdur(hazir, bit)
  <2>1. /\ ~Basliyor /\ bos_basla = FALSE /\ ~CyoDurdur(hazir, bit)
        /\ b \in Buyruklar /\ on \in Ongorular(b)
    BY <1>1, <1>4, Durmayan, GirdiTipi
  <2>2. ~Basliyor'
    BY <2>1 DEF Cevrim, Denetim, Basliyor
  <2>3. /\ cyo_gercek' = ~YanlisTahmin
        /\ yrt_gercek' = (cyo_gercek /\ ~YanlisTahmin)
    BY <1>4, <2>1 DEF Cevrim, Gecmis, Bosalt
  <2>4. /\ cyo_buyruk' = IF YanlisTahmin THEN Nop ELSE b
        /\ yrt_buyruk' = IF YanlisTahmin THEN Nop ELSE cyo_buyruk
    BY <1>4, <2>1 DEF Cevrim, Getir, CozYazmacoku, Bosalt
  <2>5. /\ tahmin_et'.cyo = (~YanlisTahmin /\ b.dal # "yok")
        /\ tahmin_et'.yurut = (~YanlisTahmin /\ tahmin_et.cyo)
    BY <1>4 DEF Cevrim, Ongorucu
  <2>6. tahmin_et.cyo \in BOOLEAN /\ cyo_gercek \in BOOLEAN
    BY DEF IInv, TipDogru
  <2>7. CASE YanlisTahmin
    BY <1>2, <2>2, <2>3, <2>4, <2>5, <2>7 DEF KabarcikBos
  <2>8. CASE ~YanlisTahmin
    BY <1>2, <2>1, <2>2, <2>3, <2>4, <2>5, <2>6, <2>8 DEF KabarcikBos, IInv
  <2> QED
    BY <2>7, <2>8
<1> QED
  BY <1>3, <1>4

LEMMA CevrimYol ==
    ASSUME IInv, NEW hazir, NEW bit, NEW veri, NEW b, NEW on,
           Girdi(hazir, bit, veri, b, on), Cevrim(hazir, bit, veri, b, on)
    PROVE  YolDogru'
<1>1. hazir \in BOOLEAN /\ bit \in BOOLEAN
  BY DEF Girdi
<1>2. CASE GtrDurdur(hazir, bit)
  BY <1>2, DuranCevrim DEF IInv, YolDogru, PsArtmis
<1>3. CASE ~GtrDurdur(hazir, bit)
  <2>1. /\ bos_basla = FALSE /\ ~CyoDurdur(hazir, bit)
        /\ b \in Program[ps] /\ on \in Ongorular(b)
    BY <1>1, <1>3, Durmayan DEF Girdi
  <2>2. /\ cyo_gercek' = ~YanlisTahmin
        /\ yrt_gercek' = (cyo_gercek /\ ~YanlisTahmin)
    BY <1>3, <2>1 DEF Cevrim, Gecmis, Bosalt
  <2>3. /\ ongorulen'.cyo = on.atlar /\ ongorulen'.yurut = ongorulen.cyo
        /\ yrt_ps' = cyo_ps /\ cyo_ps' = ps /\ ps' = PsSonraki(b, on)
        /\ cyo_buyruk' = IF YanlisTahmin THEN Nop ELSE b
        /\ yrt_buyruk' = IF YanlisTahmin THEN Nop ELSE cyo_buyruk
    BY <1>3, <2>1 DEF Cevrim, Getir, Ongorucu, CozYazmacoku, Bosalt
  <2>4. CASE YanlisTahmin
    BY <2>2, <2>4 DEF YolDogru
  <2>5. CASE ~YanlisTahmin
    <3>1. Hata = "yok"
      BY <2>5 DEF YanlisTahmin
    <3>2. ps' = IF b.dal # "yok" /\ on.atlar THEN on.ps ELSE PsArtmis(b, ps)
      BY <2>3, <3>1 DEF PsSonraki
    <3> QED
      BY <2>1, <2>2, <2>3, <2>5, <3>2 DEF YolDogru, IInv, PsArtmis
  <2> QED
    BY <2>4, <2>5
<1> QED
  BY <1>2, <1>3

LEMMA CevrimIslenen ==
    ASSUME IInv, NEW hazir, NEW bit, NEW veri, NEW b, NEW on,
           Girdi(hazir, bit, veri, b, on), Cevrim(hazir, bit, veri, b, on)
    PROVE  IslenenDogru'
<1>1. CASE GtrDurdur(hazir, bit)
  BY <1>1, DuranCevrim DEF IInv, IslenenDogru
<1>2. CASE ~GtrDurdur(hazir, bit)
  <2>1. ~CyoDurdur(hazir, bit)
    BY <1>2 DEF GtrDurdur, CyoDurdur
  <2>2. /\ yrt_deger1' = emekli_yazmaclar'[cyo_buyruk.rs1]
        /\ yrt_deger2' = emekli_yazmaclar'[cyo_buyruk.rs2]
    BY <1>2, <2>1, YonlendirmeDogru DEF Cevrim, CozYazmacoku
  <2>3. yrt_gercek' => yrt_buyruk' = cyo_buyruk
    BY <2>1 DEF Cevrim, Gecmis, CozYazmacoku
  <2> QED
    BY <2>2, <2>3 DEF IslenenDogru
<1> QED
  BY <1>1, <1>2

LEMMA CevrimCarpma ==
    ASSUME IInv, NEW hazir, NEW bit, NEW veri, NEW b, NEW on,
           Girdi(hazir, bit, veri, b, on), Cevrim(hazir, bit, veri, b, on)
    PROVE  CarpmaBekler'
<1> SUFFICES ASSUME durmus'
             PROVE  CarpmaBekler'
  BY DEF CarpmaBekler
<1>1. hazir \in BOOLEAN /\ bit \in BOOLEAN /\ veri \in Veriler
  BY DEF Girdi
<1>2. CASE hazir
  <2>1. ~durmus /\ Durmali
    BY <1>2 DEF Cevrim, Denetim
  <2>2. YonlendirGecersiz /\ YrtYazar
    BY <2>1 DEF Durmali, YurutYonlendir
  <2>3. yrt_gercek
    BY <2>2, YrtTipi
  <2>4. ~Basliyor
    BY <2>3 DEF IInv, KabarcikBos
  <2>5. GtrDurdur(hazir, bit) /\ ~YrtDurdur(hazir)
    BY <1>2, <2>1, <2>4 DEF GtrDurdur, YrtDurdur
  <2>6. YrtHazir(bit)
    BY <2>2 DEF YrtHazir, YonlendirGecersiz
  <2>7. GyDegerSonraki(bit, veri) = Hesap(yrt_buyruk, yrt_ps, yrt_deger1, yrt_deger2)
    BY <1>1, <2>2, <2>6, SonucDegeri
  <2>8. gy_yaz' = YrtYazar /\ gy_rd' = yrt_buyruk.rd /\ gy_deger' = GyDegerSonraki(bit, veri)
    BY <2>5 DEF Cevrim, Yurut
  <2>9. /\ yrt_buyruk' = yrt_buyruk /\ yrt_ps' = yrt_ps /\ yrt_gercek' = yrt_gercek
        /\ yrt_deger1' = yrt_deger1 /\ yrt_deger2' = yrt_deger2
    BY <2>5, DuranCevrim
  <2>10. YrtYazar = TRUE
    BY <2>2, YrtTipi
  <2> QED
    BY <2>2, <2>3, <2>7, <2>8, <2>9, <2>10 DEF CarpmaBekler, YonlendirGecersiz
<1>3. CASE ~hazir
  <2>1. GtrDurdur(hazir, bit) /\ YrtDurdur(hazir)
    BY <1>3 DEF GtrDurdur, YrtDurdur
  <2>2. durmus
    BY <1>3 DEF Cevrim, Denetim
  <2>3. gy_yaz' = gy_yaz /\ gy_rd' = gy_rd /\ gy_deger' = gy_deger
    BY <2>1 DEF Cevrim, Yurut, gy_vars
  <2>4. /\ yrt_buyruk' = yrt_buyruk /\ yrt_ps' = yrt_ps /\ yrt_gercek' = yrt_gercek
        /\ yrt_deger1' = yrt_deger1 /\ yrt_deger2' = yrt_deger2
    BY <2>1, DuranCevrim
  <2> QED
    BY <2>2, <2>3, <2>4 DEF IInv, CarpmaBekler, YonlendirGecersiz
<1> QED
  BY <1>1, <1>2, <1>3

\* IInv is inductive.
LEMMA AdimIInv == ASSUME IInv, [Next]_vars PROVE IInv'
<1>1. CASE Sifirla
  BY <1>1, SifirlaIInv
<1>2. CASE Next /\ ~Sifirla
  <2>1. PICK hazir, bit, veri, b, on :
            Girdi(hazir, bit, veri, b, on) /\ Cevrim(hazir, bit, veri, b, on)
    BY <1>2, AdimCevrim
  <2>2. TipDogru'
    BY <2>1, CevrimTip
  <2>3. YazmacDogru'
    BY <2>1, CevrimYazmac
  <2>4. KabarcikBos'
    BY <2>1, CevrimKabarcik
  <2>5. YolDogru'
    BY <2>1, CevrimYol
  <2>6. IslenenDogru'
    BY <2>1, CevrimIslenen
  <2>7. CarpmaBekler'
    BY <2>1, CevrimCarpma
  <2> QED
    BY <2>2, <2>3, <2>4, <2>5, <2>6, <2>7 DEF IInv
<1>3. CASE UNCHANGED vars
  <2> USE <1>3 DEF vars, getir_vars, ongorucu_vars, coz_vars, gy_vars, ddb_vars, gecmis_vars
  <2>1. TipDogru'
    BY DEF IInv, TipDogru
  <2>2. YazmacDogru'
    BY DEF IInv, YazmacDogru, Gorunen, YrtYazar
  <2>3. KabarcikBos'
    BY DEF IInv, KabarcikBos, Basliyor
  <2>4. YolDogru' /\ IslenenDogru' /\ CarpmaBekler'
    BY DEF IInv, YolDogru, IslenenDogru, CarpmaBekler, PsArtmis, YonlendirGecersiz
  <2> QED
    BY <2>1, <2>2, <2>3, <2>4 DEF IInv
<1> QED
  BY <1>1, <1>2, <1>3

\* The pipeline's registers keep their widths, and IInv holds in every state: bubbles
\* (ddb_bosalt_i), the path of getir, the operands of coz_yazmacoku, the product behind
\* carpma_birimi.
THEOREM IInvTeoremi == Spec => []IInv
<1>1. Init => IInv
  BY BaslangicIInv
<1>2. IInv /\ [Next]_vars => IInv'
  BY AdimIInv
<1> QED
  BY <1>1, <1>2, PTL DEF Spec

(* The registers of the pipeline keep their widths in every reachable state: the stages of getir,
   coz_yazmacoku and yurut, and the hazard unit between them. *)
THEOREM TipTeoremi == Spec => []TipDogru
<1>1. IInv => TipDogru
  BY DEF IInv
<1> QED
  BY <1>1, IInvTeoremi, PTL

\* What yazmac_obegi and geri_yaz show of every register is what the last retired
\* instruction left in it, but for the one the instruction in execute writes.
THEOREM YazmacDogruTeoremi == Spec => []YazmacDogru
<1>1. IInv => YazmacDogru
  BY DEF IInv
<1> QED
  BY <1>1, IInvTeoremi, PTL

-----------------------------------------------------------------------------
(* The pipeline implements the machine *)

\* The instruction that retires leads to the address the pipeline goes on at: a wrong
\* prediction is repaired, a right one is not touched.
LEMMA SonrakiAdres ==
    ASSUME IInv, NEW hazir, NEW bit, NEW veri, NEW b, NEW on,
           Girdi(hazir, bit, veri, b, on), Cevrim(hazir, bit, veri, b, on),
           yrt_gercek, ~GtrDurdur(hazir, bit)
    PROVE  EmekliPs' = IF YrtAtlar THEN YrtHedef ELSE PsArtmis(yrt_buyruk, yrt_ps)
<1>1. hazir \in BOOLEAN /\ bit \in BOOLEAN
  BY DEF Girdi
<1>2. bos_basla = FALSE /\ ~CyoDurdur(hazir, bit)
  BY <1>1, Durmayan
<1>3. /\ cyo_gercek
      /\ tahmin_et.yurut = (yrt_buyruk.dal # "yok")
      /\ ~(yrt_buyruk.dal # "yok" /\ ongorulen.yurut) => cyo_ps = PsArtmis(yrt_buyruk, yrt_ps)
  BY DEF IInv, KabarcikBos, YolDogru
<1>4. /\ cyo_gercek' = ~YanlisTahmin
      /\ yrt_gercek' = (cyo_gercek /\ ~YanlisTahmin)
      /\ yrt_ps' = cyo_ps /\ ps' = PsSonraki(b, on)
  BY <1>2 DEF Cevrim, Getir, Ongorucu, Gecmis, Bosalt, GtrDurdur, CyoDurdur
<1>5. YrtAtlar => yrt_buyruk.dal # "yok"
  BY DEF YrtAtlar, Atlar, Baglar
<1>6. CASE YanlisTahmin
  <2>1. EmekliPs' = PsSonraki(b, on)
    BY <1>4, <1>6 DEF EmekliPs
  <2>2. CASE Hata \in {"atlamaliydi", "yanlis_atladi"}
    <3>1. YrtAtlar
      BY <2>2 DEF Hata
    <3> QED
      BY <2>1, <2>2, <3>1 DEF PsSonraki
  <2>3. CASE Hata = "atlamamaliydi"
    <3>1. ~YrtAtlar
      BY <2>3 DEF Hata
    <3> QED
      BY <2>1, <2>3, <3>1 DEF PsSonraki
  <2> QED
    BY <1>6, <2>2, <2>3 DEF YanlisTahmin, Hata
<1>7. CASE ~YanlisTahmin
  <2>1. EmekliPs' = cyo_ps
    BY <1>3, <1>4, <1>7 DEF EmekliPs
  <2>2. Hata = "yok"
    BY <1>7 DEF YanlisTahmin
  <2>3. CASE ~tahmin_et.yurut
    <3>1. yrt_buyruk.dal = "yok"
      BY <1>3, <2>3
    <3> QED
      BY <1>3, <1>5, <2>1, <3>1
  <2>4. CASE tahmin_et.yurut /\ YrtAtlar
    <3>1. cyo_ps = YrtHedef
      BY <2>2, <2>4, IInv DEF Hata
    <3> QED
      BY <2>1, <2>4, <3>1
  <2>5. CASE tahmin_et.yurut /\ ~YrtAtlar
    <3>1. ~ongorulen.yurut
      BY <2>2, <2>5 DEF Hata
    <3> QED
      BY <1>3, <2>1, <2>5, <3>1
  <2> QED
    BY <2>3, <2>4, <2>5
<1> QED
  BY <1>6, <1>7

\* An instruction that retires is performed as the machine performs it.
LEMMA EmekliIsler ==
    ASSUME IInv, NEW hazir, NEW bit, NEW veri, NEW b, NEW on,
           Girdi(hazir, bit, veri, b, on), Cevrim(hazir, bit, veri, b, on),
           Emekli(hazir, bit)
    PROVE  Makine!Isle(yrt_buyruk) /\ yrt_buyruk \in Program[EmekliPs]
<1>1. hazir \in BOOLEAN /\ bit \in BOOLEAN /\ veri \in Veriler
  BY DEF Girdi
<1>2. yrt_gercek /\ ~GtrDurdur(hazir, bit) /\ YrtHazir(bit)
  BY DEF Emekli, GtrDurdur, CyoDurdur
<1>3. /\ yrt_buyruk \in Program[yrt_ps] /\ EmekliPs = yrt_ps
      /\ yrt_deger1 = emekli_yazmaclar[yrt_buyruk.rs1]
      /\ yrt_deger2 = emekli_yazmaclar[yrt_buyruk.rs2]
  BY <1>2 DEF IInv, YolDogru, IslenenDogru, EmekliPs
<1>4. EmekliPs' = IF YrtAtlar THEN YrtHedef ELSE PsArtmis(yrt_buyruk, yrt_ps)
  BY <1>2, SonrakiAdres
<1>5. son' = yrt_buyruk
  BY DEF Cevrim, Gecmis
<1>6. \/ /\ yrt_buyruk.yaz /\ yrt_buyruk.rd # 0
         /\ \E d \in Makine!SonucVar(yrt_buyruk, yrt_ps, yrt_deger1, yrt_deger2) :
               emekli_yazmaclar' = [emekli_yazmaclar EXCEPT ![yrt_buyruk.rd] = d]
      \/ /\ ~(yrt_buyruk.yaz /\ yrt_buyruk.rd # 0)
         /\ emekli_yazmaclar' = emekli_yazmaclar
  <2>1. CASE YrtYazar /\ yrt_buyruk.rd # 0
    <3>1. GyDegerSonraki(bit, veri)
            \in Makine!SonucVar(yrt_buyruk, yrt_ps, yrt_deger1, yrt_deger2)
      BY <1>1, <1>2, <2>1, SonucDegeri
    <3>2. emekli_yazmaclar' =
            [emekli_yazmaclar EXCEPT ![yrt_buyruk.rd] = GyDegerSonraki(bit, veri)]
      BY <2>1, EmekliYazar
    <3> QED
      BY <2>1, <3>1, <3>2 DEF YrtYazar
  <2>2. CASE ~(YrtYazar /\ yrt_buyruk.rd # 0)
    BY <2>2, EmekliYazar DEF YrtYazar
  <2> QED
    BY <2>1, <2>2
<1> QED
  BY <1>3, <1>4, <1>5, <1>6
     DEF Makine!Isle, Makine!Atlar, Makine!Baglar, Makine!PsArtmis,
         YrtAtlar, YrtHedef, Atlar, Baglar, PsArtmis

\* A cycle in which nothing retires moves instructions and bubbles on, and no more.
LEMMA EmeklisizBekler ==
    ASSUME IInv, NEW hazir, NEW bit, NEW veri, NEW b, NEW on,
           Girdi(hazir, bit, veri, b, on), Cevrim(hazir, bit, veri, b, on),
           ~Emekli(hazir, bit)
    PROVE  Makine!Bekle
<1>1. hazir \in BOOLEAN /\ bit \in BOOLEAN
  BY DEF Girdi
<1>2. son' = YOK
  BY DEF Cevrim, Gecmis
<1>3. emekli_yazmaclar' = emekli_yazmaclar
  BY EmekliYazar
<1>4. EmekliPs' = EmekliPs
  <2>1. CASE GtrDurdur(hazir, bit)
    BY <2>1, DuranCevrim DEF EmekliPs
  <2>2. CASE ~GtrDurdur(hazir, bit)
    <3>1. bos_basla = FALSE /\ ~CyoDurdur(hazir, bit) /\ ~yrt_gercek
      BY <1>1, <2>2, Durmayan DEF Emekli
    <3>2. ~YanlisTahmin
      BY <3>1 DEF IInv, KabarcikBos, YanlisTahmin, Hata
    <3>3. /\ cyo_gercek' = ~YanlisTahmin
          /\ yrt_gercek' = (cyo_gercek /\ ~YanlisTahmin)
          /\ yrt_ps' = cyo_ps /\ cyo_ps' = ps
      BY <2>2, <3>1 DEF Cevrim, Getir, Ongorucu, Gecmis, Bosalt
    <3> QED
      BY <3>1, <3>2, <3>3 DEF EmekliPs
  <2> QED
    BY <2>1, <2>2
<1> QED
  BY <1>2, <1>3, <1>4 DEF Makine!Bekle

\* The pipeline (getir, dallanma_ongorucu, coz_yazmacoku, yurut, geri_yaz and
\* denetim_durum_birimi) performs the instructions of the program one after the other.
THEOREM MimariTeoremi == Spec => MimariUygular
<1>1. Init => Makine!Baslangic
  BY DEF Init, Makine!Baslangic, EmekliPs
<1>2. IInv /\ [Next]_vars => [~Sifirla => Makine!Calis]_(Makine!mimari_vars)
  <2> SUFFICES ASSUME IInv, [Next]_vars, ~Sifirla
               PROVE  [Makine!Calis]_(Makine!mimari_vars)
    OBVIOUS
  <2>1. CASE Next
    <3>1. PICK hazir, bit, veri, b, on :
              Girdi(hazir, bit, veri, b, on) /\ Cevrim(hazir, bit, veri, b, on)
      BY <2>1, AdimCevrim
    <3>2. CASE Emekli(hazir, bit)
      BY <3>1, <3>2, EmekliIsler DEF Makine!Calis
    <3>3. CASE ~Emekli(hazir, bit)
      BY <3>1, <3>3, EmeklisizBekler DEF Makine!Calis
    <3> QED
      BY <3>2, <3>3
  <2>2. CASE UNCHANGED vars
    BY <2>2 DEF vars, getir_vars, ongorucu_vars, coz_vars, gecmis_vars,
                Makine!mimari_vars, EmekliPs
  <2> QED
    BY <2>1, <2>2
<1>3. Sifirla => Makine!YenidenBasla
  BY DEF Sifirla, Makine!YenidenBasla, EmekliPs
<1>4. IInv /\ [Next]_vars => [Makine!Adim]_(Makine!mimari_vars)
  BY <1>2, <1>3 DEF Makine!Adim
<1> QED
  BY <1>1, <1>2, <1>4, IInvTeoremi, PTL DEF Spec, MimariUygular, Makine!MimariSpec

=============================================================================
