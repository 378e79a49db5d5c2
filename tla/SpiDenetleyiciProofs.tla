------------------------ MODULE SpiDenetleyiciProofs ------------------------
(* The proofs about SpiDenetleyici: its inductive invariant, and that no access   *)
(* is answered by the acknowledge of another, for every width of the counters,     *)
(* every number of data registers and every set of commands whose write enables    *)
(* keep the prescaler low.                                                         *)
EXTENDS SpiDenetleyici, SequenceTheorems, TLAPS

-----------------------------------------------------------------------------
(* Words of bits *)

Sozcuk == [1 .. KelimeBit -> BitTipi]

LEMMA KelimeBitTipi == KelimeBit \in Nat /\ KelimeBit >= 4
BY SpiVarsayimi DEF KelimeBit

LEMMA EklenenTipi ==
    ASSUME NEW S, NEW a \in Seq(S), NEW b \in Seq(S)
    PROVE  a \o b \in Seq(S) /\ Len(a \o b) = Len(a) + Len(b)
OBVIOUS

LEMMA BitlerTipi ==
    ASSUME NEW kaynak \in {"z", "komut", "adres", "dr", "flash", "sifir"},
           NEW ilk \in Nat, NEW adet \in Nat
    PROVE  Bitler(kaynak, ilk, adet) \in [1 .. adet -> BitTipi]
<1>1. \A i \in 1 .. adet : <<kaynak, ilk + i - 1>> \in BitTipi
  BY DEF BitTipi
<1> QED
  BY <1>1 DEF Bitler

LEMMA SifirlarTipi ==
    ASSUME NEW n \in Nat
    PROVE  Sifirlar(n) \in [1 .. n -> BitTipi]
BY DEF Sifirlar, BitTipi

\* A word shifted by what comes in is a word.
LEMMA KaydirTipi ==
    ASSUME NEW b \in Sozcuk, NEW n \in 0 .. KelimeBit, NEW y \in [1 .. n -> BitTipi]
    PROVE  Kaydir(b, y) \in Sozcuk
<1>1. KelimeBit \in Nat
  BY KelimeBitTipi
<1>2. b \in Seq(BitTipi) /\ Len(b) = KelimeBit
  BY <1>1 DEF Sozcuk
<1>3. y \in Seq(BitTipi) /\ Len(y) = n
  BY <1>1
<1>4. /\ SubSeq(b, n + 1, KelimeBit) \in Seq(BitTipi)
      /\ Len(SubSeq(b, n + 1, KelimeBit)) = KelimeBit - n
  BY <1>1, <1>2
<1>5. /\ Kaydir(b, y) \in Seq(BitTipi)
      /\ Len(Kaydir(b, y)) = KelimeBit
  BY <1>1, <1>2, <1>3, <1>4 DEF Kaydir
<1> QED
  BY <1>1, <1>5 DEF Sozcuk

\* The header fills a word.
LEMMA BaslikTipi ==
    ASSUME NEW c
    PROVE  /\ BaslikSozcuk(c) \in Sozcuk
           /\ BaslikBit(c) \in 1 .. KelimeBit
<1>1. KomutBit \in Nat \ {0} /\ AdresBit \in Nat \ {0} /\ KelimeBit = KomutBit + AdresBit
  BY SpiVarsayimi DEF KelimeBit
<1>2. BaslikBit(c) \in 1 .. KelimeBit
  BY <1>1 DEF BaslikBit
<1> DEFINE k == Bitler("komut", 0, KomutBit)
           a == Bitler(IF AdrEn(c) THEN "adres" ELSE "sifir", 0, AdresBit)
<1>3. k \in [1 .. KomutBit -> BitTipi]
  BY <1>1, BitlerTipi
<1>4. a \in [1 .. AdresBit -> BitTipi]
  BY <1>1, BitlerTipi
<1>5. k \in Seq(BitTipi) /\ Len(k) = KomutBit
  BY <1>1, <1>3
<1>6. a \in Seq(BitTipi) /\ Len(a) = AdresBit
  BY <1>1, <1>4
<1>7. BaslikSozcuk(c) = k \o a
  BY DEF BaslikSozcuk
<1>8. BaslikSozcuk(c) \in Seq(BitTipi) /\ Len(BaslikSozcuk(c)) = KelimeBit
  <2> HIDE DEF k, a
  <2>1. k \o a \in Seq(BitTipi) /\ Len(k \o a) = Len(k) + Len(a)
    BY <1>5, <1>6, EklenenTipi
  <2> QED
    BY <1>1, <1>5, <1>6, <1>7, <2>1
<1>9. BaslikSozcuk(c) \in Sozcuk
  BY <1>1, <1>8 DEF Sozcuk
<1> QED
  BY <1>2, <1>9

\* A register read is a word, also when the array does not have it.
LEMMA DrOkuTipi ==
    ASSUME NEW k, dr \in [DrNolar -> Sozcuk]
    PROVE  DrOku(k) \in Sozcuk
BY DEF DrOku, Sozcuk, Z, BitTipi

-----------------------------------------------------------------------------
(* Values *)

LEMMA CcrSifirTipi == CcrSifir \in CcrTipi /\ Komutlar \cup {CcrSifir} \subseteq CcrTipi
<1>1. 0 \in 0 .. DummyGen - 1 /\ 0 \in 0 .. BoyGen - 1 /\ 0 \in 0 .. PrescaleGen - 1
  BY SpiVarsayimi
<1>2. CcrSifir \in CcrTipi
  BY <1>1 DEF CcrSifir, CcrTipi
<1>3. Komutlar \subseteq CcrTipi
  BY SpiVarsayimi
<1> QED
  BY <1>2, <1>3

LEMMA DataRateTipi ==
    ASSUME NEW c \in CcrTipi
    PROVE  DataRate(c.data_mod) \in 0 .. 3 /\ GirenBit(c.data_mod) \in {1, 2, 4}
<1>1. c.data_mod \in 0 .. 3
  BY DEF CcrTipi
<1> QED
  BY <1>1 DEF DataRate, GirenBit

\* What the registers are written with is a command or a word.
LEMMA ErisimTipi ==
    ASSUME NEW e \in Erisimler \cup {Bos}
    PROVE  /\ e.sec \in BOOLEAN /\ e.yaz \in BOOLEAN
           /\ e.yaz /\ e.hedef = "ccr" => e.ccr \in Komutlar
           /\ e.yaz /\ e.hedef = "dr" => e.no \in DrNolar
<1>1. CASE e = Bos
  BY <1>1 DEF Bos
<1>2. CASE e = Oku
  BY <1>2 DEF Oku, Erisim
<1>3. CASE e = AdrYaz
  BY <1>3 DEF AdrYaz, Erisim
<1>4. CASE \E k \in DrNolar : e = DrYaz(k)
  BY <1>4 DEF DrYaz, Erisim
<1>5. CASE \E c \in Komutlar : e = CcrYaz(c)
  BY <1>5 DEF CcrYaz, Erisim
<1> QED
  BY <1>1, <1>2, <1>3, <1>4, <1>5 DEF Erisimler

LEMMA ModTipi ==
    ASSUME NEW n \in Int, NEW m \in Nat \ {0}
    PROVE  n % m \in 0 .. m - 1
OBVIOUS

LEMMA SayacTipi ==
    ASSUME Denetim, NEW n \in Int
    PROVE  BitAzalt(n) \in 0 .. SayacGen - 1
<1>1. SayacGen \in Nat \ {0}
  BY SpiVarsayimi, KelimeBitTipi
<1>2. bit_ctr - n \in Int
  BY <1>1 DEF Denetim, TipDogru
<1> QED
  BY <1>1, <1>2, ModTipi DEF BitAzalt

\* The flash answers with as many bits as the mode takes.
LEMMA OkunanTipi ==
    ASSUME Denetim
    PROVE  Okunan \in Sozcuk
<1> DEFINE n == GirenBit(ccr.data_mod)
           t == saat - (BaslikBit(komut.ccr) + komut.ccr.dummy)
<1>1. ccr \in CcrTipi /\ komut.ccr \in CcrTipi /\ saat \in Nat /\ buffer \in Sozcuk
  BY SpiVarsayimi DEF Denetim, TipDogru, Sozcuk, SaatSiniri
<1>2. n \in {1, 2, 4} /\ n \in 0 .. KelimeBit
  BY <1>1, DataRateTipi, KelimeBitTipi
<1>3. t \in Int
  <2>1. BaslikBit(komut.ccr) \in Int
    BY BaslikTipi, KelimeBitTipi
  <2>2. komut.ccr.dummy \in Int
    BY <1>1 DEF CcrTipi
  <2> QED
    BY <1>1, <2>1, <2>2
<1>4. FlashBitleri \in [1 .. n -> BitTipi]
  <2>1. FlashBitleri = IF t >= 0 THEN Bitler("flash", n * t, n) ELSE [i \in 1 .. n |-> Z]
    BY DEF FlashBitleri
  <2>2. t >= 0 => n * t \in Nat
    BY <1>2, <1>3
  <2>3. n \in Nat
    BY <1>2
  <2> HIDE DEF n, t
  <2>4. [i \in 1 .. n |-> Z] \in [1 .. n -> BitTipi]
    BY DEF Z, BitTipi
  <2>5. CASE t >= 0
    BY <2>1, <2>2, <2>3, <2>5, BitlerTipi
  <2>6. CASE ~(t >= 0)
    BY <2>1, <2>4, <2>6
  <2> QED
    BY <2>5, <2>6
<1> QED
  BY <1>1, <1>2, <1>4, KaydirTipi DEF Okunan

-----------------------------------------------------------------------------
(* Types *)

\* What a step of the command side leaves behind.
YolTipi ==
    /\ ccr \in Komutlar \cup {CcrSifir}
    /\ dr \in [DrNolar -> Sozcuk]
    /\ state \in {"IDLE", "INST", "DUMMY", "WRITE", "READ"}
    /\ bit_ctr \in 0 .. SayacGen - 1
    /\ word_ctr \in 0 .. KelimeGen - 1
    /\ buffer \in Sozcuk
    /\ inst_flag \in BOOLEAN /\ ack_flag \in BOOLEAN
    /\ out_mod \in 0 .. 3
    /\ komut.ccr \in CcrTipi /\ saat \in 0 .. SaatSiniri

LEMMA TipYol == ASSUME Denetim PROVE YolTipi
BY DEF Denetim, TipDogru, YolTipi, Sozcuk

LEMMA SabitlerTipi ==
    /\ 0 \in 0 .. SayacGen - 1 /\ 1 \in 0 .. SayacGen - 1 /\ SayacGen \in Nat \ {0}
    /\ 0 \in 0 .. KelimeGen - 1 /\ KelimeGen \in Nat \ {0}
    /\ 0 \in DrNolar /\ 0 \in 0 .. SaatSiniri /\ SaatSiniri \in Nat
    /\ KomutYok.ccr \in CcrTipi
<1>1. SayacGen \in Nat /\ SayacGen > 4
  BY KelimeBitTipi, SpiVarsayimi
<1> QED
  BY <1>1, SpiVarsayimi, KelimeBitTipi, CcrSifirTipi DEF DrNolar, SaatSiniri, KomutYok

LEMMA YazmaclarTip ==
    ASSUME Denetim, Yazmaclar
    PROVE  /\ ccr' \in Komutlar \cup {CcrSifir}
           /\ dr' \in [DrNolar -> Sozcuk]
           /\ inst_flag' \in BOOLEAN
<1>1. YolTipi /\ istek \in Erisimler \cup {Bos}
  BY TipYol DEF Denetim, TipDogru
<1>2. ccr' \in Komutlar \cup {CcrSifir}
  BY <1>1, ErisimTipi DEF Yazmaclar, CcrYazilir, YolTipi
<1>3. inst_flag' \in BOOLEAN
  BY DEF Yazmaclar
<1>4. dr' \in [DrNolar -> Sozcuk]
  <2>1. CASE Erisilir /\ istek.yaz /\ istek.hedef = "dr"
    <3>1. istek.no \in DrNolar
      BY <1>1, <2>1, ErisimTipi
    <3>2. istek.no * KelimeBit \in Nat
      BY <3>1, KelimeBitTipi, SpiVarsayimi DEF DrNolar
    <3>3. DrSozcuk(istek.no) \in Sozcuk
      BY <3>2, KelimeBitTipi, BitlerTipi DEF DrSozcuk, Sozcuk
    <3> QED
      BY <1>1, <2>1, <3>3 DEF Yazmaclar, YolTipi
  <2>2. CASE ~(Erisilir /\ istek.yaz /\ istek.hedef = "dr")
    BY <1>1, <2>2 DEF Yazmaclar, YolTipi
  <2> QED
    BY <2>1, <2>2
<1> QED
  BY <1>2, <1>3, <1>4

\* The clocked registers of a bit time.
LEMMA BitTip ==
    ASSUME Denetim, NEW durum, Bit(durum)
    PROVE  komut'.ccr \in CcrTipi /\ saat' \in 0 .. SaatSiniri
<1>1. saat \in 0 .. SaatSiniri /\ SaatSiniri \in Nat /\ komut.ccr \in CcrTipi
  BY SabitlerTipi DEF Denetim, TipDogru
<1> QED
  BY <1>1 DEF Bit

LEMMA VeriBaslaTip ==
    ASSUME Denetim, VeriBasla
    PROVE  /\ state' \in {"IDLE", "WRITE", "READ"}
           /\ ack_flag' \in BOOLEAN
           /\ bit_ctr' \in 0 .. SayacGen - 1
           /\ word_ctr' \in 0 .. KelimeGen - 1
           /\ buffer' \in Sozcuk
<1>1. ccr \in CcrTipi /\ dr \in [DrNolar -> Sozcuk]
  BY TipYol, CcrSifirTipi DEF YolTipi
<1>2. ccr.boy \in Nat /\ BaytBit \in Nat
  BY <1>1, SpiVarsayimi DEF CcrTipi
<1>3. ccr.boy * BaytBit \in Int
  BY <1>2
<1>4. bit_ctr' \in 0 .. SayacGen - 1
  BY <1>3, SabitlerTipi, ModTipi DEF VeriBasla
<1>5. ack_flag' \in BOOLEAN
  BY DEF VeriBasla
<1>6. state' \in {"IDLE", "WRITE", "READ"}
  BY DEF VeriBasla
<1>7. word_ctr' \in 0 .. KelimeGen - 1 /\ buffer' \in Sozcuk
  BY <1>1, SabitlerTipi DEF VeriBasla
<1> QED
  BY <1>4, <1>5, <1>6, <1>7

LEMMA BostaTip == ASSUME Denetim, Bosta PROVE YolTipi'
<1>1. YolTipi
  BY TipYol
<1>2. Yazmaclar /\ UNCHANGED yolVars
  BY DEF Bosta
<1>3. ack_flag' \in BOOLEAN
  BY DEF Bosta
<1>4. komut'.ccr \in CcrTipi /\ saat' \in 0 .. SaatSiniri
  BY <1>1, SabitlerTipi DEF Bosta, GecmisSil, gecmisVars, YolTipi
<1> QED
  BY <1>1, <1>2, <1>3, <1>4, YazmaclarTip DEF YolTipi, yolVars

LEMMA BaslatTip == ASSUME Denetim, Baslat PROVE YolTipi'
<1>1. YolTipi
  BY TipYol
<1>2. Yazmaclar
  BY DEF Baslat
<1>3. BaslikBit(ccr) \in 0 .. SayacGen - 1
  BY BaslikTipi, KelimeBitTipi, SpiVarsayimi
<1>4. komut'.ccr \in CcrTipi /\ saat' \in 0 .. SaatSiniri
  BY <1>1, SabitlerTipi, CcrSifirTipi DEF Baslat, YolTipi
<1> QED
  BY <1>1, <1>2, <1>3, <1>4, YazmaclarTip, BaslikTipi DEF Baslat, YolTipi

LEMMA InstTip == ASSUME Denetim, InstGonder \/ InstBiter PROVE YolTipi'
<1>1. YolTipi /\ ccr \in CcrTipi
  BY TipYol, CcrSifirTipi DEF YolTipi
<1>2. Kaydir(buffer, Sifirlar(1)) \in Sozcuk
  BY <1>1, KelimeBitTipi, SifirlarTipi, KaydirTipi DEF YolTipi
<1>3. CASE InstGonder
  <2>1. bit_ctr' \in 0 .. SayacGen - 1
    BY <1>1, <1>3, SabitlerTipi DEF InstGonder, YolTipi
  <2>2. Bit("INST")
    BY <1>3 DEF InstGonder
  <2> QED
    BY <1>1, <1>2, <1>3, <2>1, <2>2, BitTip DEF InstGonder, YolTipi
<1>4. CASE InstBiter
  <2>1. OutMod \in 0 .. 3
    BY <1>1 DEF OutMod, CcrTipi
  <2>2. Bit("INST")
    BY <1>4 DEF InstBiter
  <2>3. ccr' = ccr /\ dr' = dr /\ inst_flag' = FALSE /\ out_mod' = OutMod
    BY <1>4 DEF InstBiter
  <2>4. CASE ccr.dummy # 0 /\ state' = "DUMMY" /\ bit_ctr' = ccr.dummy
             /\ buffer' = Kaydir(buffer, Sifirlar(1)) /\ UNCHANGED <<ack_flag, word_ctr>>
    <3>1. ccr.dummy \in 0 .. SayacGen - 1
      BY <1>1, SpiVarsayimi DEF CcrTipi
    <3> QED
      BY <1>1, <1>2, <2>1, <2>2, <2>3, <2>4, <3>1, BitTip DEF YolTipi
  <2>5. CASE VeriBasla
    BY <1>1, <2>1, <2>2, <2>3, <2>5, BitTip, VeriBaslaTip DEF YolTipi
  <2> QED
    BY <1>4, <2>4, <2>5 DEF InstBiter
<1> QED
  BY <1>3, <1>4

LEMMA DummyTip == ASSUME Denetim, DummySay \/ DummyBiter PROVE YolTipi'
<1>1. YolTipi /\ ccr \in CcrTipi
  BY TipYol, CcrSifirTipi DEF YolTipi
<1>2. CASE DummySay
  <2>1. BitAzalt(DataRate(ccr.data_mod)) \in 0 .. SayacGen - 1
    BY <1>1, DataRateTipi, SayacTipi
  <2>2. Bit("DUMMY")
    BY <1>2 DEF DummySay
  <2> QED
    BY <1>1, <1>2, <2>1, <2>2, BitTip DEF DummySay, YolTipi
<1>3. CASE DummyBiter
  <2>1. Bit("DUMMY") /\ VeriBasla
    BY <1>3 DEF DummyBiter
  <2> QED
    BY <1>1, <1>3, <2>1, BitTip, VeriBaslaTip DEF DummyBiter, YolTipi
<1> QED
  BY <1>2, <1>3

LEMMA SozcukSayTip == ASSUME Denetim PROVE (word_ctr + 1) % KelimeGen \in 0 .. KelimeGen - 1
<1>1. word_ctr + 1 \in Int
  BY SabitlerTipi DEF Denetim, TipDogru
<1> QED
  BY <1>1, SabitlerTipi, ModTipi

LEMMA YazTip == ASSUME Denetim, VeriYaz \/ VeriYazBiter PROVE YolTipi'
<1>1. YolTipi /\ ccr \in CcrTipi
  BY TipYol, CcrSifirTipi DEF YolTipi
<1>2. CASE VeriYaz
  <2>1. DataRate(ccr.data_mod) \in 0 .. 3 /\ DataRate(ccr.data_mod) \in 0 .. KelimeBit
    BY <1>1, DataRateTipi, KelimeBitTipi
  <2>2. BitAzalt(DataRate(ccr.data_mod)) \in 0 .. SayacGen - 1
    BY <2>1, SayacTipi
  <2>3. DrOku(word_ctr) \in Sozcuk
    BY <1>1, DrOkuTipi DEF YolTipi
  <2>4. Kaydir(buffer, Sifirlar(DataRate(ccr.data_mod))) \in Sozcuk
    BY <1>1, <2>1, SifirlarTipi, KaydirTipi DEF YolTipi
  <2>5. Bit("WRITE")
    BY <1>2 DEF VeriYaz
  <2> QED
    BY <1>1, <1>2, <2>2, <2>3, <2>4, <2>5, BitTip, SozcukSayTip DEF VeriYaz, YolTipi
<1>3. CASE VeriYazBiter
  <2>1. Bit("WRITE")
    BY <1>3 DEF VeriYazBiter
  <2> QED
    BY <1>1, <1>3, <2>1, BitTip, SabitlerTipi DEF VeriYazBiter, Bitir, YolTipi
<1> QED
  BY <1>2, <1>3

LEMMA OkuTip == ASSUME Denetim, VeriOku \/ VeriOkuBiter PROVE YolTipi'
<1>1. YolTipi /\ ccr \in CcrTipi /\ Okunan \in Sozcuk
  BY TipYol, CcrSifirTipi, OkunanTipi DEF YolTipi
<1>2. dr' \in [DrNolar -> Sozcuk]
  BY <1>1 DEF VeriOku, VeriOkuBiter, DrYazilir, YolTipi
<1>3. CASE VeriOku
  <2>1. BitAzalt(DataRate(ccr.data_mod)) \in 0 .. SayacGen - 1
    BY <1>1, DataRateTipi, SayacTipi
  <2>2. Bit("READ")
    BY <1>3 DEF VeriOku
  <2> QED
    BY <1>1, <1>2, <1>3, <2>1, <2>2, BitTip, SozcukSayTip DEF VeriOku, YolTipi
<1>4. CASE VeriOkuBiter
  <2>1. Bit("READ")
    BY <1>4 DEF VeriOkuBiter
  <2> QED
    BY <1>1, <1>2, <1>4, <2>1, BitTip, SabitlerTipi DEF VeriOkuBiter, Bitir, YolTipi
<1> QED
  BY <1>3, <1>4

\* The command side keeps its types at every clock edge.
LEMMA SaatYolTip == ASSUME Denetim, Saat PROVE YolTipi'
<1>1. CASE Bekle
  BY <1>1, TipYol DEF Bekle, YolTipi, yolVars, gecmisVars
<1>2. CASE Komut
  BY <1>2, InstTip, DummyTip, YazTip, OkuTip DEF Komut
<1> QED
  BY <1>1, <1>2, BostaTip, BaslatTip DEF Saat

LEMMA BolucuTip ==
    ASSUME Denetim, Bolucu, ccr' \in CcrTipi
    PROVE  prescale_ctr' \in 0 .. PrescaleGen - 1 /\ clock_en' \in BOOLEAN
<1>1. ccr \in CcrTipi /\ prescale_ctr \in 0 .. PrescaleGen - 1
  BY DEF Denetim, TipDogru
<1>2. PICK p \in {ccr.prescale, IF state = "IDLE" THEN ccr'.prescale ELSE ccr.prescale} :
          /\ clock_en' = (prescale_ctr >= p)
          /\ prescale_ctr' = IF prescale_ctr < p THEN prescale_ctr + 1 ELSE 0
  BY DEF Bolucu
<1>3. p \in 0 .. PrescaleGen - 1
  BY <1>1 DEF CcrTipi
<1>4. PrescaleGen \in Nat \ {0}
  BY SpiVarsayimi
<1> QED
  BY <1>1, <1>2, <1>3, <1>4

\* The access on the bus stays, goes, or comes.
LEMMA MasterTip ==
    ASSUME Denetim, Master
    PROVE  /\ istek' \in Erisimler \cup {Bos}
           /\ ara' \in BOOLEAN /\ islendi' \in BOOLEAN
<1>1. /\ istek \in Erisimler \cup {Bos} /\ ara \in BOOLEAN /\ islendi \in BOOLEAN
  BY DEF Denetim, TipDogru
<1>2. (islendi \/ Erisilir) \in BOOLEAN
  OBVIOUS
<1> QED
  BY <1>1, <1>2 DEF Master

LEMMA SaatTip == ASSUME Denetim, Saat PROVE TipDogru' /\ ccr' \in Komutlar \cup {CcrSifir}
<1>1. YolTipi' /\ ccr' \in CcrTipi
  BY SaatYolTip, CcrSifirTipi DEF YolTipi
<1>2. prescale_ctr' \in 0 .. PrescaleGen - 1 /\ clock_en' \in BOOLEAN
  BY <1>1, BolucuTip DEF Saat
<1>3. istek' \in Erisimler \cup {Bos} /\ ara' \in BOOLEAN /\ islendi' \in BOOLEAN
  BY MasterTip DEF Saat
<1>4. ack' \in BOOLEAN
  BY DEF Saat, AckSonraki
<1> QED
  BY <1>1, <1>2, <1>3, <1>4 DEF YolTipi, TipDogru, Sozcuk

-----------------------------------------------------------------------------
(* Control *)

\* With every cycle the next clock_en is one cycle nearer.
LEMMA YakinAdim ==
    ASSUME Denetim, Bolucu, ~clock_en, ccr' = ccr, NEW n \in Nat, Yakin(n)
    PROVE  /\ Yakin(n + 1)'
           /\ ccr.prescale <= n => clock_en'
<1>1. prescale_ctr \in Nat /\ ccr.prescale \in Nat
  BY SpiVarsayimi DEF Denetim, TipDogru, CcrTipi
<1>2. /\ clock_en' = (prescale_ctr >= ccr.prescale)
      /\ prescale_ctr' = IF prescale_ctr < ccr.prescale THEN prescale_ctr + 1 ELSE 0
  BY DEF Bolucu
<1>3. CASE prescale_ctr >= ccr.prescale
  BY <1>2, <1>3 DEF Yakin
<1>4. CASE ~(prescale_ctr >= ccr.prescale)
  <2>1. prescale_ctr >= n /\ prescale_ctr < ccr.prescale
    BY <1>1, <1>4 DEF Yakin
  <2>2. prescale_ctr' >= n + 1 /\ ~(ccr.prescale <= n)
    BY <1>1, <1>2, <2>1
  <2> QED
    BY <2>2 DEF Yakin
<1> QED
  BY <1>3, <1>4

\* The bus side in IDLE.
LEMMA BostaDenetim ==
    ASSUME Denetim, Bosta, ack' = AckSonraki, Master, Bolucu
    PROVE  (KomutSurer /\ BayrakIner /\ ErisimTam)'
<1>1. /\ KomutSurer /\ BayrakIner /\ ErisimTam
      /\ ack \in BOOLEAN /\ ara \in BOOLEAN /\ istek.sec \in BOOLEAN
  BY ErisimTipi DEF Denetim, TipDogru
<1>2. /\ state = "IDLE" /\ state' = "IDLE"
      /\ inst_flag' = (inst_flag \/ CcrYazilir)
      /\ ack_flag' = (ack_flag /\ ~clock_en)
      /\ ccr' = IF CcrYazilir THEN istek.ccr ELSE ccr
  BY DEF Bosta, Yazmaclar, yolVars
<1>3. Bos.sec = FALSE
  BY DEF Bos
<1>4. KomutSurer'
  <2>1. inst_flag' => istek.sec /\ istek.yaz /\ istek.hedef = "ccr" /\ ~ack /\ ~ack_flag
    BY <1>1, <1>2 DEF KomutSurer, CcrYazilir, Erisilir
  <2>2. inst_flag' => CcrYazilir /\ Erisilir
    BY <1>2, <2>1 DEF CcrYazilir, Erisilir
  <2>3. inst_flag' => ~ack' /\ istek' = istek /\ islendi'
    BY <2>1, <2>2 DEF AckSonraki, Master
  <2> QED
    BY <1>2, <2>1, <2>3 DEF KomutSurer
<1>5. ack_flag' => ack_flag /\ ~clock_en /\ ccr' = ccr /\ ~Erisilir
  BY <1>2 DEF CcrYazilir, Erisilir
<1>6. CASE istek.sec /\ ~ack
  <2>1. istek' = istek /\ ara' = ara /\ islendi' = (islendi \/ Erisilir)
    BY <1>6 DEF Master
  <2>2. ack_flag' => ack' /\ islendi'
    BY <1>1, <1>2, <1>5, <1>6, <2>1 DEF AckSonraki, BayrakIner
  <2>3. ack_flag' => Yakin(2)'
    <3> SUFFICES ASSUME ack_flag'
                 PROVE  Yakin(2)'
      OBVIOUS
    <3>1. Yakin(1)
      BY <1>1, <1>5, <1>6 DEF BayrakIner
    <3>2. Yakin(1 + 1)'
      BY <1>5, <3>1, YakinAdim
    <3> QED
      BY <3>2
  <2>4. ack_flag' => ccr'.prescale <= 3
    BY <1>1, <1>5 DEF BayrakIner
  <2>5. BayrakIner'
    BY <1>6, <2>1, <2>2, <2>3, <2>4 DEF BayrakIner
  <2>6. ack' => islendi'
    BY <1>1, <1>2, <1>6, <2>1 DEF AckSonraki, BayrakIner, Erisilir
  <2>7. ErisimTam'
    BY <1>2, <1>4, <2>6 DEF ErisimTam, KomutSurer
  <2> QED
    BY <1>4, <2>5, <2>7
<1>7. CASE istek.sec /\ ack
  <2>1. istek'.sec = FALSE /\ ara' = FALSE /\ ~ack'
    BY <1>3, <1>7 DEF Master, AckSonraki
  <2>2. ack_flag' => Yakin(3)' /\ ccr'.prescale <= 3
    <3> SUFFICES ASSUME ack_flag'
                 PROVE  Yakin(3)' /\ ccr'.prescale <= 3
      OBVIOUS
    <3>1. Yakin(2) /\ ccr.prescale <= 3
      BY <1>1, <1>5, <1>7 DEF BayrakIner
    <3>2. Yakin(2 + 1)'
      BY <1>5, <3>1, YakinAdim
    <3> QED
      BY <1>5, <3>1, <3>2
  <2> QED
    BY <1>4, <2>1, <2>2 DEF BayrakIner, ErisimTam
<1>8. CASE ~istek.sec /\ ~ara
  <2>1. istek' = Bos /\ ara' = TRUE
    BY <1>8 DEF Master
  <2>2. ack_flag' => clock_en' /\ ack' /\ ccr'.prescale <= 3
    <3> SUFFICES ASSUME ack_flag'
                 PROVE  clock_en' /\ ack' /\ ccr'.prescale <= 3
      OBVIOUS
    <3>1. Yakin(3) /\ ccr.prescale <= 3 /\ ~ack
      BY <1>1, <1>5, <1>8 DEF BayrakIner
    <3>2. clock_en'
      BY <1>5, <3>1, YakinAdim
    <3> QED
      BY <1>2, <1>5, <3>1, <3>2 DEF AckSonraki
  <2> QED
    BY <1>3, <1>4, <2>1, <2>2 DEF BayrakIner, ErisimTam
<1>9. CASE ~istek.sec /\ ara
  <2>1. ack_flag => clock_en /\ ack
    BY <1>1, <1>9 DEF BayrakIner
  <2>2. ~ack_flag' /\ ~ack'
    BY <1>2, <1>9, <2>1 DEF AckSonraki
  <2> QED
    BY <1>4, <2>2 DEF BayrakIner, ErisimTam
<1> QED
  BY <1>1, <1>6, <1>7, <1>8, <1>9

\* A command holds its access.
LEMMA KomutDenetim ==
    ASSUME Denetim, state # "IDLE" \/ inst_flag, ack' = AckSonraki, Master
    PROVE  /\ istek' = istek /\ islendi' /\ ~ack' /\ ~ack_flag
           /\ istek.sec /\ istek.yaz /\ istek.hedef = "ccr"
<1>1. istek.sec /\ istek.yaz /\ istek.hedef = "ccr" /\ islendi /\ ~ack /\ ~ack_flag
  BY DEF Denetim, KomutSurer
<1>2. istek' = istek /\ islendi'
  BY <1>1 DEF Master
<1>3. ~ack'
  BY <1>1 DEF AckSonraki, CcrYazilir, Erisilir
<1> QED
  BY <1>1, <1>2, <1>3

\* A command starts or goes on: it ends with the acknowledge flag up, and the prescaler
\* of its access.
LEMMA SurenDenetim ==
    ASSUME Denetim, Baslat \/ Bekle \/ Komut, ack' = AckSonraki, Master, Bolucu
    PROVE  (KomutSurer /\ BayrakIner /\ ErisimTam)'
<1>1. state # "IDLE" \/ inst_flag
  BY DEF Baslat, Baslar, Bekle, Komut, Bit, InstGonder, InstBiter, DummySay, DummyBiter,
         VeriYaz, VeriYazBiter, VeriOku, VeriOkuBiter
<1>2. /\ istek' = istek /\ islendi' /\ ~ack' /\ ~ack_flag
      /\ istek.sec /\ istek.yaz /\ istek.hedef = "ccr"
  BY <1>1, KomutDenetim
<1>3. state \in {"DUMMY", "WRITE", "READ"} => ~inst_flag
  BY DEF Denetim, KomutSurer
<1>4. /\ state' # "IDLE" => ~ack_flag'
      /\ state' \in {"DUMMY", "WRITE", "READ"} => ~inst_flag'
      /\ state' = "IDLE" => ~inst_flag'
      /\ ack_flag' => ccr'.prescale <= 3 /\ state # "IDLE"
  <2>1. CASE Baslat
    BY <2>1 DEF Baslat
  <2>2. CASE Bekle
    BY <1>2, <1>3, <2>2 DEF Bekle, yolVars
  <2>3. CASE InstGonder \/ DummySay \/ VeriYaz \/ VeriOku
    BY <1>2, <1>3, <2>3 DEF InstGonder, DummySay, VeriYaz, VeriOku, Bit
  <2>4. CASE VeriYazBiter \/ VeriOkuBiter
    <3>1. CcrSifir.prescale = 0
      BY DEF CcrSifir
    <3> QED
      BY <1>3, <2>4, <3>1 DEF VeriYazBiter, VeriOkuBiter, Bit, Bitir
  <2>5. CASE InstBiter \/ DummyBiter
    <3>1. ccr' = ccr /\ state # "IDLE" /\ ~inst_flag'
      BY <1>3, <2>5 DEF InstBiter, DummyBiter, Bit
    <3>2. CASE state' = "DUMMY" /\ ack_flag' = ack_flag
      BY <1>2, <3>1, <3>2
    <3>3. CASE VeriBasla
      <4>1. ccr.inst = "wren" => ccr.prescale <= 3
        <5>1. CcrSifir.inst = "adressiz"
          BY DEF CcrSifir
        <5> QED
          BY <5>1, OnBolucuVarsayimi DEF Denetim
      <4> QED
        BY <3>1, <3>3, <4>1 DEF VeriBasla
    <3> QED
      BY <2>5, <3>2, <3>3 DEF InstBiter, DummyBiter
  <2> QED
    BY <2>1, <2>2, <2>3, <2>4, <2>5 DEF Komut
<1>5. ack_flag' => Yakin(1)'
  <2> SUFFICES ASSUME ack_flag'
               PROVE  Yakin(1)'
    OBVIOUS
  <2>1. prescale_ctr \in Nat /\ ccr.prescale \in Nat
    BY SpiVarsayimi DEF Denetim, TipDogru, CcrTipi
  <2>2. /\ clock_en' = (prescale_ctr >= ccr.prescale)
        /\ prescale_ctr' = IF prescale_ctr < ccr.prescale THEN prescale_ctr + 1 ELSE 0
    BY <1>4 DEF Bolucu
  <2>3. CASE prescale_ctr >= ccr.prescale
    BY <2>2, <2>3 DEF Yakin
  <2>4. CASE ~(prescale_ctr >= ccr.prescale)
    <3>1. prescale_ctr' >= 1
      BY <2>1, <2>2, <2>4
    <3> QED
      BY <3>1 DEF Yakin
  <2> QED
    BY <2>3, <2>4
<1>6. KomutSurer'
  BY <1>2, <1>4 DEF KomutSurer
<1>7. BayrakIner'
  BY <1>2, <1>4, <1>5 DEF BayrakIner
<1>8. ErisimTam'
  BY <1>2 DEF ErisimTam
<1> QED
  BY <1>6, <1>7, <1>8

LEMMA BaslangicDenetim == ASSUME Init PROVE Denetim
<1>1. ccr \in CcrTipi /\ komut.ccr \in CcrTipi /\ saat \in 0 .. SaatSiniri
  BY CcrSifirTipi, SabitlerTipi DEF Init
<1>2. buffer \in Sozcuk /\ dr \in [DrNolar -> Sozcuk]
  BY KelimeBitTipi, SifirlarTipi DEF Init, DrSifir, Sozcuk
<1>3. /\ bit_ctr \in 0 .. SayacGen - 1 /\ word_ctr \in 0 .. KelimeGen - 1
      /\ prescale_ctr \in 0 .. PrescaleGen - 1
  BY SabitlerTipi, SpiVarsayimi DEF Init
<1>4. /\ inst_flag \in BOOLEAN /\ ack \in BOOLEAN /\ ack_flag \in BOOLEAN
      /\ clock_en \in BOOLEAN /\ ara \in BOOLEAN /\ islendi \in BOOLEAN
  BY DEF Init
<1>5. state = "IDLE" /\ out_mod \in 0 .. 3 /\ istek \in Erisimler \cup {Bos}
  BY DEF Init
<1>6. TipDogru
  BY <1>1, <1>2, <1>3, <1>4, <1>5 DEF TipDogru, Sozcuk
<1>7. Bos.sec = FALSE
  BY DEF Bos
<1> QED
  BY <1>6, <1>7 DEF Init, Denetim, ErisimTam, KomutSurer, BayrakIner

LEMMA SifirlaDenetim == ASSUME Sifirla PROVE Denetim'
<1>1. ccr' \in CcrTipi /\ komut'.ccr \in CcrTipi /\ saat' \in 0 .. SaatSiniri
  BY CcrSifirTipi, SabitlerTipi DEF Sifirla, GecmisSil
<1>2. buffer' \in Sozcuk /\ dr' \in [DrNolar -> Sozcuk]
  BY KelimeBitTipi, SifirlarTipi DEF Sifirla, DrSifir, Sozcuk
<1>3. /\ bit_ctr' \in 0 .. SayacGen - 1 /\ word_ctr' \in 0 .. KelimeGen - 1
      /\ prescale_ctr' \in 0 .. PrescaleGen - 1
  BY SabitlerTipi, SpiVarsayimi DEF Sifirla
<1>4. /\ inst_flag' \in BOOLEAN /\ ack' \in BOOLEAN /\ ack_flag' \in BOOLEAN
      /\ clock_en' \in BOOLEAN /\ ara' \in BOOLEAN /\ islendi' \in BOOLEAN
  BY DEF Sifirla
<1>5. state' = "IDLE" /\ out_mod' \in 0 .. 3 /\ istek' \in Erisimler \cup {Bos}
  BY DEF Sifirla
<1>6. TipDogru'
  BY <1>1, <1>2, <1>3, <1>4, <1>5 DEF TipDogru, Sozcuk
<1>7. Bos.sec = FALSE
  BY DEF Bos
<1> QED
  BY <1>6, <1>7 DEF Sifirla, Denetim, ErisimTam, KomutSurer, BayrakIner

LEMMA AdimDenetim == ASSUME Denetim, [Next]_vars PROVE Denetim'
<1>1. CASE Saat
  <2>1. TipDogru' /\ ccr' \in Komutlar \cup {CcrSifir}
    BY <1>1, SaatTip
  <2>2. (KomutSurer /\ BayrakIner /\ ErisimTam)'
    BY <1>1, BostaDenetim, SurenDenetim DEF Saat
  <2> QED
    BY <2>1, <2>2 DEF Denetim
<1>2. CASE Sifirla
  BY <1>2, SifirlaDenetim
<1>3. CASE UNCHANGED vars
  <2> USE <1>3 DEF vars, yolVars, gecmisVars
  <2>1. TipDogru' /\ ccr' \in Komutlar \cup {CcrSifir}
    BY DEF Denetim, TipDogru
  <2>2. (KomutSurer /\ BayrakIner /\ ErisimTam)'
    BY DEF Denetim, KomutSurer, BayrakIner, ErisimTam, Yakin
  <2> QED
    BY <2>1, <2>2 DEF Denetim
<1> QED
  BY <1>1, <1>2, <1>3 DEF Next

-----------------------------------------------------------------------------
(* Bits on the wire *)

\* Which counts end a word.
LEMMA KelimeSonuYok ==
    ASSUME NEW m \in 2 .. KelimeBit
    PROVE  m % KelimeBit # 1
BY KelimeBitTipi

LEMMA ModKalan ==
    ASSUME NEW d \in Nat \ {0}, NEW a \in Nat, NEW x \in 0 .. d - 1
    PROVE  (a * d + x) % d = x
OBVIOUS

LEMMA KelimeSonuAnlami ==
    ASSUME NEW a \in Nat, NEW m \in Nat,
           a * KelimeBit < m, m <= a * KelimeBit + KelimeBit
    PROVE  m % KelimeBit = 1 <=> m = a * KelimeBit + 1
<1> DEFINE d == KelimeBit
<1>1. d \in Nat \ {0} /\ d >= 4 /\ a * d \in Nat
  BY KelimeBitTipi
<1> HIDE DEF d
<1>2. CASE m = a * d + d
  <2>1. m = (a + 1) * d + 0 /\ a + 1 \in Nat /\ 0 \in 0 .. d - 1
    BY <1>1, <1>2
  <2>2. m % d = 0
    BY <1>1, <2>1, ModKalan
  <2> QED
    BY <1>1, <1>2, <2>2 DEF d
<1>3. CASE m # a * d + d
  <2> DEFINE x == m - a * d
  <2>1. x \in 1 .. d - 1 /\ x \in 0 .. d - 1 /\ m = a * d + x
    BY <1>1, <1>3 DEF d
  <2> HIDE DEF x
  <2>2. m % d = x
    BY <1>1, <2>1, ModKalan
  <2> QED
    BY <1>1, <2>1, <2>2 DEF d
<1> QED
  BY <1>2, <1>3

LEMMA OnekEkle ==
    ASSUME NEW S, NEW s \in Seq(S), NEW n \in Nat, n < Len(s)
    PROVE  SubSeq(s, 1, n + 1) = Append(SubSeq(s, 1, n), s[n + 1])
OBVIOUS

LEMMA EkleSona ==
    ASSUME NEW S, NEW s \in Seq(S), NEW t \in Seq(S), NEW x \in S
    PROVE  s \o Append(t, x) = Append(s \o t, x)
OBVIOUS

LEMMA BosEkle ==
    ASSUME NEW S, NEW s \in Seq(S)
    PROVE  s \o <<>> = s
OBVIOUS

LEMMA VeriBos == ASSUME NEW d PROVE Veri(d, 0) = <<>>
BY DEF Veri

\* The first word of the data.
LEMMA VeriTipi ==
    ASSUME NEW d \in [DrNolar -> Sozcuk], NEW n \in 0 .. KelimeBit
    PROVE  /\ Veri(d, n) \in Seq(BitTipi) /\ Len(Veri(d, n)) = n
           /\ \A i \in 1 .. n : Veri(d, n)[i] = d[0][i]
<1>1. KelimeBit \in Nat /\ 0 \in DrNolar
  BY KelimeBitTipi, SpiVarsayimi DEF DrNolar
<1>2. \A i \in 1 .. n : (i - 1) \div KelimeBit = 0 /\ (i - 1) % KelimeBit = i - 1
  BY <1>1
<1>3. Veri(d, n) = [i \in 1 .. n |-> d[0][i]]
  BY <1>1, <1>2 DEF Veri
<1>4. \A i \in 1 .. n : d[0][i] \in BitTipi
  BY <1>1 DEF Sozcuk
<1> QED
  BY <1>1, <1>3, <1>4

LEMMA VeriEkle ==
    ASSUME NEW d \in [DrNolar -> Sozcuk], NEW n \in 0 .. KelimeBit - 1
    PROVE  Veri(d, n + 1) = Append(Veri(d, n), d[0][n + 1])
<1>1. KelimeBit \in Nat /\ n \in 0 .. KelimeBit /\ n + 1 \in 0 .. KelimeBit /\ 0 \in DrNolar
  BY KelimeBitTipi, SpiVarsayimi DEF DrNolar
<1> DEFINE v == Veri(d, n)
           w == Veri(d, n + 1)
           x == d[0][n + 1]
<1>2. /\ v \in Seq(BitTipi) /\ Len(v) = n /\ \A i \in 1 .. n : v[i] = d[0][i]
      /\ w \in Seq(BitTipi) /\ Len(w) = n + 1 /\ \A i \in 1 .. n + 1 : w[i] = d[0][i]
  BY <1>1, VeriTipi
<1>3. x \in BitTipi
  BY <1>1 DEF Sozcuk
<1>6. x = d[0][n + 1]
  OBVIOUS
<1> HIDE DEF v, w, x
<1>4. \A i \in 1 .. n : w[i] = v[i]
  BY <1>1, <1>2
<1>5. w[n + 1] = x
  BY <1>1, <1>2, <1>6
<1> QED
  BY <1>1, <1>2, <1>3, <1>4, <1>5 DEF v, w, x

\* A shift by one bit.
LEMMA KaydirBir ==
    ASSUME NEW b \in Sozcuk, NEW x \in BitTipi
    PROVE  /\ \A i \in 1 .. KelimeBit - 1 : Kaydir(b, <<x>>)[i] = b[i + 1]
           /\ Kaydir(b, <<x>>)[KelimeBit] = x
<1>1. KelimeBit \in Nat /\ KelimeBit >= 4
  BY KelimeBitTipi
<1>2. b \in Seq(BitTipi) /\ Len(b) = KelimeBit
  BY <1>1 DEF Sozcuk
<1> DEFINE s == SubSeq(b, 2, KelimeBit)
<1>3. s \in Seq(BitTipi) /\ Len(s) = KelimeBit - 1 /\ \A i \in 1 .. KelimeBit - 1 : s[i] = b[i + 1]
  BY <1>1, <1>2
<1> DEFINE y == <<x>>
<1>4. y \in Seq(BitTipi) /\ Len(y) = 1 /\ y[1] = x
  OBVIOUS
<1>5. s = SubSeq(b, 1 + 1, Len(b))
  BY <1>1, <1>2
<1> HIDE DEF s, y
<1>6. Kaydir(b, y) = s \o y
  BY <1>4, <1>5 DEF Kaydir
<1>7. ASSUME NEW i \in 1 .. KelimeBit - 1
      PROVE  (s \o y)[i] = b[i + 1]
  BY <1>1, <1>3, <1>4
<1>8. (s \o y)[KelimeBit] = x
  <2>1. KelimeBit \in 1 .. Len(s) + Len(y) /\ ~(KelimeBit <= Len(s)) /\ KelimeBit - Len(s) = 1
    BY <1>1, <1>3, <1>4
  <2>2. (s \o y)[KelimeBit] = y[KelimeBit - Len(s)]
    BY <1>3, <1>4, <2>1, ConcatProperties
  <2> QED
    BY <1>4, <2>1, <2>2
<1>9. \A i \in 1 .. KelimeBit - 1 : Kaydir(b, y)[i] = b[i + 1]
  BY <1>6, <1>7, Zenon
<1>10. Kaydir(b, y)[KelimeBit] = x
  BY <1>6, <1>8, Zenon
<1> QED
  BY <1>9, <1>10, Zenon DEF y

LEMMA SifirBit == Sifirlar(1) = << <<"sifir", 0>> >> /\ <<"sifir", 0>> \in BitTipi
BY DEF Sifirlar, BitTipi

LEMMA FlashBit ==
    ASSUME NEW n \in Nat
    PROVE  Bitler("flash", n, 1) = << <<"flash", n>> >> /\ <<"flash", n>> \in BitTipi
BY DEF Bitler, BitTipi

\* The header.
LEMMA BaslikDizisi ==
    ASSUME NEW c
    PROVE  /\ BaslikSozcuk(c) \in Seq(BitTipi) /\ Len(BaslikSozcuk(c)) = KelimeBit
           /\ Baslik(c) \in Seq(BitTipi) /\ Len(Baslik(c)) = BaslikBit(c)
<1>1. KelimeBit \in Nat /\ BaslikSozcuk(c) \in Sozcuk /\ BaslikBit(c) \in 1 .. KelimeBit
  BY KelimeBitTipi, BaslikTipi
<1>2. BaslikSozcuk(c) \in Seq(BitTipi) /\ Len(BaslikSozcuk(c)) = KelimeBit
  BY <1>1 DEF Sozcuk
<1> QED
  BY <1>1, <1>2 DEF Baslik

\* As many words as hold all bits, and the first takes what is over.
LEMMA SozcukSayisi ==
    ASSUME NEW c, VeriBit(c) \in 1 .. DrSayisi * KelimeBit
    PROVE  /\ Sozcukler(c) \in 1 .. DrSayisi
           /\ (Sozcukler(c) - 1) * KelimeBit < VeriBit(c)
           /\ VeriBit(c) <= (Sozcukler(c) - 1) * KelimeBit + KelimeBit
           /\ IlkBit(c) = VeriBit(c) - (Sozcukler(c) - 1) * KelimeBit
           /\ IlkBit(c) \in 1 .. KelimeBit
<1> DEFINE d == KelimeBit
           v == VeriBit(c)
           q == (v + d - 1) \div d
<1>1. d \in Nat \ {0} /\ DrSayisi \in Nat \ {0}
  BY KelimeBitTipi, SpiVarsayimi
<1>2. v \in 1 .. DrSayisi * d
  OBVIOUS
<1>3. Sozcukler(c) = q /\ IlkBit(c) = v - (Sozcukler(c) - 1) * d
  BY DEF Sozcukler, IlkBit
<1> HIDE DEF d, v
<1>4. q \in Int /\ q * d <= v + d - 1 /\ v + d - 1 < q * d + d
  BY <1>1, <1>2
<1> HIDE DEF q
<1>5. q >= 1
  BY <1>1, <1>2, <1>4
<1>6. q <= DrSayisi
  <2> SUFFICES ASSUME q >= DrSayisi + 1 PROVE FALSE
    BY <1>1, <1>4
  <2>1. q * d >= (DrSayisi + 1) * d
    BY <1>1, <1>4
  <2> QED
    BY <1>1, <1>2, <1>4, <2>1
<1>7. (q - 1) * d = q * d - d
  BY <1>1, <1>4
<1>8. (q - 1) * d < v /\ v <= (q - 1) * d + d
  BY <1>1, <1>2, <1>4, <1>7
<1>9. v - (q - 1) * d \in 1 .. d
  BY <1>1, <1>2, <1>4, <1>7, <1>8
<1> QED
  BY <1>1, <1>3, <1>4, <1>5, <1>6, <1>8, <1>9 DEF d, v

\* The histories are long enough.
LEMMA SinirTipi ==
    /\ TelSiniri \in Nat /\ 2 * KelimeBit <= TelSiniri
    /\ SaatSiniri \in Nat /\ KelimeBit + SayacGen <= SaatSiniri
<1>1. KelimeBit \in Nat /\ DrSayisi \in Nat \ {0}
  BY KelimeBitTipi, SpiVarsayimi
<1>2. DrSayisi * KelimeBit >= KelimeBit
  BY <1>1
<1>3. (DrSayisi + 1) * KelimeBit = DrSayisi * KelimeBit + KelimeBit
  BY <1>1
<1>4. TelSiniri \in Nat /\ 2 * KelimeBit <= TelSiniri
  BY <1>1, <1>2, <1>3 DEF TelSiniri
<1> QED
  BY <1>1, <1>4, SpiVarsayimi DEF SaatSiniri

\* The command underway is the one of the access, and one of those considered.
LEMMA KomutAlanlari ==
    ASSUME Denetim, KomutSinirli, KomutAit, state # "IDLE" \/ inst_flag
    PROVE  /\ ccr = istek.ccr /\ ccr \in Komutlar /\ ccr \in CcrTipi
           /\ istek.sec /\ istek.yaz /\ istek.hedef = "ccr"
           /\ ccr.data_mod = 1 /\ ccr.dummy \in Nat
           /\ ccr.write_flash \in BOOLEAN
           /\ ccr.inst = "wren" => ccr.write_flash
           /\ Yazar(ccr) => VeriBit(ccr) \in 1 .. KelimeBit /\ VeriBit(ccr) < SayacGen
           /\ ~ccr.write_flash =>
                  VeriBit(ccr) \in 1 .. DrSayisi * KelimeBit /\ VeriBit(ccr) < SayacGen
<1>1. istek.sec /\ istek.yaz /\ istek.hedef = "ccr" /\ istek \in Erisimler \cup {Bos}
  BY DEF Denetim, KomutSurer, TipDogru
<1>2. ccr = istek.ccr /\ ccr \in Komutlar
  BY <1>1, ErisimTipi DEF KomutAit
<1>3. ccr \in CcrTipi
  BY <1>2, SpiVarsayimi
<1>4. ccr.dummy \in Nat /\ ccr.write_flash \in BOOLEAN
  BY <1>3 DEF CcrTipi
<1> QED
  BY <1>1, <1>2, <1>3, <1>4 DEF KomutSinirli, Yazar

LEMMA DatalarTipi ==
    ASSUME Denetim
    PROVE  /\ buffer \in Sozcuk /\ dr \in [DrNolar -> Sozcuk] /\ dr[0] \in Sozcuk
           /\ saat \in Nat /\ word_ctr \in Nat /\ bit_ctr \in Nat
           /\ KelimeBit \in Nat /\ KelimeBit >= 4 /\ DrSayisi \in Nat \ {0}
           /\ SayacGen \in Nat /\ SayacGen > KelimeBit
<1>1. 0 \in DrNolar /\ SaatSiniri \in Nat
  BY SabitlerTipi
<1> QED
  BY <1>1, KelimeBitTipi, SpiVarsayimi DEF Denetim, TipDogru, Sozcuk

\* The data phase begins, or the write enable ends.
LEMMA VeriBaslaAdim ==
    ASSUME Denetim, KomutSinirli, KomutAit, state \in {"INST", "DUMMY"}, VeriBasla,
           ccr' = ccr, dr' = dr, komut' = komut, istek' = istek, inst_flag' = FALSE,
           out_mod' = OutMod, giden' = Baslik(ccr),
           ccr.dummy = 0 => saat' = BaslikBit(ccr)
    PROVE  Aktarim'
<1>1. /\ ccr = istek.ccr /\ komut.ccr = istek.ccr /\ dr = komut.dr
      /\ ccr.data_mod = 1 /\ ccr.write_flash \in BOOLEAN
      /\ ccr.inst = "wren" => ccr.write_flash
  BY KomutAlanlari DEF KomutAit
<1>2. /\ OutMod = IF ccr.write_flash THEN 1 ELSE 0
  BY <1>1 DEF OutMod
<1>3. /\ state' = IF ccr.inst = "wren" THEN "IDLE" ELSE IF ccr.write_flash THEN "WRITE" ELSE "READ"
      /\ bit_ctr' = VeriBit(ccr) % SayacGen
      /\ word_ctr' = 0 /\ buffer' = dr[0]
  BY DEF VeriBasla, VeriBit
<1>4. KomutAit'
  BY <1>1, <1>2, <1>3 DEF KomutAit
<1>5. CASE ccr.inst = "wren"
  <2>1. ~Yazar(ccr)
    BY <1>5 DEF Yazar
  <2>2. Gonderilecek(istek.ccr)' = Baslik(ccr)
    BY <1>1, <2>1 DEF Gonderilecek
  <2>3. Gonderilir'
    BY <1>1, <1>3, <1>5, <2>2 DEF Gonderilir
  <2>4. Alinir'
    BY <1>1, <1>3, <1>5 DEF Alinir
  <2> QED
    BY <1>4, <2>3, <2>4 DEF Aktarim
<1>6. CASE ccr.inst # "wren" /\ ccr.write_flash
  <2>1. Yazar(ccr)
    BY <1>6 DEF Yazar
  <2>2. VeriBit(ccr) \in 1 .. KelimeBit /\ VeriBit(ccr) < SayacGen /\ SayacGen \in Nat
    BY <2>1, KomutAlanlari, DatalarTipi
  <2>3. bit_ctr' = VeriBit(ccr)
    BY <1>3, <2>2, KelimeBitTipi
  <2>4. state' = "WRITE" /\ ~Yapildi'
    BY <1>3, <1>6 DEF Yapildi
  <2>5. Baslik(ccr) \o Veri(dr, 0) = Baslik(ccr)
    BY BaslikDizisi, BosEkle, VeriBos
  <2>6. VeriBit(ccr) - bit_ctr' = 0
    BY <2>2, <2>3, KelimeBitTipi
  <2>7. VeriBit(ccr)' = VeriBit(ccr) /\ Yazar(ccr)' /\ Baslik(ccr)' = Baslik(ccr)
    BY <2>1 DEF VeriBit, Yazar, Baslik, BaslikSozcuk, BaslikBit, AdrEn
  <2>8. \A i \in 1 .. bit_ctr' : buffer'[i] = dr'[0][0 + i]
    BY <1>3, <2>2, <2>3, KelimeBitTipi
  <2>9. Gonderilir'
    BY <2>2, <2>3, <2>4, <2>5, <2>6, <2>7, <2>8 DEF Gonderilir
  <2>10. Alinir'
    BY <2>4 DEF Alinir
  <2> QED
    BY <1>4, <2>9, <2>10 DEF Aktarim
<1>7. CASE ~ccr.write_flash
  <2>1. /\ VeriBit(ccr) \in 1 .. DrSayisi * KelimeBit /\ VeriBit(ccr) < SayacGen
        /\ SayacGen \in Nat /\ KelimeBit \in Nat /\ DrSayisi \in Nat
    BY <1>7, KomutAlanlari, DatalarTipi
  <2>2. state' = "READ" /\ ~Yapildi'
    BY <1>1, <1>3, <1>7 DEF Yapildi
  <2>3. VeriBit(ccr) \in Nat /\ VeriBit(ccr) >= 1
    <3>1. DrSayisi * KelimeBit \in Nat
      BY <2>1
    <3> QED
      BY <2>1, <3>1
  <2>4. bit_ctr' = VeriBit(ccr) /\ VeriBit(ccr) - bit_ctr' = 0
    BY <1>3, <2>1, <2>3
  <2>5. Gonderilir'
    BY <1>7, <2>2 DEF Gonderilir
  <2>6. Okunacak(ccr, word_ctr)'
    BY <1>1, <1>3, <2>1 DEF Okunacak
  <2>7. /\ Sozcukler(ccr) \in 1 .. DrSayisi
        /\ (Sozcukler(ccr) - 1) * KelimeBit < VeriBit(ccr)
        /\ VeriBit(ccr) <= (Sozcukler(ccr) - 1) * KelimeBit + KelimeBit
    BY <2>1, SozcukSayisi
  <2>8. /\ Sozcukler(ccr) - 1 - word_ctr' = Sozcukler(ccr) - 1 /\ Sozcukler(ccr) - 1 >= 0
    BY <1>3, <2>1, <2>7
  <2>9. BaslikBit(ccr) \in Nat
    BY BaslikTipi, KelimeBitTipi
  <2>10. bit_ctr' \in 1 .. VeriBit(ccr)
    BY <2>3, <2>4
  <2>11. ccr.dummy = 0 => saat' = BaslikBit(ccr) + (VeriBit(ccr) - bit_ctr')
    BY <2>4, <2>9
  <2>12. \A i \in 1 .. KelimeBit : ~(i + (VeriBit(ccr) - bit_ctr') > KelimeBit)
    BY <2>1, <2>4
  <2>13. Alinir'
    BY <2>2, <2>4, <2>6, <2>7, <2>8, <2>10, <2>11, <2>12 DEF Alinir
  <2> QED
    BY <1>4, <2>5, <2>13 DEF Aktarim
<1> QED
  BY <1>1, <1>5, <1>6, <1>7

LEMMA TelBir == ASSUME out_mod = 1 PROVE Tel = buffer[1]
BY DEF Tel

\* Nothing but the performed access counts as done.
LEMMA BostaAktarim ==
    ASSUME Denetim, KomutSinirli, Aktarim, Bosta, Master
    PROVE  Aktarim'
<1>1. /\ state = "IDLE" /\ state' = "IDLE" /\ out_mod' = out_mod
      /\ inst_flag' = (inst_flag \/ CcrYazilir)
      /\ ccr' = IF CcrYazilir THEN istek.ccr ELSE ccr
      /\ inst_flag \in BOOLEAN
  BY DEF Bosta, Yazmaclar, yolVars, Denetim, TipDogru
<1>2. Bos.sec = FALSE /\ Bos.yaz = FALSE
  BY DEF Bos
<1>3. KomutAit'
  <2>1. inst_flag' => CcrYazilir /\ Erisilir
    BY <1>1 DEF CcrYazilir, Erisilir, Denetim, KomutSurer
  <2>2. inst_flag' => istek' = istek
    BY <2>1 DEF Erisilir, Master
  <2> QED
    BY <1>1, <2>1, <2>2 DEF KomutAit, Aktarim
<1>4. ASSUME Yapildi'
      PROVE  Yapildi /\ istek' = istek /\ komut' = komut /\ giden' = giden /\ dr' = dr
  <2>1. istek.sec /\ ~ack /\ istek' = istek /\ islendi' = (islendi \/ Erisilir)
    BY <1>2, <1>4 DEF Master, Yapildi
  <2>2. ~CcrYazilir /\ ~inst_flag
    BY <1>1, <1>4 DEF Yapildi
  <2>3. islendi
    BY <1>4, <2>1, <2>2 DEF CcrYazilir, Yapildi
  <2>4. Yapildi
    BY <1>1, <1>4, <2>1, <2>2, <2>3 DEF Yapildi
  <2>5. dr' = dr
    BY <1>4, <2>1 DEF Yapildi, Bosta, Yazmaclar
  <2>6. komut' = komut /\ giden' = giden
    BY <2>1 DEF Bosta, gecmisVars
  <2> QED
    BY <2>1, <2>4, <2>5, <2>6
<1>5. Gonderilir'
  <2>1. Yapildi' => Gonderilecek(istek.ccr)' = Gonderilecek(istek.ccr)
    BY <1>4 DEF Gonderilecek
  <2> QED
    BY <1>1, <1>4, <2>1 DEF Gonderilir, Aktarim
<1>6. Alinir'
  <2>1. Yapildi' => /\ Okunacak(istek.ccr, Sozcukler(istek.ccr))' = Okunacak(istek.ccr, Sozcukler(istek.ccr))
    BY <1>4 DEF Okunacak, Sozcukler, IlkBit, VeriBit, Bitler
  <2> QED
    BY <1>1, <1>4, <2>1 DEF Alinir, Aktarim
<1> QED
  BY <1>3, <1>5, <1>6 DEF Aktarim

LEMMA BaslatAktarim ==
    ASSUME Denetim, KomutSinirli, Aktarim, Baslat, istek' = istek
    PROVE  Aktarim'
<1>1. /\ ccr = istek.ccr /\ istek.yaz /\ istek.hedef = "ccr"
  BY KomutAlanlari DEF Baslat, Baslar, Aktarim
<1>2. /\ state = "IDLE" /\ state' = "INST" /\ bit_ctr' = BaslikBit(ccr)
      /\ buffer' = BaslikSozcuk(ccr) /\ giden' = <<>> /\ saat' = 0
      /\ komut' = [ccr |-> ccr, dr |-> dr] /\ out_mod' = out_mod
  BY DEF Baslat
<1>3. ccr' = ccr /\ dr' = dr
  BY <1>1 DEF Baslat, Yazmaclar
<1>4. KomutAit'
  BY <1>1, <1>2, <1>3 DEF KomutAit, Aktarim
<1>5. BaslikBit(ccr) \in 1 .. KelimeBit /\ KelimeBit \in Nat
  BY BaslikTipi, KelimeBitTipi
<1>6. bit_ctr' \in 1 .. BaslikBit(ccr) /\ BaslikBit(ccr) - bit_ctr' = 0
  BY <1>2, <1>5
<1>7. SubSeq(BaslikSozcuk(ccr), 1, 0) = <<>>
  BY BaslikDizisi
<1>8. \A i \in 1 .. bit_ctr' : buffer'[i] = BaslikSozcuk(ccr)[0 + i]
  BY <1>2, <1>5, <1>6
<1>9. ~Yapildi'
  BY <1>2 DEF Yapildi
<1>10. Gonderilir'
  BY <1>2, <1>3, <1>6, <1>7, <1>8, <1>9 DEF Gonderilir
<1>11. Alinir'
  BY <1>2, <1>3, <1>6, <1>9 DEF Alinir
<1> QED
  BY <1>4, <1>10, <1>11 DEF Aktarim

LEMMA BekleAktarim ==
    ASSUME Denetim, Aktarim, Bekle, istek' = istek
    PROVE  Aktarim'
<1>1. /\ state # "IDLE"
      /\ ccr' = ccr /\ dr' = dr /\ inst_flag' = inst_flag /\ state' = state
      /\ bit_ctr' = bit_ctr /\ word_ctr' = word_ctr /\ buffer' = buffer /\ out_mod' = out_mod
      /\ komut' = komut /\ giden' = giden /\ saat' = saat
  BY DEF Bekle, yolVars, gecmisVars
<1>2. KomutAit'
  BY <1>1 DEF KomutAit, Aktarim, OutMod
<1>3. ~Yapildi'
  BY <1>1 DEF Yapildi
<1>4. Gonderilir'
  BY <1>1, <1>3 DEF Gonderilir, Aktarim
<1>5. Okunacak(ccr, word_ctr)' = Okunacak(ccr, word_ctr)
  BY <1>1 DEF Okunacak
<1>6. Alinir'
  BY <1>1, <1>3, <1>5 DEF Alinir, Aktarim
<1> QED
  BY <1>2, <1>4, <1>6 DEF Aktarim

\* The wire takes the next bit of what is to be sent.
LEMMA TelEkle ==
    ASSUME Denetim, TelKaydet, out_mod = 1, Len(giden) < TelSiniri
    PROVE  giden' = Append(giden, buffer[1])
BY TelBir DEF TelKaydet

\* Another cycle is counted.
LEMMA SaatEkle ==
    ASSUME Denetim, NEW durum, Bit(durum), saat < SaatSiniri
    PROVE  saat' = saat + 1 /\ komut' = komut /\ state = durum
BY DEF Bit

\* A bit of the header goes out.
LEMMA BaslikBitiGider ==
    ASSUME Denetim, KomutSinirli, Aktarim, Bit("INST"), TelKaydet
    PROVE  /\ bit_ctr \in 1 .. BaslikBit(ccr) /\ BaslikBit(ccr) \in 1 .. KelimeBit
           /\ giden' = SubSeq(BaslikSozcuk(ccr), 1, BaslikBit(ccr) - bit_ctr + 1)
           /\ komut' = komut
           /\ saat' = BaslikBit(ccr) - bit_ctr + 1
<1> DEFINE b == BaslikBit(ccr)
           s == BaslikSozcuk(ccr)
           n == b - bit_ctr
<1>1. state = "INST" /\ out_mod = 1 /\ saat = n
  BY DEF Bit, Aktarim, KomutAit, Alinir
<1>2. bit_ctr \in 1 .. b /\ giden = SubSeq(s, 1, n) /\ buffer[1] = s[n + 1]
  BY <1>1 DEF Aktarim, Gonderilir
<1>3. b \in 1 .. KelimeBit /\ KelimeBit \in Nat
  BY BaslikTipi, KelimeBitTipi
<1>4. s \in Seq(BitTipi) /\ Len(s) = KelimeBit
  BY BaslikDizisi
<1> HIDE DEF b, s
<1>5. n \in Nat /\ n < KelimeBit
  BY <1>2, <1>3
<1>6. Len(giden) = n
  BY <1>2, <1>3, <1>4, <1>5
<1>7. n < TelSiniri /\ n < SaatSiniri /\ TelSiniri \in Nat /\ SaatSiniri \in Nat
  BY <1>3, <1>5, SinirTipi, SpiVarsayimi
<1>8. giden' = Append(giden, buffer[1])
  BY <1>1, <1>6, <1>7, TelEkle
<1>9. giden' = SubSeq(s, 1, n + 1)
  BY <1>2, <1>3, <1>4, <1>5, <1>8, OnekEkle
<1>10. saat' = n + 1 /\ komut' = komut
  BY <1>1, <1>7, SaatEkle
<1> QED
  BY <1>2, <1>3, <1>9, <1>10 DEF b, s

LEMMA InstGonderAktarim ==
    ASSUME Denetim, KomutSinirli, Aktarim, InstGonder, istek' = istek
    PROVE  Aktarim'
<1> DEFINE b == BaslikBit(ccr)
           s == BaslikSozcuk(ccr)
           n == b - bit_ctr
<1>1. /\ state = "INST" /\ state' = "INST" /\ bit_ctr > 1 /\ bit_ctr' = bit_ctr - 1
      /\ ccr' = ccr /\ dr' = dr /\ out_mod' = out_mod /\ inst_flag' = FALSE
      /\ buffer' = Kaydir(buffer, Sifirlar(1))
  BY DEF InstGonder, Bit
<1>2. /\ bit_ctr \in 1 .. b /\ b \in 1 .. KelimeBit
      /\ giden' = SubSeq(s, 1, n + 1) /\ komut' = komut /\ saat' = n + 1
  BY BaslikBitiGider DEF InstGonder
<1>3. KelimeBit \in Nat /\ buffer \in Sozcuk
  BY DatalarTipi
<1>4. \A i \in 1 .. bit_ctr : buffer[i] = s[n + i]
  BY <1>1 DEF Aktarim, Gonderilir
<1>5. \A i \in 1 .. KelimeBit - 1 : buffer'[i] = buffer[i + 1]
  BY <1>1, <1>3, SifirBit, KaydirBir
<1>6. KomutAit'
  BY <1>1, <1>2 DEF KomutAit, Aktarim
<1>7. ~Yapildi'
  BY <1>1 DEF Yapildi
<1> HIDE DEF b, s
<1>8. bit_ctr' \in 1 .. b /\ b - bit_ctr' = n + 1
  BY <1>1, <1>2, <1>3
<1>9. ASSUME NEW i \in 1 .. bit_ctr'
      PROVE  buffer'[i] = s[n + 1 + i]
  <2>1. i \in 1 .. KelimeBit - 1 /\ i + 1 \in 1 .. bit_ctr /\ n + (i + 1) = n + 1 + i
    BY <1>1, <1>2, <1>3
  <2> QED
    BY <1>4, <1>5, <2>1
<1>10. Gonderilir'
  BY <1>1, <1>2, <1>7, <1>8, <1>9 DEF Gonderilir, b, s
<1>11. Alinir'
  BY <1>1, <1>2, <1>7, <1>8 DEF Alinir, b
<1> QED
  BY <1>6, <1>10, <1>11 DEF Aktarim

LEMMA InstBiterAktarim ==
    ASSUME Denetim, KomutSinirli, Aktarim, InstBiter, istek' = istek
    PROVE  Aktarim'
<1>1. /\ state = "INST" /\ bit_ctr = 1 /\ out_mod' = OutMod /\ inst_flag' = FALSE
      /\ ccr' = ccr /\ dr' = dr
  BY DEF InstBiter, Bit
<1>2. /\ BaslikBit(ccr) \in 1 .. KelimeBit /\ komut' = komut
      /\ giden' = SubSeq(BaslikSozcuk(ccr), 1, BaslikBit(ccr) - 1 + 1)
      /\ saat' = BaslikBit(ccr) - 1 + 1
  BY <1>1, BaslikBitiGider DEF InstBiter
<1>3. BaslikBit(ccr) - 1 + 1 = BaslikBit(ccr)
  BY <1>2, KelimeBitTipi
<1>4. giden' = Baslik(ccr) /\ saat' = BaslikBit(ccr)
  BY <1>2, <1>3 DEF Baslik
<1>5. CASE ccr.dummy # 0 /\ state' = "DUMMY"
  <2>1. KomutAit'
    BY <1>1, <1>2, <1>5 DEF KomutAit, Aktarim, OutMod
  <2>2. Gonderilir'
    BY <1>1, <1>4, <1>5 DEF Gonderilir, Yapildi
  <2>3. Alinir'
    BY <1>5 DEF Alinir, Yapildi
  <2> QED
    BY <2>1, <2>2, <2>3 DEF Aktarim
<1>6. CASE ccr.dummy = 0 /\ VeriBasla
  BY <1>1, <1>2, <1>4, <1>6, VeriBaslaAdim DEF Aktarim
<1> QED
  BY <1>5, <1>6 DEF InstBiter

LEMMA DummyAktarim ==
    ASSUME Denetim, KomutSinirli, Aktarim, DummySay \/ DummyBiter, istek' = istek
    PROVE  Aktarim'
<1>1. /\ state = "DUMMY" /\ ccr.dummy # 0 /\ out_mod = OutMod /\ giden = Baslik(ccr)
  BY DEF DummySay, DummyBiter, Bit, Aktarim, KomutAit, Gonderilir
<1>2. /\ ccr' = ccr /\ dr' = dr /\ komut' = komut /\ giden' = giden /\ out_mod' = out_mod
      /\ inst_flag' = inst_flag /\ inst_flag = FALSE
  BY <1>1 DEF DummySay, DummyBiter, Bit, Denetim, KomutSurer, TipDogru
<1>3. CASE DummySay
  <2>1. state' = "DUMMY"
    BY <1>1, <1>3 DEF DummySay
  <2>2. KomutAit'
    BY <1>1, <1>2, <2>1 DEF KomutAit, Aktarim, OutMod
  <2>3. Gonderilir'
    BY <1>1, <1>2, <2>1 DEF Gonderilir, Yapildi
  <2>4. Alinir'
    BY <2>1 DEF Alinir, Yapildi
  <2> QED
    BY <2>2, <2>3, <2>4 DEF Aktarim
<1>4. CASE DummyBiter
  <2>1. VeriBasla
    BY <1>4 DEF DummyBiter
  <2> QED
    BY <1>1, <1>2, <2>1, VeriBaslaAdim DEF Aktarim
<1> QED
  BY <1>3, <1>4

LEMMA TekBit == DataRate(1) = 1 /\ GirenBit(1) = 1
BY DEF DataRate, GirenBit

LEMMA BirAzalt ==
    ASSUME Denetim, bit_ctr # 1, bit_ctr >= 1, ccr.data_mod = 1
    PROVE  BitAzalt(DataRate(ccr.data_mod)) = bit_ctr - 1
<1>1. bit_ctr \in 0 .. SayacGen - 1 /\ SayacGen \in Nat
  BY DatalarTipi DEF Denetim, TipDogru
<1>2. bit_ctr - 1 \in 0 .. SayacGen - 1
  BY <1>1
<1> QED
  BY <1>1, <1>2, TekBit DEF BitAzalt

\* A bit of the data goes out.
LEMMA VeriBitiGider ==
    ASSUME Denetim, KomutSinirli, Aktarim, Bit("WRITE"), TelKaydet
    PROVE  /\ Yazar(ccr) /\ VeriBit(ccr) \in 1 .. KelimeBit /\ bit_ctr \in 1 .. VeriBit(ccr)
           /\ giden' = Baslik(ccr) \o Veri(dr, VeriBit(ccr) - bit_ctr + 1)
           /\ komut' = komut
<1> DEFINE v == VeriBit(ccr)
           n == v - bit_ctr
           h == Baslik(ccr)
           x == buffer[1]
<1>1. state = "WRITE" /\ out_mod = 1 /\ komut' = komut
  BY DEF Bit, Aktarim, KomutAit
<1>2. /\ Yazar(ccr) /\ bit_ctr \in 1 .. v /\ giden = h \o Veri(dr, n)
      /\ \A i \in 1 .. bit_ctr : buffer[i] = dr[0][n + i]
  BY <1>1 DEF Aktarim, Gonderilir
<1>3. v \in 1 .. KelimeBit
  BY <1>1, <1>2, KomutAlanlari DEF Aktarim
<1>4. KelimeBit \in Nat /\ dr \in [DrNolar -> Sozcuk] /\ buffer \in Sozcuk
  BY DatalarTipi
<1>5. h \in Seq(BitTipi) /\ Len(h) \in 1 .. KelimeBit
  BY BaslikDizisi, BaslikTipi
<1>6. x \in BitTipi
  BY <1>3, <1>4 DEF Sozcuk
<1> HIDE DEF v, h
<1>7. n \in 0 .. KelimeBit - 1 /\ n \in 0 .. KelimeBit
  BY <1>2, <1>3, <1>4
<1>8. x = dr[0][n + 1]
  BY <1>2, <1>3, <1>4
<1> HIDE DEF x
<1>9. Veri(dr, n) \in Seq(BitTipi) /\ Len(Veri(dr, n)) = n
  BY <1>4, <1>7, VeriTipi
<1>10. Len(giden) < TelSiniri
  <2>1. Len(giden) = Len(h) + n
    BY <1>2, <1>5, <1>9, ConcatProperties
  <2> QED
    BY <1>4, <1>5, <1>7, <2>1, SinirTipi
<1>11. giden' = Append(giden, x)
  BY <1>1, <1>10, TelEkle DEF x
<1>12. Veri(dr, n + 1) = Append(Veri(dr, n), x)
  BY <1>4, <1>7, <1>8, VeriEkle
<1>13. giden' = h \o Veri(dr, n + 1)
  <2>1. h \o Append(Veri(dr, n), x) = Append(h \o Veri(dr, n), x)
    BY <1>5, <1>6, <1>9, EkleSona
  <2> QED
    BY <1>2, <1>11, <1>12, <2>1, Zenon
<1> QED
  BY <1>1, <1>2, <1>3, <1>13 DEF v, h

LEMMA VeriYazAktarim ==
    ASSUME Denetim, KomutSinirli, Aktarim, VeriYaz, istek' = istek
    PROVE  Aktarim'
<1> DEFINE v == VeriBit(ccr)
           n == v - bit_ctr
<1>1. /\ state = "WRITE" /\ state' = "WRITE" /\ bit_ctr # 1
      /\ bit_ctr' = BitAzalt(DataRate(ccr.data_mod))
      /\ ccr' = ccr /\ dr' = dr /\ out_mod' = out_mod /\ inst_flag' = inst_flag
  BY DEF VeriYaz, Bit
<1>2. /\ Yazar(ccr) /\ v \in 1 .. KelimeBit /\ bit_ctr \in 1 .. v
      /\ giden' = Baslik(ccr) \o Veri(dr, n + 1) /\ komut' = komut
  BY VeriBitiGider DEF VeriYaz
<1>3. KelimeBit \in Nat /\ buffer \in Sozcuk
  BY DatalarTipi
<1>4. ccr.data_mod = 1
  BY <1>1, KomutAlanlari DEF Aktarim
<1>5. bit_ctr' = bit_ctr - 1
  BY <1>1, <1>2, <1>3, <1>4, BirAzalt
<1>6. ~KelimeSonu
  BY <1>1, <1>2, <1>3, KelimeSonuYok DEF KelimeSonu
<1>7. buffer' = Kaydir(buffer, Sifirlar(1))
  BY <1>4, <1>6, TekBit DEF VeriYaz
<1>8. \A i \in 1 .. KelimeBit - 1 : buffer'[i] = buffer[i + 1]
  BY <1>3, <1>7, SifirBit, KaydirBir
<1>9. \A i \in 1 .. bit_ctr : buffer[i] = dr[0][n + i]
  BY <1>1 DEF Aktarim, Gonderilir
<1>10. KomutAit'
  BY <1>1, <1>2 DEF KomutAit, Aktarim
<1>11. ~Yapildi'
  BY <1>1 DEF Yapildi
<1> HIDE DEF v
<1>12. bit_ctr' \in 1 .. v /\ v - bit_ctr' = n + 1
  BY <1>1, <1>2, <1>3, <1>5
<1>13. ASSUME NEW i \in 1 .. bit_ctr'
       PROVE  buffer'[i] = dr[0][n + 1 + i]
  <2>1. i \in 1 .. KelimeBit - 1 /\ i + 1 \in 1 .. bit_ctr /\ n + (i + 1) = n + 1 + i
    BY <1>2, <1>3, <1>5
  <2> QED
    BY <1>8, <1>9, <2>1
<1>14. Gonderilir'
  BY <1>1, <1>2, <1>11, <1>12, <1>13 DEF Gonderilir, v
<1>15. Alinir'
  BY <1>1, <1>11 DEF Alinir
<1> QED
  BY <1>10, <1>14, <1>15 DEF Aktarim

LEMMA VeriYazBiterAktarim ==
    ASSUME Denetim, KomutSinirli, Aktarim, VeriYazBiter, istek' = istek
    PROVE  Aktarim'
<1>1. /\ state = "WRITE" /\ state' = "IDLE" /\ bit_ctr = 1 /\ dr' = dr /\ out_mod' = 1
      /\ inst_flag' = inst_flag
  BY DEF VeriYazBiter, Bitir, Bit
<1>2. /\ Yazar(ccr) /\ VeriBit(ccr) \in 1 .. KelimeBit
      /\ giden' = Baslik(ccr) \o Veri(dr, VeriBit(ccr) - bit_ctr + 1) /\ komut' = komut
  BY VeriBitiGider DEF VeriYazBiter
<1>3. VeriBit(ccr) - bit_ctr + 1 = VeriBit(ccr)
  BY <1>1, <1>2, KelimeBitTipi
<1>4. ccr = istek.ccr /\ komut.ccr = istek.ccr /\ dr = komut.dr /\ ~inst_flag /\ ccr.write_flash
  BY <1>1, <1>2 DEF Aktarim, KomutAit, Denetim, KomutSurer, Yazar
<1>5. Gonderilecek(istek.ccr)' = giden'
  BY <1>2, <1>3, <1>4 DEF Gonderilecek
<1>6. KomutAit'
  BY <1>1, <1>4 DEF KomutAit
<1>7. Gonderilir'
  BY <1>1, <1>2, <1>4, <1>5 DEF Gonderilir
<1>8. Alinir'
  BY <1>1, <1>4 DEF Alinir
<1> QED
  BY <1>6, <1>7, <1>8 DEF Aktarim

\* A bit of the flash comes in: the window moves on.
LEMMA FlashBitiGelir ==
    ASSUME Denetim, KomutSinirli, Aktarim, Bit("READ"), ccr.dummy = 0
    PROVE  LET n == VeriBit(ccr) - bit_ctr
           IN  /\ n \in Nat
               /\ saat' = BaslikBit(ccr) + n + 1
               /\ \A i \in 1 .. KelimeBit :
                      i + (n + 1) > KelimeBit => Okunan[i] = <<"flash", n + 1 + i - 1 - KelimeBit>>
<1> DEFINE v == VeriBit(ccr)
           n == v - bit_ctr
           h == BaslikBit(ccr)
<1>1. state = "READ" /\ komut' = komut /\ ccr.data_mod = 1
      /\ komut.ccr = ccr /\ ~ccr.write_flash
      /\ v \in 1 .. DrSayisi * KelimeBit /\ v < SayacGen
  BY KomutAlanlari DEF Bit, Aktarim, KomutAit, Gonderilir
<1>2. /\ bit_ctr \in 1 .. v /\ saat = h + n
      /\ \A i \in 1 .. KelimeBit : i + n > KelimeBit => buffer[i] = <<"flash", n + i - 1 - KelimeBit>>
  BY <1>1 DEF Aktarim, Alinir
<1>3. KelimeBit \in Nat /\ KelimeBit >= 4 /\ SayacGen \in Nat /\ DrSayisi * KelimeBit \in Nat /\ buffer \in Sozcuk
  BY DatalarTipi
<1>4. h \in 1 .. KelimeBit
  BY BaslikTipi
<1> HIDE DEF v, h
<1>5. n \in Nat /\ n < SayacGen
  BY <1>1, <1>2, <1>3
<1>6. saat' = h + n + 1
  <2>1. saat < SaatSiniri
    BY <1>2, <1>3, <1>4, <1>5, SinirTipi
  <2> QED
    BY <1>2, <2>1, SaatEkle
<1>7. FlashBitleri = << <<"flash", n>> >>
  <2>1. saat - (h + 0) = n
    BY <1>2, <1>3, <1>4, <1>5
  <2>2. saat - (BaslikBit(komut.ccr) + komut.ccr.dummy) = n
    BY <1>1, <2>1 DEF h
  <2>3. GirenBit(ccr.data_mod) = 1
    BY <1>1, TekBit
  <2>4. FlashBitleri = Bitler("flash", 1 * n, 1)
    <3> HIDE DEF n
    <3> QED
      BY <1>5, <2>2, <2>3 DEF FlashBitleri
  <2>5. 1 * n = n
    BY <1>5
  <2>6. FlashBitleri = Bitler("flash", n, 1)
    BY <2>4, <2>5
  <2> HIDE DEF n
  <2> QED
    BY <1>5, <2>6, FlashBit
<1> DEFINE x == <<"flash", n>>
<1>8. Okunan = Kaydir(buffer, <<x>>) /\ x \in BitTipi
  BY <1>5, <1>7, FlashBit DEF Okunan
<1>9. /\ \A i \in 1 .. KelimeBit - 1 : Okunan[i] = buffer[i + 1]
      /\ Okunan[KelimeBit] = x
  <2> HIDE DEF x
  <2> QED
    BY <1>3, <1>8, KaydirBir
<1>10. ASSUME NEW i \in 1 .. KelimeBit, i + (n + 1) > KelimeBit
       PROVE  Okunan[i] = <<"flash", n + 1 + i - 1 - KelimeBit>>
  <2>1. CASE i = KelimeBit
    <3>1. n + 1 + i - 1 - KelimeBit = n
      BY <1>3, <1>5, <2>1
    <3> QED
      BY <1>9, <2>1, <3>1
  <2>2. CASE i # KelimeBit
    <3>1. /\ i \in 1 .. KelimeBit - 1 /\ i + 1 \in 1 .. KelimeBit /\ (i + 1) + n > KelimeBit
          /\ n + (i + 1) - 1 - KelimeBit = n + 1 + i - 1 - KelimeBit
      BY <1>3, <1>5, <1>10, <2>2
    <3>2. Okunan[i] = buffer[i + 1]
      BY <1>9, <3>1
    <3>3. buffer[i + 1] = <<"flash", n + (i + 1) - 1 - KelimeBit>>
      BY <1>2, <3>1
    <3> QED
      BY <3>1, <3>2, <3>3
  <2> QED
    BY <2>1, <2>2
<1> QED
  BY <1>5, <1>6, <1>10 DEF v, h

\* A word of the read is complete when a multiple of a word is left.
LEMMA SozcukTamam ==
    ASSUME Denetim, KomutSinirli, Aktarim, Bit("READ"), ccr.dummy = 0,
           bit_ctr = (Sozcukler(ccr) - 1 - word_ctr) * KelimeBit + 1, DrYazilir(Okunan)
    PROVE  /\ SubSeq(dr'[0], KelimeBit - IlkBit(ccr) + 1, KelimeBit) = Bitler("flash", 0, IlkBit(ccr))
           /\ \A x \in 1 .. word_ctr :
                  dr'[x] = Bitler("flash", IlkBit(ccr) + (x - 1) * KelimeBit, KelimeBit)
           /\ \A x \in word_ctr + 1 .. DrSayisi - 1 : dr'[x] = komut.dr[x]
<1> DEFINE v == VeriBit(ccr)
           n == v - bit_ctr
           q == Sozcukler(ccr)
           r == IlkBit(ccr)
           w == word_ctr
           d == KelimeBit
           o == Okunan
<1>1. /\ state = "READ" /\ komut' = komut /\ ~ccr.write_flash
      /\ v \in 1 .. DrSayisi * d
  BY KomutAlanlari DEF Bit, Aktarim, KomutAit, Gonderilir
<1>2. /\ n \in Nat
      /\ \A i \in 1 .. d : i + (n + 1) > d => o[i] = <<"flash", n + 1 + i - 1 - d>>
  BY FlashBitiGelir
<1>3. /\ q \in 1 .. DrSayisi /\ r = v - (q - 1) * d /\ r \in 1 .. d
  BY <1>1, SozcukSayisi
<1>4. q - 1 - w >= 0 /\ Okunacak(ccr, w)
  BY <1>1 DEF Aktarim, Alinir
<1>5. /\ d \in Nat /\ d >= 4 /\ w \in Nat /\ DrSayisi \in Nat /\ bit_ctr \in Nat
      /\ dr \in [DrNolar -> Sozcuk] /\ o \in Sozcuk
  BY DatalarTipi, OkunanTipi
<1>6. w \in DrNolar
  BY <1>3, <1>4, <1>5 DEF DrNolar
<1>7. dr' = [dr EXCEPT ![w] = o]
  BY <1>6 DEF DrYazilir
<1>8. /\ dr'[w] = o /\ \A k \in DrNolar : k # w => dr'[k] = dr[k]
  BY <1>5, <1>6, <1>7
<1>9. bit_ctr = (q - 1 - w) * d + 1
  OBVIOUS
<1>10. /\ w > 0 => SubSeq(dr[0], d - r + 1, d) = Bitler("flash", 0, r)
       /\ \A x \in 1 .. w - 1 : dr[x] = Bitler("flash", r + (x - 1) * d, d)
       /\ \A x \in w .. DrSayisi - 1 : dr[x] = komut.dr[x]
  BY <1>4 DEF Okunacak
<1>11. o \in Seq(BitTipi) /\ Len(o) = d
  BY <1>5 DEF Sozcuk
<1> HIDE DEF v, q, r, d, o, w
<1>12. n + 1 = r + w * d
  <2> DEFINE e == q - 1 - w
  <2>1. e \in Int /\ q - 1 = e + w /\ q \in Int
    BY <1>3, <1>5
  <2>2. v \in Nat
    <3>1. DrSayisi * d \in Nat
      BY <1>5
    <3> QED
      BY <1>1, <3>1
  <2>3. bit_ctr = e * d + 1 /\ r = v - (q - 1) * d
    BY <1>3, <1>9
  <2> HIDE DEF e
  <2>4. (q - 1) * d = (e + w) * d
    BY <2>1
  <2>5. (e + w) * d = e * d + w * d /\ e * d \in Int /\ w * d \in Int
    BY <1>5, <2>1
  <2> QED
    BY <2>2, <2>3, <2>4, <2>5
<1> DEFINE m == n + 1
<1>13. \A i \in 1 .. d : i + m > d => o[i] = <<"flash", m + i - 1 - d>>
  BY <1>2
<1>14. m \in Nat /\ m = r + w * d
  BY <1>2, <1>12
<1> HIDE DEF m
<1>15. SubSeq(dr'[0], d - r + 1, d) = Bitler("flash", 0, r)
  <2>1. CASE w > 0
    <3>1. 0 \in DrNolar /\ 0 # w
      BY <1>3, <1>5, <2>1 DEF DrNolar
    <3> QED
      BY <1>8, <1>10, <2>1, <3>1
  <2>2. CASE w = 0
    <3>1. dr'[0] = o /\ m = r
      BY <1>3, <1>5, <1>8, <1>14, <2>2
    <3> DEFINE s == SubSeq(o, d - r + 1, d)
    <3>2. s = [i \in 1 .. r |-> o[d - r + i]]
      BY <1>3, <1>5, <1>11
    <3>3. ASSUME NEW i \in 1 .. r
          PROVE  o[d - r + i] = <<"flash", 0 + i - 1>>
      <4>1. d - r + i \in 1 .. d /\ (d - r + i) + m > d /\ m + (d - r + i) - 1 - d = 0 + i - 1
        BY <1>3, <1>5, <3>1
      <4> QED
        BY <1>13, <4>1
    <3>4. s = Bitler("flash", 0, r)
      BY <3>2, <3>3 DEF Bitler
    <3> QED
      BY <3>1, <3>4
  <2> QED
    BY <1>5, <2>1, <2>2
<1>16. ASSUME NEW x \in 1 .. w
       PROVE  dr'[x] = Bitler("flash", r + (x - 1) * d, d)
  <2>1. CASE x # w
    <3>1. x \in 1 .. w - 1 /\ x \in DrNolar
      BY <1>5, <1>6, <2>1 DEF DrNolar
    <3> QED
      BY <1>8, <1>10, <2>1, <3>1
  <2>2. CASE x = w
    <3>1. dr'[x] = o
      BY <1>8, <2>2
    <3>2. w * d = (w - 1) * d + d /\ (w - 1) * d \in Nat /\ w >= 1
      BY <1>5, <2>2
    <3> DEFINE b == r + (w - 1) * d
    <3>3. m = b + d /\ b \in Nat
      BY <1>3, <1>5, <1>14, <3>2
    <3> HIDE DEF b
    <3>4. ASSUME NEW i \in 1 .. d
          PROVE  o[i] = <<"flash", b + i - 1>>
      <4>1. i + m > d /\ m + i - 1 - d = b + i - 1
        BY <1>5, <3>3
      <4> QED
        BY <1>13, <4>1
    <3>5. o = [i \in 1 .. d |-> <<"flash", b + i - 1>>]
      BY <1>5, <3>4 DEF Sozcuk, d
    <3>6. o = Bitler("flash", b, d)
      BY <3>5 DEF Bitler
    <3> QED
      BY <2>2, <3>1, <3>6 DEF b
  <2> QED
    BY <2>1, <2>2
<1>17. ASSUME NEW x \in w + 1 .. DrSayisi - 1
       PROVE  dr'[x] = komut.dr[x]
  <2>1. x \in w .. DrSayisi - 1 /\ x \in DrNolar /\ x # w
    BY <1>5 DEF DrNolar
  <2> QED
    BY <1>8, <1>10, <2>1
<1> QED
  BY <1>15, <1>16, <1>17 DEF w, r, d


\* What is left of a read before its last bit: the last word.
LEMMA OkumaSayaclari ==
    ASSUME Denetim, KomutSinirli, Aktarim, state = "READ", ccr.dummy = 0
    PROVE  LET kalan == Sozcukler(ccr) - 1 - word_ctr
           IN  /\ ccr.data_mod = 1 /\ ~ccr.write_flash /\ ~inst_flag
               /\ VeriBit(ccr) \in Nat /\ bit_ctr \in 1 .. VeriBit(ccr)
               /\ Sozcukler(ccr) \in 1 .. DrSayisi
               /\ kalan \in Nat /\ word_ctr \in 0 .. DrSayisi - 1
               /\ kalan * KelimeBit < bit_ctr /\ bit_ctr <= kalan * KelimeBit + KelimeBit
               /\ KelimeSonu <=> bit_ctr = kalan * KelimeBit + 1
<1>1. /\ ccr.data_mod = 1 /\ ~ccr.write_flash /\ ~inst_flag
      /\ VeriBit(ccr) \in 1 .. DrSayisi * KelimeBit
  BY KomutAlanlari DEF Aktarim, Gonderilir, Denetim, KomutSurer
<1>2. /\ word_ctr \in Nat /\ bit_ctr \in Nat /\ DrSayisi \in Nat /\ KelimeBit \in Nat
  BY DatalarTipi
<1>3. VeriBit(ccr) \in Nat
  <2>1. DrSayisi * KelimeBit \in Nat
    BY <1>2
  <2> QED
    BY <1>1, <2>1
<1>4. Sozcukler(ccr) \in 1 .. DrSayisi
  BY <1>1, SozcukSayisi
<1> DEFINE kalan == Sozcukler(ccr) - 1 - word_ctr
<1>5. /\ bit_ctr \in 1 .. VeriBit(ccr) /\ kalan >= 0
      /\ kalan * KelimeBit < bit_ctr /\ bit_ctr <= kalan * KelimeBit + KelimeBit
  BY DEF Aktarim, Alinir
<1>6. kalan \in Nat /\ word_ctr \in 0 .. DrSayisi - 1
  BY <1>2, <1>4, <1>5
<1>7. KelimeSonu <=> bit_ctr = kalan * KelimeBit + 1
  <2> HIDE DEF kalan
  <2> QED
    BY <1>2, <1>5, <1>6, KelimeSonuAnlami DEF KelimeSonu
<1> QED
  BY <1>1, <1>3, <1>4, <1>5, <1>6, <1>7

LEMMA KelimeSay ==
    ASSUME Denetim, word_ctr + 1 \in 0 .. DrSayisi - 1
    PROVE  (word_ctr + 1) % KelimeGen = word_ctr + 1
BY DatalarTipi, SpiVarsayimi

LEMMA VeriOkuAktarim ==
    ASSUME Denetim, KomutSinirli, Aktarim, VeriOku, istek' = istek
    PROVE  Aktarim'
<1>1. /\ state = "READ" /\ state' = "READ" /\ bit_ctr # 1
      /\ bit_ctr' = BitAzalt(DataRate(ccr.data_mod)) /\ buffer' = Okunan
      /\ ccr' = ccr /\ out_mod' = out_mod /\ inst_flag' = inst_flag /\ giden' = giden
      /\ komut' = komut
  BY DEF VeriOku, Bit
<1>2. KomutAit'
  BY <1>1 DEF KomutAit, Aktarim
<1>3. ~Yapildi'
  BY <1>1 DEF Yapildi
<1>4. Gonderilir'
  BY <1>1, <1>3 DEF Gonderilir, Aktarim
<1>5. CASE ccr.dummy # 0
  <2>1. Alinir'
    BY <1>1, <1>3, <1>5 DEF Alinir
  <2> QED
    BY <1>2, <1>4, <2>1 DEF Aktarim
<1>6. CASE ccr.dummy = 0
  <2> DEFINE v == VeriBit(ccr)
             n == v - bit_ctr
             q == Sozcukler(ccr)
             w == word_ctr
             kalan == q - 1 - w
             h == BaslikBit(ccr)
  <2>1. /\ ccr.data_mod = 1 /\ v \in Nat /\ bit_ctr \in 1 .. v
        /\ q \in 1 .. DrSayisi /\ kalan \in Nat /\ w \in 0 .. DrSayisi - 1
        /\ kalan * KelimeBit < bit_ctr /\ bit_ctr <= kalan * KelimeBit + KelimeBit
        /\ KelimeSonu <=> bit_ctr = kalan * KelimeBit + 1
    BY <1>1, <1>6, OkumaSayaclari
  <2>2. bit_ctr' = bit_ctr - 1
    BY <1>1, <2>1, BirAzalt
  <2>3. /\ n \in Nat /\ saat' = h + n + 1
        /\ \A i \in 1 .. KelimeBit : i + (n + 1) > KelimeBit => Okunan[i] = <<"flash", n + 1 + i - 1 - KelimeBit>>
    BY <1>6, FlashBitiGelir DEF VeriOku
  <2>4. Okunacak(ccr, w)
    BY <1>1, <1>6 DEF Aktarim, Alinir
  <2>5. KelimeBit \in Nat /\ KelimeBit >= 4 /\ DrSayisi \in Nat /\ h \in Nat
    BY DatalarTipi, BaslikTipi
  <2>6. /\ kalan' \in Nat
        /\ kalan' * KelimeBit < bit_ctr' /\ bit_ctr' <= kalan' * KelimeBit + KelimeBit
        /\ Okunacak(ccr, word_ctr)'
    <3>1. CASE ~KelimeSonu
      <4>1. word_ctr' = word_ctr /\ dr' = dr
        BY <3>1 DEF VeriOku
      <4>2. kalan' = kalan
        BY <1>1, <4>1 DEF Sozcukler, VeriBit
      <4>3. Okunacak(ccr, word_ctr)'
        BY <1>1, <2>4, <4>1 DEF Okunacak
      <4> HIDE DEF kalan
      <4>4. kalan * KelimeBit \in Nat
        BY <2>1, <2>5
      <4> QED
        BY <2>1, <2>2, <2>5, <3>1, <4>2, <4>3, <4>4
    <3>2. CASE KelimeSonu
      <4>1. bit_ctr = kalan * KelimeBit + 1 /\ kalan # 0
        BY <1>1, <2>1, <2>5, <3>2
      <4>2. w + 1 \in 0 .. DrSayisi - 1
        BY <2>1, <2>5, <4>1
      <4>3. word_ctr' = w + 1
        BY <3>2, <4>2, KelimeSay DEF VeriOku
      <4>4. kalan' = kalan - 1
        <5>1. Sozcukler(ccr)' = q
          BY <1>1 DEF Sozcukler, VeriBit
        <5> QED
          BY <2>1, <2>5, <4>3, <5>1
      <4>5. DrYazilir(Okunan)
        BY <3>2 DEF VeriOku
      <4>6. /\ SubSeq(dr'[0], KelimeBit - IlkBit(ccr) + 1, KelimeBit) = Bitler("flash", 0, IlkBit(ccr))
            /\ \A x \in 1 .. w :
                   dr'[x] = Bitler("flash", IlkBit(ccr) + (x - 1) * KelimeBit, KelimeBit)
            /\ \A x \in w + 1 .. DrSayisi - 1 : dr'[x] = komut.dr[x]
        BY <1>6, <4>1, <4>5, SozcukTamam DEF VeriOku
      <4>7. Okunacak(ccr, word_ctr)'
        <5>1. word_ctr' - 1 = w
          BY <2>1, <4>3
        <5>2. IlkBit(ccr)' = IlkBit(ccr)
          BY <1>1 DEF IlkBit, VeriBit, Sozcukler
        <5> HIDE DEF w
        <5>3. SubSeq(dr'[0], KelimeBit - IlkBit(ccr)' + 1, KelimeBit) = Bitler("flash", 0, IlkBit(ccr)')
          BY <4>6, <5>2
        <5>4. \A x \in 1 .. word_ctr' - 1 :
                  dr'[x] = Bitler("flash", IlkBit(ccr)' + (x - 1) * KelimeBit, KelimeBit)
          BY <4>6, <5>1, <5>2
        <5>5. \A x \in word_ctr' .. DrSayisi - 1 : dr'[x] = komut'.dr[x]
          BY <1>1, <4>3, <4>6
        <5> QED
          BY <5>3, <5>4, <5>5 DEF Okunacak
      <4> HIDE DEF kalan
      <4>8. (kalan - 1) * KelimeBit = kalan * KelimeBit - KelimeBit /\ kalan * KelimeBit \in Nat
        BY <2>1, <2>5
      <4>9. kalan - 1 \in Nat
        BY <2>1, <4>1
      <4> QED
        BY <2>1, <2>2, <2>5, <4>1, <4>4, <4>7, <4>8, <4>9
    <3> QED
      BY <3>1, <3>2
  <2>7. Alinir'
    <3> DEFINE m == v - bit_ctr'
    <3>1. v' = v /\ h' = h /\ q' = q
      BY <1>1 DEF VeriBit, BaslikBit, AdrEn, Sozcukler
    <3>2. m = n + 1 /\ bit_ctr' \in 1 .. v
      BY <1>1, <2>1, <2>2
    <3>3. saat' = h + m
      BY <2>3, <2>5, <3>2
    <3>4. \A i \in 1 .. KelimeBit : i + m > KelimeBit => buffer'[i] = <<"flash", m + i - 1 - KelimeBit>>
      <4> HIDE DEF m, n
      <4> QED
        BY <1>1, <2>3, <3>2
    <3> HIDE DEF m, n, v, h, q
    <3>5. /\ bit_ctr' \in 1 .. VeriBit(ccr)'
          /\ saat' = BaslikBit(ccr)' + (VeriBit(ccr)' - bit_ctr')
          /\ \A i \in 1 .. KelimeBit :
                 i + (VeriBit(ccr)' - bit_ctr') > KelimeBit =>
                     buffer'[i] = <<"flash", (VeriBit(ccr)' - bit_ctr') + i - 1 - KelimeBit>>
      BY <3>1, <3>2, <3>3, <3>4 DEF m, v, h
    <3>6. (Sozcukler(ccr) - 1 - word_ctr)' >= 0
      BY <2>6 DEF q
    <3> QED
      BY <1>1, <1>3, <2>6, <3>5, <3>6 DEF Alinir, q
  <2> QED
    BY <1>2, <1>4, <2>7 DEF Aktarim
<1> QED
  BY <1>5, <1>6

LEMMA VeriOkuBiterAktarim ==
    ASSUME Denetim, KomutSinirli, Aktarim, VeriOkuBiter, istek' = istek
    PROVE  Aktarim'
<1>1. /\ state = "READ" /\ state' = "IDLE" /\ bit_ctr = 1 /\ out_mod' = 1
      /\ inst_flag' = inst_flag /\ giden' = giden /\ komut' = komut
  BY DEF VeriOkuBiter, Bitir, Bit
<1>2. /\ ccr = istek.ccr /\ komut.ccr = istek.ccr /\ ~inst_flag /\ ~ccr.write_flash
      /\ giden = Baslik(ccr)
  BY <1>1 DEF Aktarim, KomutAit, Gonderilir, Denetim, KomutSurer
<1>3. KomutAit'
  BY <1>1, <1>2 DEF KomutAit
<1>4. Gonderilecek(istek.ccr)' = Baslik(istek.ccr)
  BY <1>2 DEF Gonderilecek, Yazar
<1>5. Gonderilir'
  BY <1>1, <1>2, <1>4 DEF Gonderilir
<1>6. ASSUME ccr.dummy = 0
      PROVE  Okunacak(istek.ccr, Sozcukler(istek.ccr))'
  <2> DEFINE q == Sozcukler(ccr)
             w == word_ctr
             kalan == q - 1 - w
  <2>1. /\ q \in 1 .. DrSayisi /\ kalan \in Nat /\ w \in 0 .. DrSayisi - 1
        /\ kalan * KelimeBit < bit_ctr
        /\ KelimeSonu <=> bit_ctr = kalan * KelimeBit + 1
    BY <1>1, <1>6, OkumaSayaclari
  <2>2. KelimeBit \in Nat /\ KelimeBit >= 4 /\ DrSayisi \in Nat
    BY DatalarTipi
  <2>3. kalan = 0
    <3> HIDE DEF kalan
    <3>1. kalan * KelimeBit < 1
      BY <1>1, <2>1
    <3> QED
      BY <2>1, <2>2, <3>1
  <2>4. KelimeSonu /\ bit_ctr = kalan * KelimeBit + 1 /\ w = q - 1
    BY <1>1, <2>1, <2>2, <2>3
  <2>5. DrYazilir(Okunan)
    BY <2>4 DEF VeriOkuBiter
  <2>6. /\ SubSeq(dr'[0], KelimeBit - IlkBit(ccr) + 1, KelimeBit) = Bitler("flash", 0, IlkBit(ccr))
        /\ \A x \in 1 .. w :
               dr'[x] = Bitler("flash", IlkBit(ccr) + (x - 1) * KelimeBit, KelimeBit)
        /\ \A x \in w + 1 .. DrSayisi - 1 : dr'[x] = komut.dr[x]
    BY <1>6, <2>4, <2>5, SozcukTamam DEF VeriOkuBiter
  <2>7. w = Sozcukler(istek.ccr) - 1 /\ w + 1 = Sozcukler(istek.ccr)
    BY <1>2, <2>1, <2>4
  <2> QED
    BY <1>1, <1>2, <2>6, <2>7 DEF Okunacak, IlkBit, Sozcukler, VeriBit
<1>7. Alinir'
  BY <1>1, <1>2, <1>6 DEF Alinir
<1> QED
  BY <1>3, <1>5, <1>7 DEF Aktarim

\* Every step of a clock.
LEMMA SaatAktarim ==
    ASSUME Denetim, KomutSinirli, Aktarim, Saat
    PROVE  Aktarim'
<1>1. Master /\ ack' = AckSonraki
  BY DEF Saat
<1>2. CASE Bosta
  BY <1>1, <1>2, BostaAktarim
<1>3. ASSUME Baslat \/ Bekle \/ Komut
      PROVE  istek' = istek
  <2>1. state # "IDLE" \/ inst_flag
    BY <1>3 DEF Baslat, Baslar, Bekle, Komut, Bit, InstGonder, InstBiter, DummySay, DummyBiter,
           VeriYaz, VeriYazBiter, VeriOku, VeriOkuBiter
  <2> QED
    BY <1>1, <2>1, KomutDenetim
<1>4. CASE Baslat
  BY <1>3, <1>4, BaslatAktarim
<1>5. CASE Bekle
  BY <1>3, <1>5, BekleAktarim
<1>6. CASE Komut
  BY <1>3, <1>6, InstGonderAktarim, InstBiterAktarim, DummyAktarim, VeriYazAktarim,
     VeriYazBiterAktarim, VeriOkuAktarim, VeriOkuBiterAktarim DEF Komut
<1> QED
  BY <1>2, <1>4, <1>5, <1>6 DEF Saat

\* A reset, and the start.
LEMMA SifirlaAktarim == ASSUME Sifirla PROVE Aktarim'
<1>1. Bos.yaz = FALSE
  BY DEF Bos
<1>2. state' = "IDLE" /\ ~inst_flag' /\ out_mod' = 1 /\ istek'.yaz = FALSE
  BY <1>1 DEF Sifirla
<1> QED
  BY <1>2 DEF Aktarim, KomutAit, Gonderilir, Alinir, Yapildi

LEMMA BaslangicAktarim == ASSUME Init PROVE Aktarim
<1>1. Bos.yaz = FALSE
  BY DEF Bos
<1>2. state = "IDLE" /\ ~inst_flag /\ out_mod = 1 /\ istek.yaz = FALSE
  BY <1>1 DEF Init
<1> QED
  BY <1>2 DEF Aktarim, KomutAit, Gonderilir, Alinir, Yapildi

LEMMA DuranAktarim == ASSUME Aktarim, UNCHANGED vars PROVE Aktarim'
<1>1. /\ ccr' = ccr /\ dr' = dr /\ inst_flag' = inst_flag /\ state' = state
      /\ bit_ctr' = bit_ctr /\ word_ctr' = word_ctr /\ buffer' = buffer /\ out_mod' = out_mod
      /\ komut' = komut /\ giden' = giden /\ saat' = saat /\ istek' = istek /\ islendi' = islendi
  BY DEF vars, yolVars, gecmisVars
<1>2. KomutAit' /\ Yapildi' = Yapildi
  BY <1>1 DEF KomutAit, Aktarim, OutMod, Yapildi
<1>3. Gonderilir'
  <2>1. Gonderilecek(istek.ccr)' = Gonderilecek(istek.ccr)
    BY <1>1 DEF Gonderilecek
  <2> QED
    BY <1>1, <1>2, <2>1 DEF Gonderilir, Aktarim
<1>4. Alinir'
  <2>1. /\ Okunacak(ccr, word_ctr)' = Okunacak(ccr, word_ctr)
        /\ Okunacak(istek.ccr, Sozcukler(istek.ccr))' = Okunacak(istek.ccr, Sozcukler(istek.ccr))
    BY <1>1 DEF Okunacak
  <2> QED
    BY <1>1, <1>2, <2>1 DEF Alinir, Aktarim
<1> QED
  BY <1>2, <1>3, <1>4 DEF Aktarim

LEMMA BaslangicIInv == ASSUME Init PROVE IInv
BY BaslangicDenetim, BaslangicAktarim DEF IInv

LEMMA AdimIInv == ASSUME IInv, [Next]_vars PROVE IInv'
<1>1. Denetim /\ Denetim'
  BY AdimDenetim DEF IInv
<1>2. ASSUME KomutSinirli PROVE Aktarim'
  <2>1. Aktarim
    BY <1>2 DEF IInv
  <2>2. CASE Saat
    BY <1>1, <1>2, <2>1, <2>2, SaatAktarim
  <2>3. CASE Sifirla
    BY <2>3, SifirlaAktarim
  <2>4. CASE UNCHANGED vars
    BY <2>1, <2>4, DuranAktarim
  <2> QED
    BY <2>2, <2>3, <2>4 DEF Next
<1> QED
  BY <1>1, <1>2 DEF IInv, KomutSinirli, VeriBit

-----------------------------------------------------------------------------
(* The theorems *)

\* A command holds the access that started it until its end, the acknowledge flag it
\* leaves is down before the next access comes (ack_flag and clock_en of spi_denetleyici),
\* and what is on the wire and in the registers is what it has sent and read so far.
THEOREM IInvTeoremi == Spec => []IInv
<1>1. Init => IInv
  BY BaslangicIInv
<1>2. IInv /\ [Next]_vars => IInv'
  BY AdimIInv
<1> QED
  BY <1>1, <1>2, PTL DEF Spec

\* The registers of the controller keep their widths; the counters wrap within theirs.
THEOREM TipTeoremi == Spec => []TipDogru
<1>1. IInv => TipDogru
  BY DEF IInv, Denetim
<1> QED
  BY <1>1, IInvTeoremi, PTL

\* The controller acknowledges an access only after it has performed it, and a write to
\* QSPI_CCR only at the end of its flash command.
THEOREM ErisimTamTeoremi == Spec => []ErisimTam
<1>1. IInv => ErisimTam
  BY DEF IInv, Denetim
<1> QED
  BY <1>1, IInvTeoremi, PTL

\* An acknowledged write to QSPI_CCR is an access that is done.
LEMMA BitenYapilmis == ASSUME Denetim, CcrBiter PROVE Yapildi
BY DEF Denetim, ErisimTam, CcrBiter, Yapildi

\* Over one channel, with data that fits, a command has sent its instruction, its address and
\* the bytes of the data registers, and not a bit more, when its access is acknowledged.
THEOREM KomutGonderildiTeoremi == KomutSinirli => (Spec => []KomutGonderildi)
<1>1. KomutSinirli /\ IInv => KomutGonderildi
  BY BitenYapilmis DEF IInv, Aktarim, Gonderilir, KomutGonderildi
<1>2. ASSUME KomutSinirli PROVE Spec => []KomutGonderildi
  <2>1. IInv => KomutGonderildi
    BY <1>1, <1>2
  <2> QED
    BY <2>1, IInvTeoremi, PTL
<1> QED
  BY <1>2

\* Over one channel, with data that fits, a read without dummy cycles has left the flash's
\* bits in the data registers, in order, when its access is acknowledged.
THEOREM OkunanDogruTeoremi == KomutSinirli => (Spec => []OkunanDogru)
<1>1. KomutSinirli /\ IInv => OkunanDogru
  BY BitenYapilmis DEF IInv, Aktarim, Alinir, OkunanDogru, CcrBiter
<1>2. ASSUME KomutSinirli PROVE Spec => []OkunanDogru
  <2>1. IInv => OkunanDogru
    BY <1>1, <1>2
  <2> QED
    BY <2>1, IInvTeoremi, PTL
<1> QED
  BY <1>2

=============================================================================
