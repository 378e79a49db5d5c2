------------------------ MODULE BellekSistemiProofs ------------------------
(***************************************************************************)
(* Theorems about BellekSistemi, for every length of the delay line, of    *)
(* the start-up counters and of the RAM.                                   *)
(***************************************************************************)
EXTENDS BellekSistemi, TLAPS

-----------------------------------------------------------------------------
(* Facts about the constants and the requests *)

LEMMA Sabitler ==
    /\ 0 \in Adresler /\ 0 \in Sayaclar /\ SayacSon \in Sayaclar
    /\ \A s \in Sayaclar : s # SayacSon => s + 1 \in Sayaclar
    /\ \A a \in Adresler : (a + 1) % BoyRam \in Adresler
    /\ 0 \in Asamalar /\ RAM_DELAY - 1 \in Asamalar /\ RAM_DELAY - 1 # 0
    /\ RAM_DELAY - 2 \in Asamalar /\ (RAM_DELAY - 1) - 1 = RAM_DELAY - 2
    /\ \A i \in Asamalar : i # 0 => i - 1 \in Asamalar
  BY SistemVarsayimi DEF Adresler, Sayaclar, Asamalar

LEMMA IlkGetirmeTipi == IlkGetirme \in Getirmeler
<1>1. IlkGetirme \in GetirmeTipi
  BY Sabitler DEF IlkGetirme, GetirmeTipi
<1>2. 1 \notin IlkGetirme.eksik /\ 1 \in {0, 1} /\ 0 \in IlkGetirme.eksik
  BY DEF IlkGetirme
<1>3. IlkGetirme.adr1 = 0
  BY DEF IlkGetirme
<1> QED
  BY <1>1, <1>2, <1>3 DEF Getirmeler

\* What is left of a fetch when one of its words has come.
LEMMA GetirmeAzalir ==
    ASSUME NEW g \in Getirmeler
    PROVE  /\ [g EXCEPT !.eksik = @ \ {0}, !.adr0 = 0] \in Getirmeler
           /\ [g EXCEPT !.eksik = @ \ {1}, !.adr1 = 0] \in Getirmeler
<1>1. g \in GetirmeTipi /\ g.eksik \in SUBSET {0, 1}
  BY DEF Getirmeler, GetirmeTipi
<1>2. g.eksik \ {0} \in SUBSET {0, 1} /\ g.eksik \ {1} \in SUBSET {0, 1}
  BY <1>1
<1>3. g.eksik \ {0} # {0, 1} /\ g.eksik \ {1} # {0, 1}
  OBVIOUS
<1> DEFINE h == [g EXCEPT !.eksik = @ \ {0}, !.adr0 = 0]
<1>4. h \in GetirmeTipi
  BY <1>1, <1>2, Sabitler DEF GetirmeTipi
<1>5. h.adr0 = 0 /\ h.adr1 = g.adr1 /\ h.eksik = g.eksik \ {0}
  BY <1>1 DEF GetirmeTipi
<1>6. 1 \notin h.eksik => 1 \notin g.eksik
  BY <1>5
<1>7. h \in Getirmeler
  BY <1>3, <1>4, <1>5, <1>6 DEF Getirmeler
<1> DEFINE k == [g EXCEPT !.eksik = @ \ {1}, !.adr1 = 0]
<1>8. k \in GetirmeTipi
  BY <1>1, <1>2, Sabitler DEF GetirmeTipi
<1>9. k.adr1 = 0 /\ k.adr0 = g.adr0 /\ k.eksik = g.eksik \ {1}
  BY <1>1 DEF GetirmeTipi
<1>10. 0 \notin k.eksik => 0 \notin g.eksik
  BY <1>9
<1>11. k \in Getirmeler
  BY <1>3, <1>8, <1>9, <1>10 DEF Getirmeler
<1> QED
  BY <1>7, <1>11

LEMMA SadeTipi ==
    ASSUME NEW t \in {"yok", "diger", "timer"} \cup VeriTurleri
    PROVE  Sade(t) \in IstekTipi /\ Sade(t).tur = t
<1>1. (CHOOSE d \in Deger : TRUE) \in Deger
  BY SistemVarsayimi
<1> QED
  BY <1>1, Sabitler DEF Sade, IstekTipi

LEMMA OkumaTipi ==
    ASSUME NEW a \in Adresler
    PROVE  Okuma(a) \in IstekTipi /\ Okuma(a).tur = "oku" /\ Okuma(a).adr = a
<1>1. Sade("oku") \in IstekTipi
  BY SadeTipi DEF VeriTurleri
<1> QED
  BY <1>1 DEF Okuma, IstekTipi, VeriTurleri, Sade

LEMMA IsteklerTipi ==
    /\ Istekler \subseteq IstekTipi
    /\ \A t \in {"yok", "diger", "timer", "isabet"} : Sade(t) \in Istekler
    /\ \A a \in Adresler : Okuma(a) \in Istekler
<1>1. ASSUME NEW r \in Istekler PROVE r \in IstekTipi
  <2>1. CASE r \in {Sade(t) : t \in {"yok", "diger", "timer", "isabet"}}
    BY <2>1, SadeTipi DEF VeriTurleri
  <2>2. CASE r \in {Okuma(a) : a \in Adresler}
    BY <2>2, OkumaTipi
  <2> QED
    BY <2>1, <2>2 DEF Istekler
<1>2. \A t \in {"yok", "diger", "timer", "isabet"} : Sade(t) \in Istekler
  BY DEF Istekler
<1>3. \A a \in Adresler : Okuma(a) \in Istekler
  BY DEF Istekler
<1> QED
  BY <1>1, <1>2, <1>3

\* What each kind of request is.
LEMMA IstekAyrimi ==
    ASSUME NEW r \in Istekler
    PROVE  /\ r.tur \in {"yok", "diger", "timer", "isabet", "oku", "yazoku", "yaz"}
           /\ r.tur \in {"yok", "diger", "timer", "isabet"} => r = Sade(r.tur)
           /\ r.tur = "oku" => r = Okuma(r.adr)
           /\ r.tur \in {"yazoku", "yaz"} => r.adr # r.kurban
<1>1. CASE r \in {Sade(t) : t \in {"yok", "diger", "timer", "isabet"}}
  <2>1. PICK t \in {"yok", "diger", "timer", "isabet"} : r = Sade(t)
    BY <1>1
  <2>2. r.tur = t
    BY <2>1, SadeTipi DEF VeriTurleri
  <2> QED
    BY <2>1, <2>2
<1>2. CASE r \in {Okuma(a) : a \in Adresler}
  <2>1. PICK a \in Adresler : r = Okuma(a)
    BY <1>2
  <2>2. r.tur = "oku" /\ r.adr = a
    BY <2>1, OkumaTipi
  <2> QED
    BY <2>1, <2>2
<1>3. CASE r.tur \in {"yazoku", "yaz"} /\ r.adr # r.kurban
  BY <1>3
<1> QED
  BY <1>1, <1>2, <1>3 DEF Istekler

-----------------------------------------------------------------------------
(* Type correctness *)

LEMMA BuyrukTip ==
    ASSUME TipDogru, NEW i \in BOOLEAN, BuyrukTarafi(i)
    PROVE  l1b' \in {"READMEM0", "READMEM1", "READCACHE"} /\ getirme' \in Getirmeler
<1>1. l1b' \in {"READMEM0", "READMEM1", "READCACHE"}
  BY DEF BuyrukTarafi, TipDogru, L1bValid
<1>2. CASE i
  BY <1>1, <1>2 DEF BuyrukTarafi
<1>3. CASE ~i
  <2>1. getirme \in Getirmeler
    BY DEF TipDogru
  <2>2. getirme' = CASE ~(L1bValid /\ L1bReady) -> getirme
                     [] l1b = "READMEM0" /\ L1bReady ->
                          [getirme EXCEPT !.eksik = @ \ {0}, !.adr0 = 0]
                     [] l1b = "READMEM1" /\ L1bReady ->
                          [getirme EXCEPT !.eksik = @ \ {1}, !.adr1 = 0]
    BY <1>3 DEF BuyrukTarafi
  <2>3. \/ ~(L1bValid /\ L1bReady)
        \/ L1bReady /\ l1b = "READMEM0"
        \/ L1bReady /\ l1b = "READMEM1"
    BY DEF TipDogru, L1bValid
  <2>4. getirme' \in {getirme, [getirme EXCEPT !.eksik = @ \ {0}, !.adr0 = 0],
                      [getirme EXCEPT !.eksik = @ \ {1}, !.adr1 = 0]}
    BY <2>2, <2>3 DEF L1bValid
  <2> QED
    BY <1>1, <2>1, <2>4, GetirmeAzalir
<1> QED
  BY <1>2, <1>3

LEMMA VeriTip ==
    ASSUME TipDogru, VeriTarafi
    PROVE  /\ durum' \in {"RESET", "BOY", "BELLEK_OKU", "BELLEK_YAZ"}
           /\ l1v_sayac' \in Sayaclar
           /\ iomem_addr_r' \in Adresler
           /\ iomem_wdata_r' \in Deger
<1>1. istek.adr \in Adresler /\ istek.kurban \in Adresler /\ istek.veri \in Deger
  BY IsteklerTipi DEF TipDogru, IstekTipi
<1>2. l1v_sayac' \in Sayaclar
  BY Sabitler DEF VeriTarafi, L1vSay, TipDogru
<1>3. durum' \in {"RESET", "BOY", "BELLEK_OKU", "BELLEK_YAZ"}
  BY DEF VeriTarafi, TipDogru, L1vValid
<1>4. iomem_addr_r' \in Adresler
  BY <1>1 DEF VeriTarafi, TipDogru
<1>5. iomem_wdata_r' \in Deger
  BY <1>1 DEF VeriTarafi, TipDogru
<1> QED
  BY <1>2, <1>3, <1>4, <1>5

LEMMA YurutTip ==
    ASSUME TipDogru, NEW i \in BOOLEAN, Yurut(i)
    PROVE  istek' \in Istekler
<1>1. istek \in Istekler /\ istek.adr \in Adresler
  BY IsteklerTipi DEF TipDogru, IstekTipi
<1>2. Okuma(istek.adr) \in Istekler /\ Sade("isabet") \in Istekler
  BY <1>1, IsteklerTipi
<1> QED
  BY <1>1, <1>2 DEF Yurut

LEMMA RamTip ==
    ASSUME TipDogru, Ram
    PROVE  bellek' \in [Adresler -> Deger] /\ ram_data' \in Deger
<1>1. RamAddr \in Adresler
  BY DEF RamAddr, L1bAddr, TipDogru, Getirmeler, GetirmeTipi
<1> QED
  BY <1>1 DEF Ram, RamSonraki, TipDogru

LEMMA YukleyiciTip ==
    ASSUME TipDogru, Yukleyici
    PROVE  /\ state_prog' \in {"SequenceWait", "SequenceProgram", "SequenceFinish"}
           /\ prog_inst_valid' \in BOOLEAN
           /\ prog_instruction' \in Deger
           /\ prog_kalan' \in 0 .. BoyRam
           /\ prog_sys_rst_n' \in BOOLEAN
<1>1. CASE Dinle
  <2>1. state_prog' \in {"SequenceWait", "SequenceProgram"}
    BY <1>1 DEF Dinle
  <2>2. prog_kalan' \in 0 .. BoyRam
    <3>1. prog_kalan' \in 0 .. BoyRam \/ prog_kalan' = 0
      BY <1>1 DEF Dinle
    <3> QED
      BY <3>1, SistemVarsayimi
  <2>3. prog_inst_valid' = FALSE /\ prog_sys_rst_n' = TRUE
    BY <1>1 DEF Dinle
  <2>4. prog_instruction' \in Deger
    BY <1>1 DEF Dinle, TipDogru
  <2> QED
    BY <2>1, <2>2, <2>3, <2>4
<1>2. CASE SozcukGeldi
  BY <1>2, SistemVarsayimi DEF SozcukGeldi, TipDogru
<1>3. CASE SozcukBekle
  BY <1>3, SistemVarsayimi DEF SozcukBekle, TipDogru
<1>4. CASE YuklemeBitti
  BY <1>4, SistemVarsayimi DEF YuklemeBitti, TipDogru
<1> QED
  BY <1>1, <1>2, <1>3, <1>4 DEF Yukleyici

LEMMA SifirlaTip ==
    ASSUME TipDogru, SistemSifirla
    PROVE  /\ l1b' \in {"READMEM0", "READMEM1", "READCACHE"}
           /\ getirme' \in Getirmeler
           /\ durum' \in {"RESET", "BOY", "BELLEK_OKU", "BELLEK_YAZ"}
           /\ l1v_sayac' \in Sayaclar
           /\ iomem_addr_r' \in Adresler
           /\ iomem_wdata_r' \in Deger
           /\ istek' \in Istekler
           /\ sayac' \in Sayaclar
           /\ switch' \in {"BUYRUK", "VERI"}
           /\ ram_ready' \in BOOLEAN
           /\ prog_addr' \in Adresler
  BY Sabitler, IlkGetirmeTipi, IsteklerTipi DEF SistemSifirla, TipDogru

LEMMA GecikmeTip == GecikmeSonraki \in [Asamalar -> BOOLEAN]
  BY DEF GecikmeSonraki

LEMMA TipAdim ==
    ASSUME TipDogru, [Next]_vars
    PROVE  TipDogru'
<1>1. CASE Calis
  <2>1. PICK b \in BOOLEAN : BuyrukTarafi(Ilerler(b)) /\ Yurut(Ilerler(b))
    BY <1>1 DEF Calis, Kenar
  <2>2. Ilerler(b) \in BOOLEAN
    BY DEF Ilerler
  <2>3. l1b' \in {"READMEM0", "READMEM1", "READCACHE"} /\ getirme' \in Getirmeler
    BY <2>1, <2>2, BuyrukTip
  <2>4. istek' \in Istekler
    BY <2>1, <2>2, YurutTip
  <2>5. VeriTarafi /\ Ram /\ Yukleyici
    BY <1>1 DEF Calis, Kenar
  <2>6. sayac' \in Sayaclar
    BY <1>1, Sabitler DEF Calis, Kenar, TipDogru, Basliyor
  <2>7. switch' \in {"BUYRUK", "VERI"}
    BY <1>1 DEF Calis, Kenar, SwitchSonraki, TipDogru
  <2>8. ram_ready' \in BOOLEAN /\ ram_shift_q' \in [Asamalar -> BOOLEAN]
    BY <1>1, GecikmeTip DEF Calis, Kenar
  <2>9. prog_addr' \in Adresler
    BY <1>1, Sabitler DEF Calis, Kenar, TipDogru
  <2> QED
    BY <2>3, <2>4, <2>5, <2>6, <2>7, <2>8, <2>9, VeriTip, RamTip, YukleyiciTip DEF TipDogru
<1>2. CASE YukleyiciSifirla
  BY <1>2, SifirlaTip, RamTip, YukleyiciTip, GecikmeTip DEF YukleyiciSifirla, TipDogru
<1>3. CASE DisSifirla
  <2>1. ram_shift_q' \in [Asamalar -> BOOLEAN]
    BY <1>3 DEF DisSifirla
  <2>2. prog_kalan' \in 0 .. BoyRam
    BY <1>3, SistemVarsayimi DEF DisSifirla
  <2> QED
    BY <1>3, <2>1, <2>2, SifirlaTip, RamTip DEF DisSifirla, TipDogru
<1>4. CASE UNCHANGED vars
  BY <1>4 DEF TipDogru, vars, onbellekVars, yukleyiciVars
<1> QED
  BY <1>1, <1>2, <1>3, <1>4 DEF Next

LEMMA TipBas == ASSUME Init PROVE TipDogru
<1>1. (CHOOSE d \in Deger : TRUE) \in Deger
  BY SistemVarsayimi
<1>2. ram_shift_q \in [Asamalar -> BOOLEAN]
  BY DEF Init
<1>3. istek \in Istekler
  BY IsteklerTipi DEF Init
<1>4. prog_kalan \in 0 .. BoyRam
  BY SistemVarsayimi DEF Init
<1> QED
  BY <1>1, <1>2, <1>3, <1>4, Sabitler, IlkGetirmeTipi DEF Init, TipDogru

\* Type correctness: every register of the memory system keeps its width.
THEOREM TipTeoremi == Spec => []TipDogru
  BY TipBas, TipAdim, PTL DEF Spec

-----------------------------------------------------------------------------
(* Who uses the port *)

\* One user at a time: the data cache and the timer need a complete fetch, and
\* they serve the same instruction.
LEMMA TekKullanici ==
    ASSUME PortTutulur
    PROVE  /\ L1bValid => ~GtrHazir /\ ~L1vValid /\ ~L1vSec /\ ~TimerValid
           /\ L1vValid => ~L1bValid /\ ~TimerValid
  BY DEF PortTutulur, GtrHazir, L1bValid, L1vSec, TimerValid, YrtDurdur, VeriTurleri

\* The fetch is held while its cache fills.
LEMMA GetirmeBekler ==
    ASSUME L1bValid, NEW b
    PROVE  ~Ilerler(b)
  BY DEF Ilerler, GtrHazir, L1bValid

\* Execute and the fetch are held while the data cache is busy.
LEMMA YurutBekler ==
    ASSUME PortTutulur, L1vValid, NEW b
    PROVE  ~Ilerler(b)
  BY DEF PortTutulur, Ilerler, L1vDurdur, L1vValid

\* An unanswered fill of the instruction cache at a clock edge.
LEMMA GetirmeKalir ==
    ASSUME PortTutulur, Kenar, L1bValid, ~L1bReady
    PROVE  /\ l1b' = l1b /\ getirme' = getirme
           /\ iomem_wdata_r' = iomem_wdata_r
           /\ switch' = "BUYRUK"
<1>1. PICK b \in BOOLEAN : BuyrukTarafi(Ilerler(b))
  BY DEF Kenar
<1>2. l1b' = l1b /\ getirme' = getirme
  BY <1>1, GetirmeBekler DEF BuyrukTarafi
<1>3. ~L1vSec /\ ~L1vValid
  BY TekKullanici
<1>4. iomem_wdata_r' = iomem_wdata_r
  BY <1>3 DEF Kenar, VeriTarafi
<1>5. switch' = "BUYRUK"
  BY <1>3 DEF Kenar, SwitchSonraki
<1> QED
  BY <1>2, <1>4, <1>5

\* An unanswered access of the data cache at a clock edge.
LEMMA VeriKalir ==
    ASSUME PortTutulur, Kenar, L1vValid, ~L1vReady
    PROVE  /\ durum' = durum /\ istek' = istek
           /\ l1b' = l1b /\ getirme' = getirme /\ sayac' = sayac
           /\ iomem_addr_r' = iomem_addr_r /\ iomem_wdata_r' = iomem_wdata_r
           /\ switch' = "VERI"
<1>1. PICK b \in BOOLEAN : BuyrukTarafi(Ilerler(b)) /\ Yurut(Ilerler(b))
  BY DEF Kenar
<1>2. ~Ilerler(b)
  BY YurutBekler
<1>3. GtrHazir /\ ~Basliyor /\ ~L1bValid
  BY TekKullanici DEF PortTutulur
<1>4. l1b' = l1b /\ getirme' = getirme
  BY <1>1, <1>2, <1>3 DEF BuyrukTarafi, GtrHazir
<1>5. istek' = istek
  BY <1>1, <1>2 DEF Yurut
<1>6. durum' = durum /\ iomem_addr_r' = iomem_addr_r /\ iomem_wdata_r' = iomem_wdata_r
  BY DEF Kenar, VeriTarafi, L1vValid
<1>7. switch' = "VERI" /\ sayac' = sayac
  BY <1>3 DEF Kenar, SwitchSonraki
<1> QED
  BY <1>4, <1>5, <1>6, <1>7

\* An access the RAM has not answered stays on the port.
LEMMA PortKalir ==
    ASSUME TipDogru, PortTutulur, Kenar, RamSecili, ~IomemReady
    PROVE  /\ RamSecili' /\ RamAddr' = RamAddr /\ RamYaz' = RamYaz
           /\ iomem_wdata_r' = iomem_wdata_r
<1>1. ~L1bReady /\ ~L1vReady
  BY DEF L1bReady, L1vReady
<1>2. CASE switch = "BUYRUK"
  <2>1. L1bValid
    BY <1>2 DEF RamSecili
  <2>2. /\ l1b' = l1b /\ getirme' = getirme /\ iomem_wdata_r' = iomem_wdata_r
        /\ switch' = "BUYRUK"
    BY <1>1, <2>1, GetirmeKalir
  <2>3. L1bValid' /\ ~GtrHazir'
    BY <2>1, <2>2 DEF L1bValid, GtrHazir
  <2>4. ~TimerValid'
    BY <2>3 DEF TimerValid, YrtDurdur
  <2>5. RamSecili'
    BY <2>2, <2>3, <2>4 DEF RamSecili
  <2>6. RamAddr' = RamAddr
    BY <1>2, <2>2 DEF RamAddr, L1bAddr
  <2>7. RamYaz' = RamYaz
    BY <1>2, <2>2 DEF RamYaz
  <2> QED
    BY <2>2, <2>5, <2>6, <2>7
<1>3. CASE switch = "VERI"
  <2>1. L1vValid
    BY <1>3 DEF RamSecili
  <2>2. /\ durum' = durum /\ istek' = istek
        /\ iomem_addr_r' = iomem_addr_r /\ iomem_wdata_r' = iomem_wdata_r
        /\ switch' = "VERI"
    BY <1>1, <2>1, VeriKalir
  <2>3. L1vValid' /\ ~TimerValid'
    BY <2>1, <2>2 DEF L1vValid, TimerValid, PortTutulur, VeriTurleri
  <2>4. RamSecili'
    BY <2>2, <2>3 DEF RamSecili
  <2>5. RamAddr' = RamAddr
    BY <1>3, <2>2 DEF RamAddr
  <2>6. RamYaz' = RamYaz
    BY <1>3, <2>2, <2>4 DEF RamYaz
  <2> QED
    BY <2>2, <2>4, <2>5, <2>6
<1> QED
  BY <1>2, <1>3 DEF TipDogru

-----------------------------------------------------------------------------
(* The inductive invariant *)

LEMMA PortAdim ==
    ASSUME TipDogru, PortTutulur, BirlikteSayar, Kenar
    PROVE  PortTutulur'
<1> SUFFICES ASSUME L1vValid'
             PROVE  (GtrHazir /\ ~Basliyor /\ istek.tur \in VeriTurleri)'
  BY DEF PortTutulur
<1>1. PICK b \in BOOLEAN : BuyrukTarafi(Ilerler(b)) /\ Yurut(Ilerler(b))
  BY DEF Kenar
<1>2. CASE L1vValid /\ ~L1vReady
  <2>1. istek' = istek /\ l1b' = l1b /\ getirme' = getirme /\ sayac' = sayac
    BY <1>2, VeriKalir
  <2> QED
    BY <1>2, <2>1 DEF PortTutulur, GtrHazir, Basliyor
<1>3. CASE L1vValid /\ L1vReady
  <2>1. GtrHazir /\ ~Basliyor /\ ~L1bValid /\ ~Ilerler(b)
    BY <1>3, TekKullanici, YurutBekler DEF PortTutulur
  <2>2. l1b' = l1b /\ getirme' = getirme /\ sayac' = sayac
    BY <1>1, <2>1 DEF BuyrukTarafi, GtrHazir, Kenar
  <2>3. istek'.tur \in VeriTurleri
    <3>1. istek.adr \in Adresler
      BY IsteklerTipi DEF TipDogru, IstekTipi
    <3>2. Okuma(istek.adr).tur = "oku" /\ Sade("isabet").tur = "isabet"
      BY <3>1, OkumaTipi, SadeTipi DEF VeriTurleri
    <3> QED
      BY <1>1, <1>3, <2>1, <3>2 DEF Yurut, VeriTurleri
  <2> QED
    BY <2>1, <2>2, <2>3 DEF GtrHazir, Basliyor
<1>4. CASE ~L1vValid
  <2>1. durum = "BOY" /\ L1vSec /\ istek.tur # "isabet"
    BY <1>4 DEF Kenar, VeriTarafi, L1vValid, TipDogru
  <2>2. GtrHazir /\ ~Basliyor /\ istek.tur \in VeriTurleri
    BY <2>1 DEF L1vSec, YrtDurdur
  <2>3. ~Ilerler(b)
    BY <2>1, <2>2 DEF Ilerler, L1vDurdur
  <2>4. istek' = istek /\ sayac' = sayac
    BY <1>1, <1>4, <2>2, <2>3 DEF Yurut, Kenar
  <2>5. l1b' = l1b /\ getirme' = getirme
    BY <1>1, <2>2, <2>3 DEF BuyrukTarafi, GtrHazir, L1bValid
  <2> QED
    BY <2>2, <2>4, <2>5 DEF GtrHazir, Basliyor
<1> QED
  BY <1>2, <1>3, <1>4

LEMMA SayarAdim ==
    ASSUME TipDogru, PortTutulur, BirlikteSayar, Kenar
    PROVE  BirlikteSayar'
<1> SUFFICES ASSUME durum' = "RESET"
             PROVE  l1v_sayac' = sayac' /\ istek'.tur = "yok"
  BY DEF BirlikteSayar
<1>1. durum = "RESET" /\ l1v_sayac # SayacSon
  BY DEF Kenar, VeriTarafi, TipDogru, L1vValid
<1>2. l1v_sayac = sayac /\ istek.tur = "yok" /\ Basliyor
  BY <1>1 DEF BirlikteSayar, Basliyor
<1>3. l1v_sayac' = sayac'
  BY <1>1, <1>2 DEF Kenar, VeriTarafi, L1vSay
<1>4. istek' = istek
  BY <1>1, <1>2 DEF Kenar, Yurut, Ilerler, L1vValid
<1> QED
  BY <1>2, <1>3, <1>4

\* A ready that is on its way after an edge was, or was started by, the access before
\* it, which is then still there.
LEMMA HazirdanOnce ==
    ASSUME TipDogru, PortTutulur, HazirAit, Kenar, HazirYolda'
    PROVE  RamSecili /\ ~IomemReady
<1>1. CASE ram_ready'
  BY <1>1 DEF Kenar
<1>2. CASE \E i \in Asamalar : ram_shift_q'[i]
  <2>1. PICK i \in Asamalar : ram_shift_q'[i]
    BY <1>2
  <2>2. /\ ~(RamSecili /\ IomemReady)
        /\ IF i = 0 THEN ram_ready ELSE ram_shift_q[i - 1]
    BY <2>1 DEF Kenar, GecikmeSonraki
  <2>3. HazirYolda
    BY <2>2, Sabitler DEF HazirYolda
  <2> QED
    BY <2>2, <2>3 DEF HazirAit
<1> QED
  BY <1>1, <1>2 DEF HazirYolda

\* The loader never has a word in two cycles one after the other.
LEMMA SozcukAralikli ==
    ASSUME Yukleyici, ProgYazar
    PROVE  ~ProgYazar'
  BY DEF Yukleyici, Dinle, SozcukGeldi, SozcukBekle, YuklemeBitti, ProgYazar

LEMMA HazirAdim ==
    ASSUME IInv, Calis
    PROVE  HazirAit'
<1> SUFFICES ASSUME HazirYolda'
             PROVE  /\ RamSecili'
                    /\ RamYaz' /\ ProgYazar' => bellek'[RamAddr'] = iomem_wdata_r'
  BY DEF HazirAit
<1>1. TipDogru /\ PortTutulur /\ HazirAit /\ Kenar /\ Yukleyici
  BY DEF IInv, Calis
<1>2. RamSecili /\ ~IomemReady
  BY <1>1, HazirdanOnce
<1>3. RamSecili' /\ RamAddr' = RamAddr /\ RamYaz' = RamYaz /\ iomem_wdata_r' = iomem_wdata_r
  BY <1>1, <1>2, PortKalir
<1>4. ASSUME RamYaz', ProgYazar'
      PROVE  bellek'[RamAddr] = iomem_wdata_r
  <2>1. ~ProgYazar /\ RamYaz
    BY <1>1, <1>3, <1>4, SozcukAralikli
  <2>2. bellek' = [bellek EXCEPT ![RamAddr] = iomem_wdata_r]
    BY <1>1, <2>1 DEF Kenar, Ram, RamSonraki
  <2>3. RamAddr \in Adresler /\ bellek \in [Adresler -> Deger]
    BY <1>1 DEF TipDogru, RamAddr, L1bAddr, Getirmeler, GetirmeTipi
  <2> QED
    BY <2>2, <2>3
<1> QED
  BY <1>3, <1>4

\* A reset: the port goes to the first fetch, which owns what is left in the line.
LEMMA SifirlaAdim ==
    ASSUME TipDogru, SistemSifirla
    PROVE  /\ PortTutulur' /\ BirlikteSayar' /\ HazirAit' /\ ErisimUyar' /\ DolumUyar'
           /\ YeniSifirlandi' /\ ~RamYaz'
<1>1. istek'.tur = "yok"
  BY SadeTipi DEF SistemSifirla
<1>2. durum' = "RESET" /\ l1v_sayac' = 0 /\ sayac' = 0 /\ l1b' = "READMEM0"
      /\ switch' = "BUYRUK"
  BY DEF SistemSifirla
<1>3. ~L1vValid' /\ ~TimerValid' /\ L1bValid' /\ ~RamYaz'
  BY <1>1, <1>2 DEF L1vValid, TimerValid, L1bValid, RamYaz
<1>4. RamSecili'
  BY <1>2, <1>3 DEF RamSecili
<1>5. ErisimUyar' /\ DolumUyar'
  BY <1>2 DEF SistemSifirla, IlkGetirme, ErisimUyar, DolumUyar
<1> QED
  BY <1>1, <1>2, <1>3, <1>4, <1>5 DEF PortTutulur, BirlikteSayar, HazirAit, YeniSifirlandi

\* The access that follows is the next one the request needs.
LEMMA ErisimAdim ==
    ASSUME TipDogru, PortTutulur, ErisimUyar, Kenar
    PROVE  ErisimUyar'
<1>1. PICK b \in BOOLEAN : Yurut(Ilerler(b))
  BY DEF Kenar
<1>2. VeriTarafi
  BY DEF Kenar
<1>3. istek \in Istekler /\ istek.adr \in Adresler
  BY IsteklerTipi DEF TipDogru, IstekTipi
<1>4. CASE L1vValid /\ ~L1vReady
  <2>1. /\ durum' = durum /\ istek' = istek
        /\ iomem_addr_r' = iomem_addr_r /\ iomem_wdata_r' = iomem_wdata_r
    BY <1>4, VeriKalir
  <2> QED
    BY <2>1 DEF ErisimUyar
<1>5. CASE L1vValid /\ L1vReady
  <2>1. ~Ilerler(b)
    BY <1>5, YurutBekler
  <2>2. CASE durum = "BELLEK_YAZ" /\ istek.tur = "yazoku"
    <3>1. istek' = Okuma(istek.adr) /\ iomem_addr_r' = istek.adr /\ durum' = "BELLEK_OKU"
      BY <1>1, <1>2, <1>5, <2>1, <2>2 DEF Yurut, VeriTarafi, L1vValid
    <3> QED
      BY <3>1 DEF ErisimUyar
  <2>3. CASE ~(durum = "BELLEK_YAZ" /\ istek.tur = "yazoku")
    <3>1. durum' = "BOY"
      BY <1>2, <1>5, <2>3 DEF VeriTarafi, L1vValid
    <3> QED
      BY <3>1 DEF ErisimUyar
  <2> QED
    BY <2>2, <2>3
<1>6. CASE ~L1vValid
  <2> SUFFICES ASSUME durum' \in {"BELLEK_OKU", "BELLEK_YAZ"}
               PROVE  ErisimUyar'
    BY DEF ErisimUyar
  <2>1. durum = "BOY" /\ L1vSec /\ istek.tur # "isabet"
    BY <1>2, <1>6 DEF VeriTarafi, L1vValid, TipDogru
  <2>2. istek.tur \in {"oku", "yazoku", "yaz"}
    BY <2>1 DEF L1vSec, VeriTurleri
  <2>3. ~Ilerler(b)
    BY <2>1 DEF Ilerler, L1vDurdur, L1vSec
  <2>4. istek' = istek
    BY <1>1, <1>6, <2>3 DEF Yurut
  <2>5. CASE istek.tur = "oku"
    <3>1. durum' = "BELLEK_OKU" /\ iomem_addr_r' = istek.adr
      BY <1>2, <2>1, <2>5 DEF VeriTarafi
    <3>2. istek = Okuma(istek.adr)
      BY <1>3, <2>5, IstekAyrimi
    <3> QED
      BY <2>4, <3>1, <3>2 DEF ErisimUyar
  <2>6. CASE istek.tur \in {"yazoku", "yaz"}
    <3>1. durum' = "BELLEK_YAZ" /\ iomem_addr_r' = istek.kurban /\ iomem_wdata_r' = istek.veri
      BY <1>2, <2>1, <2>6 DEF VeriTarafi
    <3> QED
      BY <2>4, <2>6, <3>1 DEF ErisimUyar
  <2> QED
    BY <2>2, <2>5, <2>6
<1> QED
  BY <1>4, <1>5, <1>6

\* A row is filled because the fetch misses it.
LEMMA DolumAdim ==
    ASSUME TipDogru, PortTutulur, DolumUyar, Kenar
    PROVE  DolumUyar'
<1>1. PICK b \in BOOLEAN : BuyrukTarafi(Ilerler(b))
  BY DEF Kenar
<1>2. CASE L1bValid /\ ~L1bReady
  <2>1. l1b' = l1b /\ getirme' = getirme
    BY <1>2, GetirmeKalir
  <2> QED
    BY <2>1 DEF DolumUyar
<1>3. CASE L1bValid /\ L1bReady
  <2>1. l1b' = "READCACHE"
    BY <1>1, <1>3 DEF BuyrukTarafi
  <2> QED
    BY <2>1 DEF DolumUyar
<1>4. CASE ~L1bValid /\ getirme.eksik = {}
  <2>1. l1b' = "READCACHE"
    BY <1>1, <1>4 DEF BuyrukTarafi
  <2> QED
    BY <2>1 DEF DolumUyar
<1>5. CASE ~L1bValid /\ getirme.eksik # {}
  <2>1. ~Ilerler(b)
    BY <1>5 DEF Ilerler, GtrHazir
  <2>2. getirme' = getirme
    BY <1>1, <1>5, <2>1 DEF BuyrukTarafi, L1bValid
  <2>3. /\ l1b' = "READMEM0" => 0 \in getirme.eksik
        /\ l1b' = "READMEM1" => getirme.eksik = {1}
    BY <1>1, <1>5 DEF BuyrukTarafi
  <2> QED
    BY <2>2, <2>3 DEF DolumUyar
<1> QED
  BY <1>2, <1>3, <1>4, <1>5

LEMMA IInvBas == ASSUME Init PROVE IInv
<1>1. TipDogru
  BY TipBas
<1>2. istek.tur = "yok"
  BY SadeTipi DEF Init
<1>3. ~HazirYolda
  BY DEF Init, HazirYolda
<1>4. PortTutulur /\ BirlikteSayar
  BY <1>2 DEF Init, PortTutulur, L1vValid, BirlikteSayar
<1>5. ErisimUyar /\ DolumUyar
  BY DEF Init, IlkGetirme, ErisimUyar, DolumUyar
<1> QED
  BY <1>1, <1>3, <1>4, <1>5 DEF IInv, HazirAit

LEMMA IInvAdim ==
    ASSUME IInv, [Next]_vars
    PROVE  IInv'
<1>1. /\ TipDogru /\ PortTutulur /\ BirlikteSayar /\ HazirAit /\ ErisimUyar /\ DolumUyar
      /\ TipDogru'
  BY TipAdim DEF IInv
<1>2. CASE Calis
  BY <1>1, <1>2, PortAdim, SayarAdim, HazirAdim, ErisimAdim, DolumAdim DEF Calis, IInv
<1>3. CASE YukleyiciSifirla \/ DisSifirla
  BY <1>1, <1>3, SifirlaAdim DEF YukleyiciSifirla, DisSifirla, IInv
<1>4. CASE UNCHANGED vars
  <2>1. PortTutulur'
    BY <1>1, <1>4 DEF PortTutulur, L1vValid, GtrHazir, Basliyor, vars, onbellekVars
  <2>2. BirlikteSayar'
    BY <1>1, <1>4 DEF BirlikteSayar, vars, onbellekVars
  <2>3. HazirAit'
    BY <1>1, <1>4 DEF HazirAit, HazirYolda, RamSecili, RamYaz, ProgYazar, RamAddr, L1bAddr,
                      L1bValid, L1vValid, TimerValid, YrtDurdur, Basliyor, GtrHazir,
                      vars, onbellekVars, yukleyiciVars
  <2>4. ErisimUyar' /\ DolumUyar'
    BY <1>1, <1>4 DEF ErisimUyar, DolumUyar, vars, onbellekVars
  <2> QED
    BY <1>1, <2>1, <2>2, <2>3, <2>4 DEF IInv
<1> QED
  BY <1>2, <1>3, <1>4 DEF Next

\* The inductive invariant of the memory system.
THEOREM IInvTeoremi == Spec => []IInv
  BY IInvBas, IInvAdim, PTL DEF Spec
-----------------------------------------------------------------------------
(* What follows from it *)

\* The port never has two users.
THEOREM TekErisimTeoremi == Spec => []TekErisim
<1>1. ASSUME IInv PROVE TekErisim
  BY <1>1, TekKullanici DEF IInv, TekErisim
<1> QED
  BY <1>1, IInvTeoremi, PTL

\* No instruction is in execute while the data cache clears its rows.
THEOREM SifirlamadaBosTeoremi == Spec => []SifirlamadaBos
<1>1. ASSUME IInv PROVE SifirlamadaBos
  BY <1>1 DEF IInv, BirlikteSayar, SifirlamadaBos
<1> QED
  BY <1>1, IInvTeoremi, PTL

LEMMA OkunanAdim ==
    ASSUME IInv, OkunanDogru, [Next]_vars
    PROVE  OkunanDogru'
<1>1. TipDogru /\ PortTutulur /\ HazirAit
  BY DEF IInv
<1>2. CASE Calis
  <2> SUFFICES ASSUME RamSecili', IomemReady', ~RamYaz', state_prog' = "SequenceWait"
               PROVE  ram_data' = bellek'[RamAddr']
    BY DEF OkunanDogru
  <2>1. Kenar /\ Yukleyici
    BY <1>2 DEF Calis
  <2>2. HazirYolda'
    BY Sabitler DEF RamSecili, IomemReady, HazirYolda
  <2>3. RamSecili /\ ~IomemReady
    BY <1>1, <2>1, <2>2, HazirdanOnce
  <2>4. RamAddr' = RamAddr /\ RamYaz' = RamYaz
    BY <1>1, <2>1, <2>3, PortKalir
  <2>5. ~ProgYazar
    BY <2>1 DEF Yukleyici, Dinle, SozcukGeldi, SozcukBekle, YuklemeBitti, ProgYazar
  <2>6. bellek' = bellek /\ ram_data' = bellek[RamAddr]
    BY <2>1, <2>3, <2>4, <2>5 DEF Kenar, Ram, RamSonraki
  <2> QED
    BY <2>4, <2>6
<1>3. CASE YukleyiciSifirla \/ DisSifirla
  BY <1>1, <1>3, SifirlaAdim DEF YukleyiciSifirla, DisSifirla, OkunanDogru
<1>4. CASE UNCHANGED vars
  BY <1>4 DEF OkunanDogru, YeniSifirlandi, IomemReady, RamSecili, RamYaz, RamAddr, L1bAddr,
              L1bValid, L1vValid, TimerValid, YrtDurdur, Basliyor, GtrHazir,
              vars, onbellekVars, yukleyiciVars
<1> QED
  BY <1>2, <1>3, <1>4 DEF Next

\* A cache that is told ready is given the word it reads, for every length of the
\* delay line.
THEOREM OkunanDogruTeoremi == Spec => []OkunanDogru
<1>1. ASSUME Init PROVE OkunanDogru
  BY <1>1 DEF Init, OkunanDogru, YeniSifirlandi
<1> QED
  BY <1>1, OkunanAdim, IInvTeoremi, PTL DEF Spec

\* An unanswered access stays on the port unchanged.
THEOREM PortSabitTeoremi == Spec => PortSabit
<1>1. ASSUME IInv, [Next]_vars, RamSecili, ~IomemReady, ~Sifirlama
      PROVE  \/ /\ RamSecili' /\ RamAddr' = RamAddr /\ RamYaz' = RamYaz
                /\ iomem_wdata_r' = iomem_wdata_r
             \/ UNCHANGED vars
  BY <1>1, PortKalir DEF IInv, Next, Calis, Sifirlama
<1> QED
  BY <1>1, IInvTeoremi, PTL DEF Spec, PortSabit

\* A write-back that is told ready is in the RAM.
THEOREM YazmaIslendiTeoremi == Spec => YazmaIslendi
<1>1. ASSUME IInv, Next, RamYaz, IomemReady
      PROVE  \/ bellek'[RamAddr] = iomem_wdata_r
             \/ ProgYazar /\ prog_addr = RamAddr
  <2>1. Ram
    BY <1>1 DEF Next, Calis, Kenar, YukleyiciSifirla, DisSifirla
  <2>2. RamAddr \in Adresler /\ bellek \in [Adresler -> Deger]
    BY <1>1 DEF IInv, TipDogru, RamAddr, L1bAddr, Getirmeler, GetirmeTipi
  <2>3. CASE ~ProgYazar
    <3>1. bellek' = [bellek EXCEPT ![RamAddr] = iomem_wdata_r]
      BY <1>1, <2>1, <2>3 DEF Ram, RamSonraki
    <3> QED
      BY <2>2, <3>1
  <2>4. CASE ProgYazar /\ prog_addr # RamAddr
    <3>1. HazirYolda
      BY <1>1, Sabitler DEF RamYaz, RamSecili, IomemReady, HazirYolda
    <3>2. bellek[RamAddr] = iomem_wdata_r
      BY <1>1, <2>4, <3>1 DEF IInv, HazirAit
    <3>3. bellek' = [bellek EXCEPT ![prog_addr] = prog_instruction]
      BY <2>1, <2>4 DEF Ram, RamSonraki
    <3> QED
      BY <2>2, <2>4, <3>2, <3>3
  <2> QED
    BY <2>3, <2>4
<1> QED
  BY <1>1, IInvTeoremi, PTL DEF Spec, YazmaIslendi

\* The core holds the fetch address and the data request of a cache that waits.
THEOREM IstekTutulurTeoremi == Spec => IstekTutulur
<1>1. ASSUME IInv, Calis, L1bValid, l1b' = l1b
      PROVE  getirme' = getirme
  <2>1. PICK b \in BOOLEAN : BuyrukTarafi(Ilerler(b))
    BY <1>1 DEF Calis, Kenar
  <2>2. ~L1bReady
    BY <1>1, <2>1 DEF BuyrukTarafi, L1bValid
  <2> QED
    BY <1>1, <2>1, <2>2, GetirmeBekler DEF BuyrukTarafi
<1>2. ASSUME IInv, Calis, L1vValid
      PROVE  istek'.adr = istek.adr \/ durum' = "BOY"
  <2>1. PICK b \in BOOLEAN : Yurut(Ilerler(b))
    BY <1>2 DEF Calis, Kenar
  <2>2. PortTutulur /\ istek.adr \in Adresler
    BY <1>2, IsteklerTipi DEF IInv, TipDogru, IstekTipi
  <2>3. ~Ilerler(b)
    BY <1>2, <2>2, YurutBekler
  <2>4. CASE L1vReady /\ istek.tur = "yazoku"
    BY <1>2, <2>1, <2>2, <2>3, <2>4, OkumaTipi DEF Yurut
  <2>5. CASE ~L1vReady
    BY <2>1, <2>3, <2>5 DEF Yurut
  <2>6. CASE L1vReady /\ istek.tur # "yazoku"
    BY <1>2, <2>6 DEF Calis, Kenar, VeriTarafi, L1vValid
  <2> QED
    BY <2>4, <2>5, <2>6
<1>3. ASSUME IInv, [Next]_vars, ~Sifirlama
      PROVE  \/ /\ L1bValid /\ l1b' = l1b => getirme' = getirme
                /\ L1vValid /\ durum' # "BOY" => istek'.adr = istek.adr
             \/ UNCHANGED vars
  BY <1>1, <1>2, <1>3 DEF Next, Sifirlama
<1> QED
  BY <1>3, IInvTeoremi, PTL DEF Spec, IstekTutulur

-----------------------------------------------------------------------------
(* Both caches are used as their interfaces say *)

\* What the data cache is given is a request of its interface.
LEMMA VeriIstegiTipi ==
    ASSUME istek \in Istekler
    PROVE  /\ VeriIstegi \in VeriKapi!Istekler
           /\ istek.tur \in VeriTurleri => VeriIstegi = istek
           /\ istek.tur \notin VeriTurleri => VeriIstegi = VeriKapi!Sade("yok")
<1>1. /\ \A t : VeriKapi!Sade(t) = Sade(t)
      /\ \A a : VeriKapi!Okuma(a) = Okuma(a)
  BY DEF VeriKapi!Sade, Sade, VeriKapi!Okuma, Okuma
<1>2. /\ istek.tur \in VeriTurleri => VeriIstegi = istek
      /\ istek.tur \notin VeriTurleri => VeriIstegi = VeriKapi!Sade("yok")
  BY <1>1 DEF VeriIstegi
<1>3. VeriKapi!Sade("yok") \in VeriKapi!Istekler
  BY DEF VeriKapi!Istekler
<1>4. CASE istek.tur = "isabet"
  <2>1. istek = VeriKapi!Sade("isabet")
    BY <1>1, <1>4, IstekAyrimi
  <2> QED
    BY <1>2, <1>4, <2>1 DEF VeriKapi!Istekler, VeriTurleri
<1>5. CASE istek.tur = "oku"
  <2>1. istek = VeriKapi!Okuma(istek.adr) /\ istek.adr \in Adresler
    BY <1>1, <1>5, IstekAyrimi, IsteklerTipi DEF IstekTipi
  <2> QED
    BY <1>2, <1>5, <2>1 DEF VeriKapi!Istekler, VeriTurleri
<1>6. CASE istek.tur \in {"yazoku", "yaz"}
  <2>1. istek \in VeriKapi!IstekTipi
    BY <1>6, IsteklerTipi DEF IstekTipi, VeriKapi!IstekTipi
  <2> QED
    BY <1>2, <1>6, <2>1, IstekAyrimi DEF VeriKapi!Istekler, VeriTurleri
<1>7. CASE istek.tur \notin VeriTurleri
  BY <1>2, <1>3, <1>7
<1> QED
  BY <1>2, <1>4, <1>5, <1>6, <1>7 DEF VeriTurleri

\* The core lets go of a request only when it needs nothing more.
LEMMA IlerlerseBitti ==
    ASSUME istek \in Istekler, NEW b, Ilerler(b)
    PROVE  VeriIstegi.tur \in {"yok", "isabet"}
<1>1. CASE istek.tur \in VeriTurleri
  <2>1. L1vSec /\ ~L1vDurdur
    BY <1>1 DEF Ilerler, L1vSec, YrtDurdur
  <2> QED
    BY <1>1, <2>1, VeriIstegiTipi DEF L1vDurdur
<1>2. CASE istek.tur \notin VeriTurleri
  <2>1. VeriIstegi = VeriKapi!Sade("yok")
    BY <1>2, VeriIstegiTipi
  <2> QED
    BY <2>1 DEF VeriKapi!Sade
<1> QED
  BY <1>1, <1>2

\* Out of reset, the data cache moves as its interface says.
LEMMA VeriKapiKenar ==
    ASSUME IInv, IInv', Kenar
    PROVE  VeriKapi!Calis \/ UNCHANGED VeriKapi!vars
<1>1. PICK b \in BOOLEAN : Yurut(Ilerler(b))
  BY DEF Kenar
<1>2. /\ VeriTarafi
      /\ TipDogru /\ PortTutulur /\ BirlikteSayar /\ ErisimUyar
      /\ istek \in Istekler /\ istek' \in Istekler
      /\ istek.adr \in Adresler
  BY IsteklerTipi DEF Kenar, IInv, TipDogru, IstekTipi
<1>3. VeriIstegi \in VeriKapi!Istekler /\ VeriIstegi' \in VeriKapi!Istekler
  <2>1. (istek \in Istekler => VeriIstegi \in VeriKapi!Istekler)'
    BY VeriIstegiTipi, PTL
  <2> QED
    BY <1>2, <2>1, VeriIstegiTipi
<1>4. istek' = istek => VeriIstegi' = VeriIstegi
  BY DEF VeriIstegi
<1>5. CASE durum = "RESET"
  <2>1. iomem_addr_r' = iomem_addr_r /\ iomem_wdata_r' = iomem_wdata_r
    BY <1>2, <1>5 DEF VeriTarafi
  <2>2. VeriIstegi = VeriKapi!Sade("yok")
    BY <1>2, <1>5, VeriIstegiTipi DEF BirlikteSayar, VeriTurleri
  <2>3. CASE l1v_sayac = SayacSon
    <3>1. durum' = "BOY"
      BY <1>2, <1>5, <2>3 DEF VeriTarafi, L1vValid
    <3>2. VeriKapi!Basla
      BY <1>3, <1>5, <2>1, <2>2, <3>1 DEF VeriKapi!Basla
    <3> QED
      BY <3>2 DEF VeriKapi!Calis
  <2>4. CASE l1v_sayac # SayacSon
    <3>1. durum' = durum
      BY <1>2, <1>5, <2>4 DEF VeriTarafi
    <3>2. ~Ilerler(b)
      BY <1>2, <1>5, <2>4 DEF BirlikteSayar, Ilerler, Basliyor
    <3>3. istek' = istek
      BY <1>1, <1>5, <3>2 DEF Yurut, L1vValid
    <3> QED
      BY <1>4, <2>1, <3>1, <3>3 DEF VeriKapi!vars
  <2> QED
    BY <2>3, <2>4
<1>6. CASE durum = "BOY" /\ (~L1vSec \/ istek.tur = "isabet")
  <2>1. durum' = durum /\ iomem_addr_r' = iomem_addr_r /\ iomem_wdata_r' = iomem_wdata_r
    BY <1>2, <1>6 DEF VeriTarafi
  <2>2. CASE Ilerler(b)
    <3>1. VeriIstegi.tur \in {"yok", "isabet"}
      BY <1>2, <2>2, IlerlerseBitti
    <3> QED
      BY <1>3, <1>6, <2>1, <3>1 DEF VeriKapi!Calis, VeriKapi!Birak
  <2>3. CASE ~Ilerler(b)
    <3>1. istek' = istek
      BY <1>1, <1>6, <2>3 DEF Yurut, L1vValid
    <3> QED
      BY <1>4, <2>1, <3>1 DEF VeriKapi!vars
  <2> QED
    BY <2>2, <2>3
<1>7. CASE durum = "BOY" /\ L1vSec /\ istek.tur # "isabet"
  <2>1. ~Ilerler(b)
    BY <1>7 DEF Ilerler, L1vDurdur, L1vSec
  <2>2. istek' = istek
    BY <1>1, <1>7, <2>1 DEF Yurut, L1vValid
  <2>3. VeriIstegi = istek /\ VeriIstegi' = VeriIstegi
    BY <1>2, <1>4, <1>7, <2>2, VeriIstegiTipi DEF L1vSec
  <2>4. CASE istek.tur = "oku"
    <3>1. /\ durum' = "BELLEK_OKU" /\ iomem_addr_r' = istek.adr
          /\ iomem_wdata_r' = iomem_wdata_r
      BY <1>2, <1>7, <2>4 DEF VeriTarafi, L1vValid
    <3>2. VeriKapi!Oku
      BY <1>7, <2>3, <2>4, <3>1 DEF VeriKapi!Oku
    <3> QED
      BY <3>2 DEF VeriKapi!Calis
  <2>5. CASE istek.tur \in {"yazoku", "yaz"}
    <3>1. /\ durum' = "BELLEK_YAZ" /\ iomem_addr_r' = istek.kurban
          /\ iomem_wdata_r' = istek.veri
      BY <1>2, <1>7, <2>5 DEF VeriTarafi, L1vValid
    <3>2. VeriKapi!GeriYaz
      BY <1>7, <2>3, <2>5, <3>1 DEF VeriKapi!GeriYaz
    <3> QED
      BY <3>2 DEF VeriKapi!Calis
  <2> QED
    BY <1>7, <2>4, <2>5 DEF L1vSec, VeriTurleri
<1>8. CASE L1vValid /\ ~L1vReady
  <2>1. /\ durum' = durum /\ istek' = istek
        /\ iomem_addr_r' = iomem_addr_r /\ iomem_wdata_r' = iomem_wdata_r
    BY <1>2, <1>8, VeriKalir
  <2> QED
    BY <1>4, <2>1 DEF VeriKapi!vars
<1>9. CASE L1vValid /\ L1vReady
  <2>1. ~Ilerler(b)
    BY <1>2, <1>9, YurutBekler
  <2>2. VeriIstegi = istek
    BY <1>2, <1>9, VeriIstegiTipi DEF PortTutulur
  <2>3. \A t : Sade(t) = VeriKapi!Sade(t)
    BY DEF Sade, VeriKapi!Sade
  <2>4. \A a : Okuma(a) = VeriKapi!Okuma(a)
    BY DEF Okuma, VeriKapi!Okuma, Sade, VeriKapi!Sade
  <2>5. iomem_wdata_r' = iomem_wdata_r
    BY <1>2, <1>9 DEF VeriTarafi, L1vValid
  <2>6. istek'.tur \in VeriTurleri => VeriIstegi' = istek'
    BY DEF VeriIstegi
  <2>7. CASE durum = "BELLEK_YAZ" /\ istek.tur = "yazoku"
    <3>1. istek' = Okuma(istek.adr) /\ iomem_addr_r' = istek.adr /\ durum' = "BELLEK_OKU"
      BY <1>1, <1>2, <1>9, <2>1, <2>7 DEF Yurut, VeriTarafi, L1vValid
    <3>2. VeriIstegi' = VeriKapi!Okuma(istek.adr)
      BY <1>2, <2>4, <2>6, <3>1, OkumaTipi DEF VeriTurleri
    <3>3. iomem_addr_r = istek.kurban /\ iomem_wdata_r = istek.veri
      BY <1>2, <2>7 DEF ErisimUyar
    <3> QED
      BY <2>2, <2>5, <2>7, <3>1, <3>2, <3>3 DEF VeriKapi!Calis, VeriKapi!YazildiOku
  <2>8. CASE ~(durum = "BELLEK_YAZ" /\ istek.tur = "yazoku")
    <3>1. durum' = "BOY" /\ iomem_addr_r' = iomem_addr_r
      BY <1>2, <1>9, <2>8 DEF VeriTarafi, L1vValid
    <3>2. istek.tur # "yazoku"
      <4>1. CASE durum = "BELLEK_OKU"
        BY <1>2, <4>1, OkumaTipi DEF ErisimUyar, TipDogru
      <4>2. CASE durum = "BELLEK_YAZ"
        BY <2>8, <4>2
      <4> QED
        BY <1>9, <4>1, <4>2 DEF L1vValid
    <3>3. istek' = Sade("isabet")
      BY <1>1, <1>9, <2>1, <3>2 DEF Yurut
    <3>4. VeriIstegi' = VeriKapi!Sade("isabet")
      BY <2>3, <2>6, <3>3, SadeTipi DEF VeriTurleri
    <3>5. CASE durum = "BELLEK_OKU"
      <4>1. istek = VeriKapi!Okuma(iomem_addr_r)
        BY <1>2, <2>4, <3>5 DEF ErisimUyar
      <4> QED
        BY <2>2, <2>5, <3>1, <3>4, <3>5, <4>1 DEF VeriKapi!Calis, VeriKapi!Okundu
    <3>6. CASE durum = "BELLEK_YAZ"
      <4>1. istek.tur = "yaz" /\ iomem_addr_r = istek.kurban /\ iomem_wdata_r = istek.veri
        BY <1>2, <2>8, <3>6 DEF ErisimUyar
      <4> QED
        BY <2>2, <2>5, <3>1, <3>4, <3>6, <4>1 DEF VeriKapi!Calis, VeriKapi!Yazildi
    <3> QED
      BY <1>9, <3>5, <3>6 DEF L1vValid
  <2> QED
    BY <2>7, <2>8
<1> QED
  BY <1>2, <1>5, <1>6, <1>7, <1>8, <1>9 DEF TipDogru, L1vValid

\* Out of reset, the instruction cache moves as its interface says.
LEMMA GetirmeKapiKenar ==
    ASSUME IInv, IInv', Kenar
    PROVE  GetirmeKapi!Calis \/ UNCHANGED GetirmeKapi!vars
<1>1. PICK b \in BOOLEAN : BuyrukTarafi(Ilerler(b))
  BY DEF Kenar
<1>2. /\ TipDogru /\ PortTutulur /\ DolumUyar
      /\ getirme' \in GetirmeKapi!Getirmeler
      /\ getirme.eksik \in SUBSET {0, 1}
  BY DEF IInv, TipDogru, Getirmeler, GetirmeTipi, GetirmeKapi!Getirmeler,
         GetirmeKapi!GetirmeTipi
<1>3. CASE L1bValid /\ ~L1bReady
  <2>1. l1b' = l1b /\ getirme' = getirme
    BY <1>2, <1>3, GetirmeKalir
  <2> QED
    BY <2>1 DEF GetirmeKapi!vars
<1>4. CASE L1bValid /\ L1bReady
  <2>1. l1b' = "READCACHE" /\ ~Ilerler(b)
    BY <1>1, <1>4, GetirmeBekler DEF BuyrukTarafi
  <2>2. CASE l1b = "READMEM0"
    <3>1. getirme' = [getirme EXCEPT !.eksik = @ \ {0}, !.adr0 = 0]
      BY <1>1, <1>4, <2>1, <2>2 DEF BuyrukTarafi
    <3> QED
      BY <1>2, <2>1, <2>2, <3>1 DEF DolumUyar, GetirmeKapi!Calis, GetirmeKapi!Doldur0
  <2>3. CASE l1b = "READMEM1"
    <3>1. getirme' = [getirme EXCEPT !.eksik = @ \ {1}, !.adr1 = 0]
      BY <1>1, <1>4, <2>1, <2>3 DEF BuyrukTarafi
    <3>2. getirme.eksik = {1} /\ getirme.eksik \ {1} = {}
      BY <1>2, <2>3 DEF DolumUyar
    <3>3. getirme' = [getirme EXCEPT !.eksik = {}, !.adr1 = 0]
      BY <3>1, <3>2, Zenon
    <3> QED
      BY <2>1, <2>3, <3>2, <3>3 DEF GetirmeKapi!Calis, GetirmeKapi!Doldur1
  <2> QED
    BY <1>2, <1>4, <2>2, <2>3 DEF TipDogru, L1bValid
<1>5. CASE ~L1bValid /\ getirme.eksik # {}
  <2>1. ~Ilerler(b)
    BY <1>5 DEF Ilerler, GtrHazir
  <2>2. getirme' = getirme
    BY <1>1, <1>5, <2>1 DEF BuyrukTarafi, L1bValid
  <2>3. CASE 0 \in getirme.eksik
    <3>1. l1b' = "READMEM0"
      BY <1>1, <1>5, <2>3 DEF BuyrukTarafi
    <3> QED
      BY <1>5, <2>2, <2>3, <3>1 DEF L1bValid, GetirmeKapi!Calis, GetirmeKapi!Oku0
  <2>4. CASE 0 \notin getirme.eksik
    <3>1. getirme.eksik = {1}
      BY <1>2, <1>5, <2>4
    <3>2. l1b' = "READMEM1"
      BY <1>1, <1>5, <2>4, <3>1 DEF BuyrukTarafi
    <3> QED
      BY <1>5, <2>2, <3>1, <3>2 DEF L1bValid, GetirmeKapi!Calis, GetirmeKapi!Oku1
  <2> QED
    BY <2>3, <2>4
<1>6. CASE ~L1bValid /\ getirme.eksik = {}
  <2>1. l1b' = "READCACHE" /\ l1b = "READCACHE"
    BY <1>1, <1>6 DEF BuyrukTarafi, L1bValid
  <2> QED
    BY <1>2, <1>6, <2>1 DEF GetirmeKapi!Calis, GetirmeKapi!Getir
<1> QED
  BY <1>3, <1>4, <1>5, <1>6

\* A reset is one of both interfaces.
LEMMA KapiSifirla ==
    ASSUME SistemSifirla
    PROVE  VeriKapi!Sifirla /\ GetirmeKapi!Sifirla
<1>1. istek'.tur = "yok" /\ durum' = "RESET" /\ l1b' = "READMEM0"
  BY SadeTipi DEF SistemSifirla
<1>2. VeriIstegi' = VeriKapi!Sade("yok")
  BY <1>1 DEF VeriIstegi, VeriTurleri, Sade, VeriKapi!Sade
<1>3. getirme' = GetirmeKapi!Ilk
  BY DEF SistemSifirla, IlkGetirme, GetirmeKapi!Ilk
<1> QED
  BY <1>1, <1>2, <1>3 DEF SistemSifirla, VeriKapi!Sifirla, GetirmeKapi!Sifirla

LEMMA KapilarBas == ASSUME Init PROVE VeriKapi!Init /\ GetirmeKapi!Init
<1>1. VeriIstegi = VeriKapi!Sade("yok")
  BY SadeTipi DEF Init, VeriIstegi, VeriTurleri, Sade, VeriKapi!Sade
<1> QED
  BY <1>1, Sabitler DEF Init, IlkGetirme, VeriKapi!Init, GetirmeKapi!Init, GetirmeKapi!Ilk

\* Core, arbiter, RAM and resets use both caches as the caches' interfaces say, for
\* every length of the delay line and of the start-up counters and every RAM.
THEOREM KapilarTeoremi == Spec => KapilarUygun
<1>1. IInv /\ IInv' /\ [Next]_vars => /\ [~Sifirlama => VeriKapi!Calis]_(VeriKapi!vars)
                                     /\ [~Sifirlama => GetirmeKapi!Calis]_(GetirmeKapi!vars)
  <2> SUFFICES ASSUME IInv, IInv', [Next]_vars, ~Sifirlama
               PROVE  [VeriKapi!Calis]_(VeriKapi!vars) /\ [GetirmeKapi!Calis]_(GetirmeKapi!vars)
    OBVIOUS
  <2>1. CASE Calis
    BY <2>1, VeriKapiKenar, GetirmeKapiKenar DEF Calis
  <2>2. CASE UNCHANGED vars
    BY <2>2 DEF vars, onbellekVars, VeriIstegi, VeriKapi!vars, GetirmeKapi!vars
  <2> QED
    BY <2>1, <2>2 DEF Next, Sifirlama
<1>2. Sifirlama => VeriKapi!Sifirla /\ GetirmeKapi!Sifirla
  BY KapiSifirla DEF Sifirlama, YukleyiciSifirla, DisSifirla
<1>3. IInv /\ IInv' /\ [Next]_vars
         => [VeriKapi!Next]_(VeriKapi!vars) /\ [GetirmeKapi!Next]_(GetirmeKapi!vars)
  BY <1>1, <1>2 DEF VeriKapi!Next, GetirmeKapi!Next
<1> QED
  BY <1>1, <1>3, KapilarBas, IInvTeoremi, PTL
     DEF Spec, KapilarUygun, VeriKapi!Spec, GetirmeKapi!Spec

=============================================================================
