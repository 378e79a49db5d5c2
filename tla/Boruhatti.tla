----------------------------- MODULE Boruhatti ------------------------------
(* The core's pipeline: getir with its branch predictor, coz_yazmacoku with the   *)
(* register file, yurut, geri_yaz, and denetim_durum_birimi that stalls, flushes   *)
(* and forwards. A step is a clock cycle. The instruction cache may answer in any  *)
(* cycle, a division or memory access may take any time, and the predictor's       *)
(* counters and return stack may say anything; the values are BoruTanimlari's.     *)
EXTENDS BoruTanimlari

CONSTANT ACILIS         \* 255: cycles the core waits after a reset

ASSUME AcilisVarsayimi == ACILIS \in Nat \ {0}

VARIABLES
    ps,                     \* getir: address being fetched
    cyo_buyruk, cyo_ps,     \* register between getir and coz_yazmacoku
    tahmin_et, ongorulen,   \* predictor: is stage s a predicted jump, was it said to jump
    yrt_buyruk, yrt_ps,     \* register between coz_yazmacoku and yurut
    yrt_deger1, yrt_deger2, \*   with the values of rs1 and rs2
    gy_yaz, gy_rd, gy_deger,\* register between yurut and geri_yaz
    yazmaclar,              \* the register file
    durmus, sayac, bos_basla,   \* denetim_durum_birimi
    \* history: not a bubble, the registers as left by retired instructions, the last retired
    cyo_gercek, yrt_gercek, emekli_yazmaclar, son

getir_vars == <<ps, cyo_buyruk, cyo_ps>>
ongorucu_vars == <<tahmin_et, ongorulen, yrt_ps>>
coz_vars == <<yrt_buyruk, yrt_deger1, yrt_deger2>>
gy_vars == <<gy_yaz, gy_rd, gy_deger>>
ddb_vars == <<durmus, sayac, bos_basla>>
gecmis_vars == <<cyo_gercek, yrt_gercek, emekli_yazmaclar, son>>
vars == <<getir_vars, ongorucu_vars, coz_vars, gy_vars, yazmaclar, ddb_vars, gecmis_vars>>

-----------------------------------------------------------------------------
(* yurut: combinational *)

YrtYazar == yrt_buyruk.yaz

\* Bug: the multiplier's result is forwarded from execute as any other.
YonlendirGecersiz_Yok == FALSE

\* The multiplier has its own output register, its result cannot be forwarded.
YonlendirGecersiz == yrt_buyruk.birim = "carpma"

\* bit: the division or the memory access ends in this cycle.
YrtHazir(bit) == yrt_buyruk.birim \in {"bolme", "bib"} => bit

YrtAtlar == Atlar(yrt_buyruk, yrt_deger1, yrt_deger2)
YrtHedef == Hedef(yrt_buyruk, yrt_ps, yrt_deger1)

\* What the units hand to geri_yaz; veri is the memory's answer.
RdDeger(bit, veri) ==
    CASE yrt_buyruk.birim = "amb" -> Hesap(yrt_buyruk, yrt_ps, yrt_deger1, yrt_deger2)
      [] yrt_buyruk.birim = "bolme" /\ bit ->
             Hesap(yrt_buyruk, yrt_ps, yrt_deger1, yrt_deger2)
      [] yrt_buyruk.birim = "bib" /\ bit -> veri
      [] OTHER -> Belirsiz

YonlendirDeger(bit, veri) ==
    IF Baglar(yrt_buyruk) THEN Baglanti(PsArtmis(yrt_buyruk, yrt_ps)) ELSE RdDeger(bit, veri)

\* The value the register after yurut leads to rd: of rd's three sources the one the
\* microinstruction names. Instructions that write nothing are not followed.
GyDegerSonraki(bit, veri) ==
    IF ~YrtYazar THEN Belirsiz
    ELSE IF YonlendirGecersiz THEN Hesap(yrt_buyruk, yrt_ps, yrt_deger1, yrt_deger2)
    ELSE YonlendirDeger(bit, veri)

-----------------------------------------------------------------------------
(* denetim_durum_birimi: combinational *)

YurutYonlendir(rs) == rs = yrt_buyruk.rd /\ YrtYazar /\ rs # 0
GeriyazYonlendir(rs) == rs = gy_rd /\ gy_yaz /\ rs # 0

Durmali ==
    YonlendirGecersiz /\ (YurutYonlendir(cyo_buyruk.rs1) \/ YurutYonlendir(cyo_buyruk.rs2))

Basliyor == sayac # ACILIS

\* hazir: the instruction cache has the bits at ps.
GtrDurdur(hazir, bit) == Basliyor \/ ~YrtHazir(bit) \/ ~hazir \/ (~durmus /\ Durmali)
CyoDurdur(hazir, bit) == Basliyor \/ ~YrtHazir(bit) \/ ~hazir \/ (~durmus /\ Durmali)
YrtDurdur(hazir) == Basliyor \/ ~hazir

\* What coz_yazmacoku takes for a source register.
Okunan(rs, bit, veri) ==
    CASE ~YonlendirGecersiz /\ YurutYonlendir(rs) -> YonlendirDeger(bit, veri)
      [] (YonlendirGecersiz \/ ~YurutYonlendir(rs)) /\ GeriyazYonlendir(rs) -> gy_deger
      [] OTHER -> yazmaclar[rs]

-----------------------------------------------------------------------------
(* dallanma_ongorucu: combinational *)

\* What it may say of an instruction at ps: a jal goes to its target, a branch may or may
\* not, a jalr goes to what the return stack holds or to anything.
Ongorular(b) ==
    {on \in [atlar : BOOLEAN, ps : Ps] :
        /\ on.atlar => b.dal # "yok"
        /\ Baglar(b) => on.atlar
        /\ b.dal = "yok" => on.ps = 0
        /\ b.dal \in {"kosullu", "jal"} => on.ps = Hedef(b, ps, Sifir)}

\* Bug: a jump that was predicted as one counts as right wherever it was sent.
Hata_HedefeBakmaz ==
    IF ~tahmin_et.yurut \/ (YrtAtlar /\ (ongorulen.yurut \/ cyo_ps = YrtHedef)) THEN "yok"
    ELSE IF ongorulen.yurut THEN "atlamamaliydi"
    ELSE IF YrtAtlar THEN "atlamaliydi"
    ELSE "yok"

\* The instruction in execute against what was said of it when it was fetched.
Hata ==
    IF ~tahmin_et.yurut \/ (YrtAtlar /\ cyo_ps = YrtHedef) THEN "yok"
    ELSE IF ongorulen.yurut /\ ~YrtAtlar THEN "atlamamaliydi"
    ELSE IF ~ongorulen.yurut /\ YrtAtlar THEN "atlamaliydi"
    ELSE IF ongorulen.yurut /\ YrtAtlar THEN "yanlis_atladi"
    ELSE "yok"

YanlisTahmin == Hata # "yok"

Bosalt == bos_basla \/ YanlisTahmin

PsSonraki(b, on) ==
    IF Hata \in {"atlamaliydi", "yanlis_atladi"} THEN YrtHedef
    ELSE IF Hata = "atlamamaliydi" THEN PsArtmis(yrt_buyruk, yrt_ps)
    ELSE IF b.dal # "yok" /\ on.atlar THEN on.ps
    ELSE PsArtmis(b, ps)

-----------------------------------------------------------------------------
(* The registers, at the clock edge *)

Getir(hazir, bit, b, on) ==
    IF GtrDurdur(hazir, bit) THEN UNCHANGED getir_vars
    ELSE /\ ps' = PsSonraki(b, on)
         /\ cyo_buyruk' = IF Bosalt THEN Nop ELSE b
         /\ cyo_ps' = ps

Ongorucu(hazir, bit, b, on) ==
    IF GtrDurdur(hazir, bit) THEN UNCHANGED ongorucu_vars
    ELSE /\ tahmin_et' = [cyo |-> ~YanlisTahmin /\ b.dal # "yok",
                          yurut |-> ~YanlisTahmin /\ tahmin_et.cyo]
         /\ ongorulen' = [cyo |-> on.atlar, yurut |-> ongorulen.cyo]
         /\ yrt_ps' = cyo_ps

CozYazmacoku(hazir, bit, veri) ==
    IF CyoDurdur(hazir, bit) THEN UNCHANGED coz_vars
    ELSE /\ yrt_buyruk' = IF Bosalt THEN Nop ELSE cyo_buyruk
         /\ yrt_deger1' = Okunan(cyo_buyruk.rs1, bit, veri)
         /\ yrt_deger2' = Okunan(cyo_buyruk.rs2, bit, veri)

\* A unit that is not done does not stop this register: rd is written with what it shows.
Yurut(hazir, bit, veri) ==
    IF YrtDurdur(hazir) THEN UNCHANGED gy_vars
    ELSE /\ gy_yaz' = YrtYazar
         /\ gy_rd' = yrt_buyruk.rd
         /\ gy_deger' = GyDegerSonraki(bit, veri)

\* Bug: x0 is written as any other register.
YazmacYaz_SifiraYazar ==
    yazmaclar' = IF gy_yaz THEN [yazmaclar EXCEPT ![gy_rd] = gy_deger] ELSE yazmaclar

YazmacYaz ==
    yazmaclar' = IF gy_yaz /\ gy_rd # 0 THEN [yazmaclar EXCEPT ![gy_rd] = gy_deger]
                 ELSE yazmaclar

\* Bug: the stall for a multiplication's result forgets that it has been made.
Denetim_Unutur(hazir) ==
    /\ sayac' = IF Basliyor THEN sayac + 1 ELSE sayac
    /\ bos_basla' = FALSE
    /\ durmus' = FALSE

Denetim(hazir) ==
    /\ sayac' = IF Basliyor THEN sayac + 1 ELSE sayac
    /\ bos_basla' = FALSE
    /\ durmus' = IF hazir THEN ~durmus /\ Durmali ELSE durmus

\* An instruction retires when it leaves execute.
Emekli(hazir, bit) == yrt_gercek /\ ~CyoDurdur(hazir, bit)

Gecmis(hazir, bit) ==
    /\ cyo_gercek' = IF GtrDurdur(hazir, bit) THEN cyo_gercek ELSE ~Bosalt
    /\ yrt_gercek' = IF CyoDurdur(hazir, bit) THEN yrt_gercek ELSE cyo_gercek /\ ~Bosalt
    /\ emekli_yazmaclar' = IF Emekli(hazir, bit) /\ gy_yaz' /\ gy_rd' # 0
                           THEN [emekli_yazmaclar EXCEPT ![gy_rd'] = gy_deger']
                           ELSE emekli_yazmaclar
    /\ son' = IF Emekli(hazir, bit) THEN yrt_buyruk ELSE YOK

-----------------------------------------------------------------------------
Init ==
    /\ ps = 0
    /\ cyo_buyruk = Nop /\ cyo_ps = 0
    /\ tahmin_et = [cyo |-> FALSE, yurut |-> FALSE]
    /\ ongorulen = [cyo |-> FALSE, yurut |-> FALSE]
    /\ yrt_buyruk = Nop /\ yrt_ps = 0
    /\ yrt_deger1 = Sifir /\ yrt_deger2 = Sifir
    /\ gy_yaz = FALSE /\ gy_rd = 0 /\ gy_deger = Belirsiz
    /\ yazmaclar \in [Yazmac -> Deger] /\ yazmaclar[0] = Sifir
    /\ durmus = FALSE /\ sayac = 0 /\ bos_basla = TRUE
    /\ cyo_gercek = FALSE /\ yrt_gercek = FALSE
    /\ emekli_yazmaclar = yazmaclar /\ son = YOK

\* hazir: the instruction cache answers, with b; bit: a long operation ends; veri: what
\* the memory answers; on: what the predictor says.
Cevrim(hazir, bit, veri, b, on) ==
    /\ Getir(hazir, bit, b, on)
    /\ Ongorucu(hazir, bit, b, on)
    /\ CozYazmacoku(hazir, bit, veri)
    /\ Yurut(hazir, bit, veri)
    /\ YazmacYaz
    /\ Denetim(hazir)
    /\ Gecmis(hazir, bit)

\* A reset. The registers it does not name keep what they hold; of the register file the
\* program may rely on x0 alone, since the write of that very edge may have been unfinished.
Sifirla ==
    /\ ps' = 0
    /\ cyo_buyruk' = Nop
    /\ tahmin_et' = [cyo |-> FALSE, yurut |-> FALSE]
    /\ ongorulen' = [cyo |-> FALSE, yurut |-> FALSE]
    /\ yrt_buyruk' = Nop
    /\ gy_yaz' = FALSE
    /\ yazmaclar' \in {y \in [Yazmac -> Deger] : y[0] = Sifir}
    /\ durmus' = FALSE /\ sayac' = 0 /\ bos_basla' = TRUE
    /\ cyo_gercek' = FALSE /\ yrt_gercek' = FALSE
    /\ emekli_yazmaclar' = yazmaclar' /\ son' = YOK
    /\ UNCHANGED <<cyo_ps, yrt_ps, yrt_deger1, yrt_deger2, gy_rd, gy_deger>>

\* What the memory may answer in this cycle, if the instruction in execute asks it.
Veriler == IF yrt_buyruk.birim = "bib" THEN Deger ELSE {Sifir}

Ongorusuz == [atlar |-> FALSE, ps |-> 0]

\* Both the fetch and the unit in execute are ready.
Ilerle ==
    \E b \in Program[ps], veri \in Veriler :
        \E on \in Ongorular(b) : Cevrim(TRUE, TRUE, veri, b, on)

\* The instruction cache has a miss; what it shows meanwhile is not looked at.
GetirBekler ==
    \E bit \in BOOLEAN, veri \in Veriler : Cevrim(FALSE, bit, veri, Nop, Ongorusuz)

\* The division or the memory access in execute goes on.
YurutBekler ==
    /\ ~YrtHazir(FALSE)
    /\ \E veri \in Veriler : Cevrim(TRUE, FALSE, veri, Nop, Ongorusuz)

Next == Ilerle \/ GetirBekler \/ YurutBekler \/ Sifirla

Spec == Init /\ [][Next]_vars

\* The instruction cache holds its answer until the fetch moves and every miss ends; a
\* memory access ends and holds its answer; a division that ends while the fetch waits is
\* done once more. So again and again both are ready in one cycle.
AdilSpec == Spec /\ WF_vars(Ilerle)

-----------------------------------------------------------------------------
(* Properties *)

\* Every register keeps its width; an x of the code never becomes an operand, nor does it
\* stay in a register a retired instruction has written.
TipDogru ==
    /\ ps \in Ps /\ cyo_ps \in Ps /\ yrt_ps \in Ps
    /\ cyo_buyruk \in Buyruklar \cup {Nop} /\ yrt_buyruk \in Buyruklar \cup {Nop}
    /\ tahmin_et \in [cyo : BOOLEAN, yurut : BOOLEAN]
    /\ ongorulen \in [cyo : BOOLEAN, yurut : BOOLEAN]
    /\ yrt_deger1 \in Deger /\ yrt_deger2 \in Deger
    /\ gy_yaz \in BOOLEAN /\ gy_rd \in Yazmac /\ gy_deger \in Deger \cup {Belirsiz}
    /\ yazmaclar \in [Yazmac -> Deger \cup {Belirsiz}]
    /\ emekli_yazmaclar \in [Yazmac -> Deger]
    /\ durmus \in BOOLEAN /\ sayac \in 0 .. ACILIS /\ bos_basla \in BOOLEAN
    /\ cyo_gercek \in BOOLEAN /\ yrt_gercek \in BOOLEAN
    /\ son \in Buyruklar \cup {YOK}

\* A register's value between the register file and geri_yaz.
Gorunen(r) == IF gy_yaz /\ gy_rd = r /\ r # 0 THEN gy_deger ELSE yazmaclar[r]

\* Write-back never loses, delays or repeats a result visibly: every register but the one
\* the instruction in execute is about to write holds what the last retired instruction
\* left in it, although geri_yaz writes in every cycle, also what a unit shows unfinished.
YazmacDogru ==
    \A r \in Yazmac :
        ~(yrt_gercek /\ YrtYazar /\ yrt_buyruk.rd = r /\ r # 0) =>
            Gorunen(r) = emekli_yazmaclar[r]

\* A bubble does nothing and is checked against no prediction.
KabarcikBos ==
    /\ ~cyo_gercek => cyo_buyruk = Nop /\ tahmin_et.cyo = FALSE
    /\ ~yrt_gercek => yrt_buyruk = Nop /\ tahmin_et.yurut = FALSE
    /\ cyo_gercek => cyo_buyruk \in Buyruklar /\ tahmin_et.cyo = (cyo_buyruk.dal # "yok")
    /\ yrt_gercek => yrt_buyruk \in Buyruklar /\ tahmin_et.yurut = (yrt_buyruk.dal # "yok")
    /\ yrt_gercek => cyo_gercek
    /\ Basliyor => ~cyo_gercek
    /\ bos_basla => Basliyor

\* An instruction is one of its address, and behind one that was not said to jump comes
\* the one after it.
YolDogru ==
    /\ yrt_gercek => yrt_buyruk \in Program[yrt_ps]
    /\ cyo_gercek => cyo_buyruk \in Program[cyo_ps]
    /\ yrt_gercek /\ ~(yrt_buyruk.dal # "yok" /\ ongorulen.yurut) =>
           cyo_ps = PsArtmis(yrt_buyruk, yrt_ps)
    /\ cyo_gercek /\ ~(cyo_buyruk.dal # "yok" /\ ongorulen.cyo) =>
           ps = PsArtmis(cyo_buyruk, cyo_ps)

\* Execute has the operands its instruction's predecessors left.
IslenenDogru ==
    yrt_gercek => /\ yrt_deger1 = emekli_yazmaclar[yrt_buyruk.rs1]
                  /\ yrt_deger2 = emekli_yazmaclar[yrt_buyruk.rs2]

\* After the stall for it, a product stands in the register behind the multiplier.
CarpmaBekler ==
    durmus => /\ yrt_gercek /\ YonlendirGecersiz
              /\ gy_yaz = TRUE /\ gy_rd = yrt_buyruk.rd
              /\ gy_deger = Hesap(yrt_buyruk, yrt_ps, yrt_deger1, yrt_deger2)

\* The inductive invariant: bubbles, the path, the operands and the products that are
\* waited for together keep every forwarded value right.
IInv == TipDogru /\ YazmacDogru /\ KabarcikBos /\ YolDogru /\ IslenenDogru /\ CarpmaBekler

\* The next instruction to retire: the oldest one in the pipeline that is no bubble.
EmekliPs == IF yrt_gercek THEN yrt_ps ELSE IF cyo_gercek THEN cyo_ps ELSE ps

Makine == INSTANCE Mimari WITH ps <- EmekliPs, yazmaclar <- emekli_yazmaclar

\* The pipeline implements the machine of Mimari: the instructions that retire are those of
\* the program in its order, each with the operands its predecessors left, whatever is
\* forwarded, stalled, predicted or flushed on the way.  Only a reset starts the program
\* again or touches the registers otherwise.
MimariUygular == Makine!MimariSpec /\ [][~Sifirla => Makine!Calis]_(Makine!mimari_vars)

\* The core does not stop: no combination of the stalls of fetch, decode and execute waits
\* for itself, and instructions retire for ever unless resets go on for ever.
Ilerler == []<><<Sifirla>>_vars \/ []<>(son # YOK)

=============================================================================
