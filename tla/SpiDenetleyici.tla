--------------------------- MODULE SpiDenetleyici ---------------------------
(***************************************************************************)
(* The QSPI flash controller, spi_denetleyici.v, with its prescaler, bit   *)
(* and word counters, and the bus access it is addressed with.  One step   *)
(* is one clock edge.                                                      *)
(*                                                                         *)
(* A bit of data is named by where it came from: <<"dr", 5>> is bit 5 of   *)
(* what software stores to the data registers, <<"flash", 5>> the fifth    *)
(* bit the flash answers with after instruction, address and dummy cycles. *)
(***************************************************************************)
EXTENDS Integers, Sequences

CONSTANTS
    KomutBit,      \* bits of an instruction (8)
    AdresBit,      \* bits of an address (24)
    BaytBit,       \* bits of a byte (8)
    DrSayisi,      \* data registers (8)
    SayacGen,      \* values of bit_ctr (2^11)
    KelimeGen,     \* values of word_ctr (2^4)
    PrescaleGen,   \* values of prescale_ctr (2^6)
    BoyGen,        \* values of data_size (2^9)
    DummyGen,      \* values of dummy_cycles (2^5)
    Komutlar       \* what software writes to QSPI_CCR

VARIABLES
    ccr,           \* QSPI_CCR
    dr,            \* QSPI_DR0 and on, most significant bit first
    state,
    bit_ctr,
    word_ctr,
    buffer,        \* most significant bit first
    inst_flag,
    ack,
    ack_flag,
    out_mod,
    prescale_ctr,
    clock_en,
    istek,         \* the access on the bus
    ara,           \* the strobe has been low for a cycle
    islendi,       \* history: the access has been performed
    komut,         \* history: QSPI_CCR and the data registers as the command began
    giden,         \* history: bits on io_qspi_data[0] under the command
    saat           \* history: bit times since chip select went low

yolVars == <<state, bit_ctr, word_ctr, buffer, out_mod>>

gecmisVars == <<komut, giden, saat>>

vars == <<ccr, dr, yolVars, inst_flag, ack, ack_flag, prescale_ctr, clock_en,
          istek, ara, islendi, gecmisVars>>

KelimeBit == KomutBit + AdresBit

DrNolar == 0 .. DrSayisi - 1

(***************************************************************************)
(* The fields of QSPI_CCR.  Of the instruction counts whether an address   *)
(* follows it (adr_en) and whether it is write enable (read_write_unable). *)
(***************************************************************************)
CcrTipi == [inst : {"adresli", "adressiz", "wren"}, data_mod : 0 .. 3, write_flash : BOOLEAN,
            dummy : 0 .. DummyGen - 1, boy : 0 .. BoyGen - 1, prescale : 0 .. PrescaleGen - 1]

CcrSifir == [inst |-> "adressiz", data_mod |-> 0, write_flash |-> FALSE, dummy |-> 0,
             boy |-> 0, prescale |-> 0]

ASSUME SpiVarsayimi ==
    /\ KomutBit \in Nat \ {0} /\ AdresBit \in Nat \ {0} /\ BaytBit \in Nat \ {0}
    /\ KomutBit + AdresBit >= 4
    /\ DrSayisi \in Nat \ {0}
    /\ SayacGen \in Nat /\ SayacGen > KelimeBit /\ SayacGen >= DummyGen
    /\ KelimeGen \in Nat \ {0} /\ KelimeGen >= DrSayisi
    /\ PrescaleGen \in Nat \ {0} /\ BoyGen \in Nat \ {0} /\ DummyGen \in Nat \ {0}
    /\ Komutlar \subseteq CcrTipi

\* A write enable leaves its prescaler behind, and the acknowledge of its command goes down
\* with the next clock_en only: above 3 it is still up when the next access comes.
ASSUME OnBolucuVarsayimi == \A c \in Komutlar : c.inst = "wren" => c.prescale <= 3

\* No bit.
Z == <<"z", 0>>

BitTipi == {"z", "komut", "adres", "dr", "flash", "sifir"} \X Nat

Bitler(kaynak, ilk, adet) == [i \in 1 .. adet |-> <<kaynak, ilk + i - 1>>]

DrSozcuk(k) == Bitler("dr", k * KelimeBit, KelimeBit)

\* The access on the bus: none, a read, a write to a register.
Bos == [sec |-> FALSE, yaz |-> FALSE, hedef |-> "adr", no |-> 0, ccr |-> CcrSifir]

Erisim(yaz, hedef, no, c) ==
    [sec |-> TRUE, yaz |-> yaz, hedef |-> hedef, no |-> no, ccr |-> c]

Oku == Erisim(FALSE, "adr", 0, CcrSifir)

AdrYaz == Erisim(TRUE, "adr", 0, CcrSifir)

DrYaz(k) == Erisim(TRUE, "dr", k, CcrSifir)

CcrYaz(c) == Erisim(TRUE, "ccr", 0, c)

Erisimler == {Oku, AdrYaz} \cup {DrYaz(k) : k \in DrNolar} \cup {CcrYaz(c) : c \in Komutlar}

-----------------------------------------------------------------------------
(* Combinational signals *)

AdrEn(c) == c.inst = "adresli"

BaslikBit(c) == IF AdrEn(c) THEN KomutBit + AdresBit ELSE KomutBit

\* {instruction_value, QSPI_ADR[23:0]} or {instruction_value, 24'b0}
BaslikSozcuk(c) ==
    Bitler("komut", 0, KomutBit) \o Bitler(IF AdrEn(c) THEN "adres" ELSE "sifir", 0, AdresBit)

\* data_rate has two bits: the 4 of quad mode is cut to 0.
DataRate(mod) == (IF mod = 3 THEN 4 ELSE mod) % 4

\* Bits a READ cycle takes from the pins.
GirenBit(mod) == CASE mod = 2 -> 2 [] mod = 3 -> 4 [] OTHER -> 1

\* io_qspi_data[0]
Tel == CASE out_mod = 0 -> Z
         [] out_mod = 1 -> buffer[1]
         [] out_mod = 2 -> buffer[2]
         [] out_mod = 3 -> buffer[4]

\* buffer << n, with y coming in.
Kaydir(b, y) == SubSeq(b, Len(y) + 1, Len(b)) \o y

Sifirlar(n) == [i \in 1 .. n |-> <<"sifir", 0>>]

DrSifir == [k \in DrNolar |-> Sifirlar(KelimeBit)]

BitAzalt(n) == (bit_ctr - n) % SayacGen

\* The flash's answer in this bit time: it begins after the dummy cycles asked for.
FlashBitleri ==
    LET n == GirenBit(ccr.data_mod)
        t == saat - (BaslikBit(komut.ccr) + komut.ccr.dummy)
    IN  IF t >= 0 THEN Bitler("flash", n * t, n) ELSE [i \in 1 .. n |-> Z]

Okunan == Kaydir(buffer, FlashBitleri)

\* A register the array does not have is not written.
DrYazilir(deger) == dr' = IF word_ctr \in DrNolar THEN [dr EXCEPT ![word_ctr] = deger] ELSE dr

\* What reads of a register the array does not have return stands for anything.
DrOku(k) == IF k \in DrNolar THEN dr[k] ELSE [i \in 1 .. KelimeBit |-> Z]

(* What a command is for, said without the controller *)

\* The bits of the header.
Baslik(c) == SubSeq(BaslikSozcuk(c), 1, BaslikBit(c))

\* The first n bits of the data registers d.
Veri(d, n) == [i \in 1 .. n |-> d[(i - 1) \div KelimeBit][1 + ((i - 1) % KelimeBit)]]

\* Bounds of the histories: a command that never ends is not followed further.
TelSiniri == (DrSayisi + 1) * KelimeBit

SaatSiniri == KelimeBit + DummyGen + SayacGen

-----------------------------------------------------------------------------
(* The bus side *)

\* A register is read or written at this edge.
Erisilir == state = "IDLE" /\ istek.sec /\ ~ack /\ ~ack_flag

CcrYazilir == Erisilir /\ istek.yaz /\ istek.hedef = "ccr"

\* Mutant: so is a write to QSPI_CCR.
AckSonraki_Hemen == state = "IDLE" /\ ~ack /\ (ack_flag \/ istek.sec)

\* Any access but a write to QSPI_CCR is acknowledged at once, that one by ack_flag.
AckSonraki ==
    state = "IDLE" /\ ~ack /\ (ack_flag \/ (istek.sec /\ ~CcrYazilir))

\* Mutant: a write to QSPI_CCR does not ask for a command.
Yazmaclar_BayrakYok ==
    /\ ccr' = IF CcrYazilir THEN istek.ccr ELSE ccr
    /\ dr' = IF Erisilir /\ istek.yaz /\ istek.hedef = "dr"
             THEN [dr EXCEPT ![istek.no] = DrSozcuk(istek.no)] ELSE dr
    /\ UNCHANGED inst_flag

\* The registers in IDLE.
Yazmaclar ==
    /\ ccr' = IF CcrYazilir THEN istek.ccr ELSE ccr
    /\ inst_flag' = (inst_flag \/ CcrYazilir)
    /\ dr' = IF Erisilir /\ istek.yaz /\ istek.hedef = "dr"
             THEN [dr EXCEPT ![istek.no] = DrSozcuk(istek.no)] ELSE dr

\* The bus master holds an access until it is acknowledged; the strobe is low for two
\* cycles between accesses.
Master ==
    \/ /\ istek.sec /\ ~ack
       /\ islendi' = (islendi \/ Erisilir)
       /\ UNCHANGED <<istek, ara>>
    \/ /\ istek.sec /\ ack
       /\ istek' = Bos /\ ara' = FALSE /\ islendi' = FALSE
    \/ /\ ~istek.sec
       /\ istek' \in IF ara THEN {Bos} \cup Erisimler ELSE {Bos}
       /\ ara' = TRUE /\ islendi' = FALSE

\* Mutant: the counter runs on.
Bolucu_Sifirlamaz ==
    /\ clock_en' = (prescale_ctr >= ccr.prescale)
    /\ prescale_ctr' = prescale_ctr + 1

\* The prescaler.  QSPI_CCR is written by a blocking assignment, so in IDLE the divider
\* may see its old or its new value.
Bolucu ==
    \E p \in {ccr.prescale, IF state = "IDLE" THEN ccr'.prescale ELSE ccr.prescale} :
        /\ clock_en' = (prescale_ctr >= p)
        /\ prescale_ctr' = IF prescale_ctr < p THEN prescale_ctr + 1 ELSE 0

-----------------------------------------------------------------------------
(* IDLE *)

\* The histories end with the access.
KomutYok == [ccr |-> CcrSifir, dr |-> DrSifir]

GecmisSil == komut' = KomutYok /\ giden' = <<>> /\ saat' = 0

Baslar == clock_en /\ istek.sec /\ inst_flag

Bosta ==
    /\ state = "IDLE"
    /\ ~Baslar
    /\ Yazmaclar
    /\ ack_flag' = (ack_flag /\ ~clock_en)
    /\ IF istek.sec /\ ack THEN GecmisSil ELSE UNCHANGED gecmisVars
    /\ UNCHANGED yolVars

Baslat ==
    /\ state = "IDLE"
    /\ Baslar
    /\ Yazmaclar
    /\ ack_flag' = FALSE
    /\ state' = "INST"
    /\ bit_ctr' = BaslikBit(ccr)
    /\ buffer' = BaslikSozcuk(ccr)
    /\ komut' = [ccr |-> ccr, dr |-> dr]
    /\ giden' = <<>>
    /\ saat' = 0
    /\ UNCHANGED <<word_ctr, out_mod>>

-----------------------------------------------------------------------------
(* A command *)

Bekle ==
    /\ state # "IDLE"
    /\ ~clock_en
    /\ UNCHANGED <<ccr, dr, inst_flag, ack_flag, yolVars, gecmisVars>>

\* A bit time of the command passes.
Bit(durum) ==
    /\ state = durum
    /\ clock_en
    /\ saat' = IF saat < SaatSiniri THEN saat + 1 ELSE saat
    /\ UNCHANGED komut

TelKaydet == giden' = IF Len(giden) < TelSiniri THEN Append(giden, Tel) ELSE giden

\* The header and the dummy cycles are over.
VeriBasla ==
    /\ state' = IF ccr.inst = "wren" THEN "IDLE" ELSE IF ccr.write_flash THEN "WRITE" ELSE "READ"
    /\ ack_flag' = (ccr.inst = "wren")
    /\ bit_ctr' = (ccr.boy * BaytBit) % SayacGen
    /\ word_ctr' = 0
    /\ buffer' = dr[0]

InstGonder ==
    /\ Bit("INST")
    /\ bit_ctr > 1
    /\ bit_ctr' = bit_ctr - 1
    /\ buffer' = Kaydir(buffer, Sifirlar(1))
    /\ inst_flag' = FALSE
    /\ TelKaydet
    /\ UNCHANGED <<ccr, dr, ack_flag, state, word_ctr, out_mod>>

\* The pins are given to the flash, or carry the data.
OutMod == IF ccr.write_flash THEN ccr.data_mod ELSE 0

InstBiter ==
    /\ Bit("INST")
    /\ bit_ctr = 1
    /\ out_mod' = OutMod
    /\ inst_flag' = FALSE
    /\ TelKaydet
    /\ \/ /\ ccr.dummy # 0
          /\ state' = "DUMMY"
          /\ bit_ctr' = ccr.dummy
          /\ buffer' = Kaydir(buffer, Sifirlar(1))
          /\ UNCHANGED <<ack_flag, word_ctr>>
       \/ ccr.dummy = 0 /\ VeriBasla
    /\ UNCHANGED <<ccr, dr>>

DummySay ==
    /\ Bit("DUMMY")
    /\ bit_ctr # 0
    /\ bit_ctr' = BitAzalt(DataRate(ccr.data_mod))
    /\ UNCHANGED <<ccr, dr, inst_flag, ack_flag, state, word_ctr, buffer, out_mod, giden>>

DummyBiter ==
    /\ Bit("DUMMY")
    /\ bit_ctr = 0
    /\ VeriBasla
    /\ UNCHANGED <<ccr, dr, inst_flag, out_mod, giden>>

\* Mutant: a bit later.
KelimeSonu_Gec == bit_ctr % KelimeBit = 0

\* A word of data is complete.
KelimeSonu == bit_ctr % KelimeBit = 1

VeriYaz ==
    /\ Bit("WRITE")
    /\ bit_ctr # 1
    /\ bit_ctr' = BitAzalt(DataRate(ccr.data_mod))
    /\ buffer' = IF KelimeSonu THEN DrOku(word_ctr)
                               ELSE Kaydir(buffer, Sifirlar(DataRate(ccr.data_mod)))
    /\ word_ctr' = IF KelimeSonu THEN (word_ctr + 1) % KelimeGen ELSE word_ctr
    /\ TelKaydet
    /\ UNCHANGED <<ccr, dr, inst_flag, ack_flag, state, out_mod>>

VeriOku ==
    /\ Bit("READ")
    /\ bit_ctr # 1
    /\ bit_ctr' = BitAzalt(DataRate(ccr.data_mod))
    /\ buffer' = Okunan
    /\ IF KelimeSonu THEN DrYazilir(Okunan) ELSE UNCHANGED dr
    /\ word_ctr' = IF KelimeSonu THEN (word_ctr + 1) % KelimeGen ELSE word_ctr
    /\ UNCHANGED <<ccr, inst_flag, ack_flag, state, out_mod, giden>>

\* Mutant: the pins stay with the flash.
Bitir_PinSerbest ==
    /\ ack_flag' = TRUE
    /\ state' = "IDLE"
    /\ bit_ctr' = 0
    /\ ccr' = CcrSifir
    /\ word_ctr' = 0
    /\ UNCHANGED <<inst_flag, out_mod>>

Bitir ==
    /\ ack_flag' = TRUE
    /\ state' = "IDLE"
    /\ bit_ctr' = 0
    /\ out_mod' = 1
    /\ ccr' = CcrSifir
    /\ word_ctr' = 0
    /\ UNCHANGED inst_flag

VeriYazBiter ==
    /\ Bit("WRITE")
    /\ bit_ctr = 1
    /\ Bitir
    /\ TelKaydet
    /\ UNCHANGED <<dr, buffer>>

VeriOkuBiter ==
    /\ Bit("READ")
    /\ bit_ctr = 1
    /\ Bitir
    /\ IF KelimeSonu THEN DrYazilir(Okunan) ELSE UNCHANGED dr
    /\ UNCHANGED <<buffer, giden>>

Init ==
    /\ ccr = CcrSifir
    /\ dr = DrSifir
    /\ state = "IDLE"
    /\ bit_ctr = 0
    /\ word_ctr = 0
    /\ buffer = Sifirlar(KelimeBit)
    /\ inst_flag = FALSE
    /\ ack = FALSE
    /\ ack_flag = FALSE
    /\ out_mod = 1
    /\ prescale_ctr = 0
    /\ clock_en = FALSE
    /\ istek = Bos
    /\ ara = FALSE
    /\ islendi = FALSE
    /\ komut = KomutYok
    /\ giden = <<>>
    /\ saat = 0

\* rst_i
Sifirla ==
    /\ ccr' = CcrSifir
    /\ dr' = DrSifir
    /\ state' = "IDLE"
    /\ bit_ctr' = 0
    /\ word_ctr' = 0
    /\ buffer' = Sifirlar(KelimeBit)
    /\ inst_flag' = FALSE
    /\ ack' = FALSE
    /\ ack_flag' = FALSE
    /\ out_mod' = 1
    /\ prescale_ctr' = 0
    /\ clock_en' = FALSE
    /\ istek' = Bos
    /\ ara' = FALSE
    /\ islendi' = FALSE
    /\ GecmisSil

Komut == InstGonder \/ InstBiter \/ DummySay \/ DummyBiter \/ VeriYaz \/ VeriYazBiter \/ VeriOku \/ VeriOkuBiter

Saat ==
    /\ Bosta \/ Baslat \/ Bekle \/ Komut
    /\ ack' = AckSonraki
    /\ Master
    /\ Bolucu

Next == Saat \/ Sifirla

Spec == Init /\ [][Next]_vars

\* The clock runs.
AdilSpec == Spec /\ WF_vars(Saat)

-----------------------------------------------------------------------------
(* Properties *)

\* The registers keep their widths.
TipDogru ==
    /\ ccr \in CcrTipi
    /\ dr \in [DrNolar -> [1 .. KelimeBit -> BitTipi]]
    /\ state \in {"IDLE", "INST", "DUMMY", "WRITE", "READ"}
    /\ bit_ctr \in 0 .. SayacGen - 1
    /\ word_ctr \in 0 .. KelimeGen - 1
    /\ buffer \in [1 .. KelimeBit -> BitTipi]
    /\ inst_flag \in BOOLEAN /\ ack \in BOOLEAN /\ ack_flag \in BOOLEAN
    /\ out_mod \in 0 .. 3
    /\ prescale_ctr \in 0 .. PrescaleGen - 1
    /\ clock_en \in BOOLEAN
    /\ istek \in Erisimler \cup {Bos} /\ ara \in BOOLEAN /\ islendi \in BOOLEAN
    /\ komut.ccr \in CcrTipi /\ saat \in 0 .. SaatSiniri

\* An access is acknowledged only after it was performed, and a write to QSPI_CCR only
\* when its command is over: the acknowledge of a command never answers the next access.
ErisimTam ==
    istek.sec /\ ack => islendi /\ state = "IDLE" /\ ~inst_flag

\* A command belongs to the write to QSPI_CCR on the bus, which is not answered before
\* its end, and starts once.
KomutSurer ==
    /\ state # "IDLE" \/ inst_flag =>
           istek.sec /\ istek.yaz /\ istek.hedef = "ccr" /\ islendi /\ ~ack /\ ~ack_flag
    /\ state \in {"DUMMY", "WRITE", "READ"} => ~inst_flag

\* The next clock_en is at hand, n cycles after the last one or sooner.
Yakin(n) == clock_en \/ prescale_ctr >= ccr.prescale \/ prescale_ctr >= n

\* ack_flag goes down before the next access comes, and the acknowledge with it.
BayrakIner ==
    /\ ack_flag => ccr.prescale <= 3
    /\ ack_flag /\ istek.sec => islendi /\ Yakin(IF ack THEN 2 ELSE 1)
    /\ ack_flag /\ ~istek.sec /\ ~ara => Yakin(3)
    /\ ack_flag /\ ~istek.sec /\ ara => clock_en /\ ack
    /\ ~istek.sec /\ ~ara => ~ack

\* A write to QSPI_CCR is being acknowledged.
CcrBiter == istek.sec /\ ack /\ istek.yaz /\ istek.hedef = "ccr"

VeriBit(c) == c.boy * BaytBit

Yazar(c) == c.write_flash /\ c.inst # "wren"

\* What a command has to send: the instruction, the address if it has one, and for a write
\* the bytes asked for from the data registers in order.
Gonderilecek(c) ==
    IF Yazar(c) THEN Baslik(c) \o Veri(komut.dr, VeriBit(c)) ELSE Baslik(c)

\* By then the flash was sent that, and not a bit more.
KomutGonderildi ==
    CcrBiter => komut.ccr = istek.ccr /\ giden = Gonderilecek(istek.ccr)

\* Words a read of c fills, and how many bits of them are the flash's: all but in the
\* first, which takes what is over, in its low bits.
Sozcukler(c) == (VeriBit(c) + KelimeBit - 1) \div KelimeBit

IlkBit(c) == VeriBit(c) - (Sozcukler(c) - 1) * KelimeBit

\* What k words of a read have to leave in the data registers: the flash's bits in order,
\* and the registers behind them as they were.
Okunacak(c, k) ==
    /\ k > 0 => SubSeq(dr[0], KelimeBit - IlkBit(c) + 1, KelimeBit) = Bitler("flash", 0, IlkBit(c))
    /\ \A x \in 1 .. k - 1 :
           dr[x] = Bitler("flash", IlkBit(c) + (x - 1) * KelimeBit, KelimeBit)
    /\ \A x \in k .. DrSayisi - 1 : dr[x] = komut.dr[x]

\* And a read without dummy cycles has left all of its words there.
OkunanDogru ==
    CcrBiter /\ ~istek.ccr.write_flash /\ istek.ccr.dummy = 0 =>
        Okunacak(istek.ccr, Sozcukler(istek.ccr))

-----------------------------------------------------------------------------
(* The inductive invariant *)

\* A command has the registers of its access, and the pins while it sends.
KomutAit ==
    /\ state # "IDLE" \/ inst_flag => ccr = istek.ccr
    /\ state # "IDLE" => komut.ccr = istek.ccr
    /\ state \in {"INST", "DUMMY", "WRITE"} => dr = komut.dr
    /\ state \in {"IDLE", "INST", "WRITE"} => out_mod = 1
    /\ state = "DUMMY" => out_mod = OutMod /\ ccr.dummy # 0

\* Its access has been performed and is over.
Yapildi == state = "IDLE" /\ ~inst_flag /\ islendi /\ istek.yaz /\ istek.hedef = "ccr"

\* The bits of a word that are out are on the wire, the others still in the buffer.
Gonderilir ==
    /\ state = "INST" =>
           LET n == BaslikBit(ccr) - bit_ctr
           IN  /\ bit_ctr \in 1 .. BaslikBit(ccr)
               /\ giden = SubSeq(BaslikSozcuk(ccr), 1, n)
               /\ \A i \in 1 .. bit_ctr : buffer[i] = BaslikSozcuk(ccr)[n + i]
    /\ state \in {"DUMMY", "READ"} => giden = Baslik(ccr)
    /\ state = "READ" => ~ccr.write_flash
    /\ state = "WRITE" =>
           LET n == VeriBit(ccr) - bit_ctr
           IN  /\ Yazar(ccr)
               /\ bit_ctr \in 1 .. VeriBit(ccr)
               /\ giden = Baslik(ccr) \o Veri(dr, n)
               /\ \A i \in 1 .. bit_ctr : buffer[i] = dr[0][n + i]
    /\ Yapildi => komut.ccr = istek.ccr /\ giden = Gonderilecek(istek.ccr)

\* The buffer is a window on the flash's bits, and moves over a word's end when a multiple
\* of a word is left.
Alinir ==
    /\ state = "INST" => saat = BaslikBit(ccr) - bit_ctr
    /\ state = "READ" /\ ccr.dummy = 0 =>
           LET n == VeriBit(ccr) - bit_ctr
               kalan == Sozcukler(ccr) - 1 - word_ctr
           IN  /\ bit_ctr \in 1 .. VeriBit(ccr)
               /\ saat = BaslikBit(ccr) + n
               /\ \A i \in 1 .. KelimeBit :
                      i + n > KelimeBit => buffer[i] = <<"flash", n + i - 1 - KelimeBit>>
               /\ kalan >= 0
               /\ kalan * KelimeBit < bit_ctr /\ bit_ctr <= kalan * KelimeBit + KelimeBit
               /\ Okunacak(ccr, word_ctr)
    /\ Yapildi /\ ~istek.ccr.write_flash /\ istek.ccr.dummy = 0 =>
           Okunacak(istek.ccr, Sozcukler(istek.ccr))

\* Commands over one channel, with data that fits: a write of up to a word, a read of up to
\* all data registers, a write enable that leaves the pins driven.
KomutSinirli ==
    \A c \in Komutlar :
        /\ c.data_mod = 1
        /\ c.inst = "wren" => c.write_flash
        /\ c.inst # "wren" =>
               /\ VeriBit(c) \in 1 .. (IF c.write_flash THEN KelimeBit ELSE DrSayisi * KelimeBit)
               /\ VeriBit(c) < SayacGen

Denetim ==
    /\ TipDogru
    /\ ccr \in Komutlar \cup {CcrSifir}
    /\ ErisimTam /\ KomutSurer /\ BayrakIner

Aktarim == KomutAit /\ Gonderilir /\ Alinir

IInv == Denetim /\ (KomutSinirli => Aktarim)

-----------------------------------------------------------------------------
\* Every access ends.
ErisimBiter == istek.sec ~> ack \/ ~istek.sec

=============================================================================
