------------------------------- MODULE Bolme --------------------------------
(* bolme_birimi in the execute stage: division by shifting and subtracting, two     *)
(* bits a cycle. A step is a clock cycle. The divider does not look at the stall of *)
(* execute: one that ends while the next fetch is not ready starts over.            *)
EXTENDS Integers

CONSTANTS
    GENISLIK,       \* 32: bits of an operand
    DIGER           \* an instruction that is no division

ASSUME GenislikVarsayimi == GENISLIK \in Nat \ {0} /\ GENISLIK % 2 = 0

VARIABLES
    buyruk,         \* execute: the division and its operands, or DIGER
    hazir,          \* gtr_hazir_i: the next instruction is fetched
    bolen_r, bolunen_r, bolunen1_r, fark_r, fark1_r,
    cevrim_r        \* the position of its one bit that is set

birim_vars == <<bolen_r, bolunen_r, bolunen1_r, fark_r, fark1_r, cevrim_r>>
vars == <<buyruk, hazir, birim_vars>>

\* 2 to the n
IkiUs[n \in Nat] == IF n = 0 THEN 1 ELSE 2 * IkiUs[n - 1]

Sinir == IkiUs[GENISLIK]    \* operands are below it, the divider's registers below its double

Sozcuk == 0 .. Sinir - 1

SonBit == GENISLIK \div 2 + 2

Bolmeler == [islem : {"divu", "remu", "div", "rem"}, bolunen : Sozcuk, bolen : Sozcuk]

Bolunuyor == buyruk # DIGER

Isaretli(b) == b.islem \in {"div", "rem"}

Eksi(x) == (Sinir - x) % Sinir

Negatif(x) == x >= Sinir \div 2

\* The operand of a signed division by its absolute value.
Buyukluk(b, x) == IF Isaretli(b) /\ Negatif(x) THEN Eksi(x) ELSE x

\* One step of the division: the next bit of the dividend joins the remainder, the divisor
\* is taken off and, if that went below zero, added again.
Adim(fark, bolunen) ==
    LET cikarma == ((fark % Sinir) * 2 + bolunen \div Sinir - bolen_r) % (2 * Sinir)
        sigmaz == Negatif(cikarma \div 2)
        kayan == (bolunen * 2) % (2 * Sinir)
    IN [fark |-> IF sigmaz THEN (cikarma + bolen_r) % (2 * Sinir) ELSE cikarma,
        bolunen |-> IF sigmaz THEN kayan ELSE kayan + 1]

-----------------------------------------------------------------------------
(* Combinational outputs *)

Bitti == Bolunuyor => cevrim_r = SonBit

\* sonuc_o in the last cycle
Sonuc ==
    LET ters == Negatif(buyruk.bolunen) # Negatif(buyruk.bolen)
        bolum == bolunen1_r % Sinir
        kalan == fark1_r % Sinir
    IN CASE buyruk.bolen = 0 /\ buyruk.islem \in {"div", "divu"} -> Sinir - 1
         [] buyruk.bolen = 0 /\ buyruk.islem \in {"rem", "remu"} -> buyruk.bolunen
         [] buyruk.bolen # 0 /\ buyruk.islem = "divu" -> bolum
         [] buyruk.bolen # 0 /\ buyruk.islem = "remu" -> kalan
         [] buyruk.bolen # 0 /\ buyruk.islem = "div" -> IF ters THEN Eksi(bolum) ELSE bolum
         [] buyruk.bolen # 0 /\ buyruk.islem = "rem" ->
                IF Negatif(buyruk.bolunen) THEN Eksi(kalan) ELSE kalan

-----------------------------------------------------------------------------
(* bolme_birimi *)

\* cevrim_r[0]
IlkCevrim ==
    /\ Bolunuyor /\ cevrim_r = 0
    /\ bolen_r' = Buyukluk(buyruk, buyruk.bolen)
    /\ bolunen_r' = Buyukluk(buyruk, buyruk.bolunen)
    /\ cevrim_r' = 1
    /\ UNCHANGED <<bolunen1_r, fark_r, fark1_r>>

\* Mutant: the one bit is not shifted in the cycle before the last.
IkiAdim_SonaVarmaz ==
    /\ Bolunuyor /\ cevrim_r \in 1 .. SonBit - 1
    /\ cevrim_r' = IF cevrim_r + 1 = SonBit THEN cevrim_r ELSE cevrim_r + 1
    /\ UNCHANGED <<bolen_r, bolunen_r, fark_r, bolunen1_r, fark1_r>>

IkiAdim ==
    /\ Bolunuyor /\ cevrim_r \in 1 .. SonBit - 1
    /\ LET bir == Adim(fark_r, bolunen_r)
           iki == Adim(bir.fark, bir.bolunen)
       IN /\ fark1_r' = bir.fark /\ bolunen1_r' = bir.bolunen
          /\ fark_r' = iki.fark /\ bolunen_r' = iki.bolunen
    /\ cevrim_r' = cevrim_r + 1
    /\ UNCHANGED bolen_r

Temizle ==
    /\ bolen_r' = 0 /\ bolunen_r' = 0 /\ bolunen1_r' = 0
    /\ fark_r' = 0 /\ fark1_r' = 0
    /\ cevrim_r' = 0

\* Mutant: the last remainder stays for the division that starts next.
SonCevrim_FarkKalir ==
    /\ Bolunuyor /\ cevrim_r = SonBit
    /\ bolen_r' = 0 /\ bolunen_r' = 0 /\ bolunen1_r' = 0 /\ fark1_r' = 0
    /\ cevrim_r' = 0
    /\ UNCHANGED fark_r

\* cevrim_r[18]: the result is on the output, whether or not execute takes it.
SonCevrim == Bolunuyor /\ cevrim_r = SonBit /\ Temizle

\* No division in execute: the registers are held in reset.
BosCevrim == ~Bolunuyor /\ Temizle

Birim == IlkCevrim \/ IkiAdim \/ SonCevrim \/ BosCevrim

-----------------------------------------------------------------------------
(* The stages around it *)

\* Execute takes its next instruction; the fetch that starts with it may take its time.
Ilerle ==
    /\ Bitti /\ hazir
    /\ buyruk' \in Bolmeler \cup {DIGER}
    /\ hazir' \in BOOLEAN

\* Execute waits, for its unit or for the fetch. A fetch that is ready stays so, for the
\* address does not change meanwhile. Another instruction may take any time (DIGER).
Dur ==
    /\ Bolunuyor => ~(Bitti /\ hazir)
    /\ UNCHANGED buyruk
    /\ hazir' \in {hazir, TRUE}

Saat == Birim /\ (Ilerle \/ Dur)

Init == /\ buyruk = DIGER /\ hazir = FALSE
        /\ bolen_r = 0 /\ bolunen_r = 0 /\ bolunen1_r = 0 /\ fark_r = 0 /\ fark1_r = 0
        /\ cevrim_r = 0

Sifirla == buyruk' = DIGER /\ hazir' = FALSE /\ Temizle

Next == Saat \/ Sifirla

Spec == Init /\ [][Next]_vars

\* The clock does not stop, and a fetch ends (GetirmeBiter of BuyrukOnbellegi).
AdilSpec == Spec /\ WF_vars(Saat) /\ WF_vars(Saat /\ hazir')

-----------------------------------------------------------------------------
(* Properties *)

\* The number a word stands for in an instruction.
Sayi(b, x) == IF Isaretli(b) /\ Negatif(x) THEN x - Sinir ELSE x

Mutlak(n) == IF n < 0 THEN -n ELSE n

\* Division as RISC-V defines it: rounded towards zero, the remainder with the sign of
\* the dividend; dividing by zero gives all ones and the dividend.
RiscvSonucu(b, sonuc) ==
    LET a == Sayi(b, b.bolunen)
        d == Sayi(b, b.bolen)
        bolum == b.islem \in {"div", "divu"}
    IN IF d = 0
       THEN sonuc = IF bolum THEN Sinir - 1 ELSE b.bolunen
       ELSE \E q \in -Sinir .. Sinir :
              LET k == a - q * d
              IN /\ Mutlak(k) < Mutlak(d)
                 /\ k # 0 => (k < 0) = (a < 0)
                 /\ sonuc = (IF bolum THEN q ELSE k) % Sinir

\* When the divider says it has ended, its output is the RISC-V result of the instruction
\* in execute: for every operand, for divisions back to back, and for one that was begun
\* again because the fetch was not ready when it ended.
SonucDogru == Bolunuyor /\ Bitti => RiscvSonucu(buyruk, Sonuc)

-----------------------------------------------------------------------------
(* The inductive invariant *)

\* The registers keep their widths.
TipDogru ==
    /\ buyruk \in Bolmeler \cup {DIGER}
    /\ hazir \in BOOLEAN
    /\ bolen_r \in Sozcuk
    /\ {bolunen_r, bolunen1_r, fark_r, fark1_r} \subseteq 0 .. 2 * Sinir - 1
    /\ cevrim_r \in 0 .. SonBit

\* The first n bits of a have been divided by d. Quotient q and remainder fark are theirs;
\* the other bits, l, are at the top of the register of which the quotient fills the bottom.
Bolundu(a, d, n, fark, bolunen) ==
    LET kalanlar == IkiUs[GENISLIK + 1 - n]
    IN \E q \in 0 .. IkiUs[n] - 1, l \in 0 .. kalanlar - 1 :
          /\ fark \in 0 .. d - 1
          /\ a = (q * d + fark) * kalanlar + l
          /\ bolunen = l * IkiUs[n] + q

\* Two bits a cycle, of one more than an operand has; the last cycle is for one only.
DonguDogru ==
    /\ cevrim_r = 0 => fark_r = 0
    /\ cevrim_r # 0 => Bolunuyor /\ bolen_r = Buyukluk(buyruk, buyruk.bolen)
    /\ cevrim_r # 0 /\ buyruk.bolen # 0 =>
           LET a == Buyukluk(buyruk, buyruk.bolunen)
           IN IF cevrim_r = SonBit
              THEN Bolundu(a, bolen_r, GENISLIK + 1, fark1_r, bolunen1_r)
              ELSE Bolundu(a, bolen_r, 2 * (cevrim_r - 1), fark_r, bolunen_r)

IInv == TipDogru /\ DonguDogru

-----------------------------------------------------------------------------
\* Once the resets have stopped a division ends in a cycle in which execute takes it, though
\* one that ends in another cycle starts over.
BolmeBiter == <>[][~Sifirla]_vars => (Bolunuyor ~> (Bitti /\ hazir))

=============================================================================
