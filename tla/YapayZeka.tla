----------------------------- MODULE YapayZeka ------------------------------
(* The convolution accelerator in the execute stage: two register files, filled     *)
(* by conv.ld and read by conv.run one pair a cycle for the multiplier's            *)
(* accumulator. A step is a clock cycle.                                            *)
EXTENDS Naturals

CONSTANTS
    KAYIT,          \* 16: registers of a file, and values of the four-bit counter
    Deger,          \* what a register holds, 0 among it
    DIGER           \* an instruction of another unit

VARIABLES
    buyruk,         \* execute: the instruction's control and operands, or DIGER
    hazir,          \* gtr_hazir_i: the next instruction is fetched
    sayac,          \* cycles of the run
    veri_yo, katsayi_yo     \* each: adr_oku, adr_yaz, yazmaclar

vars == <<buyruk, hazir, sayac, veri_yo, katsayi_yo>>

KosuGecikmesi == KAYIT + 1      \* YAPAY_ZEKA_RUN_GECIKMESI, 17

Dosyalar == {"veri", "katsayi"}

\* conv.ld.x, conv.ld.w, conv.clr.x, conv.clr.w and conv.run; ikili: rs2_en_i.
Buyruklar ==
    [islem : {"yukle"}, dosya : Dosyalar, ikili : BOOLEAN, deger1 : Deger, deger2 : Deger]
        \cup [islem : {"sil"}, dosya : Dosyalar]
        \cup {[islem |-> "kos"]}

YapayZeka == buyruk # DIGER
Kosuyor == YapayZeka /\ buyruk.islem = "kos"

\* Execute performs what it holds unless it waits for the fetch.
Isler(islem, dosya) ==
    YapayZeka /\ hazir /\ buyruk.islem = islem /\ (islem = "kos" \/ buyruk.dosya = dosya)

\* bitti_o
Bitti == Kosuyor => sayac = KosuGecikmesi

-----------------------------------------------------------------------------
BosDosya == [adr_oku |-> 0, adr_yaz |-> 0, yazmaclar |-> [k \in 0 .. KAYIT - 1 |-> 0]]

\* The cells a load writes. At the last cell the second address is out of range: simulation
\* drops that write, hardware may take the address's low bits.
Hucreler(adr) == IF adr + 1 < KAYIT THEN {adr + 1} ELSE {0, KAYIT}

\* yapay_zeka_yazmac_obegi after an edge
DosyaSonraki(d, ad) ==
    CASE Isler("sil", ad) -> {BosDosya}
      [] Isler("yukle", ad) /\ buyruk.ikili ->
             {[d EXCEPT !.adr_oku = (@ + 2) % KAYIT,
                        !.yazmaclar = [k \in DOMAIN @ |->
                            CASE k = ikinci -> buyruk.deger2
                              [] k # ikinci /\ k = d.adr_oku -> buyruk.deger1
                              [] OTHER -> @[k]]] : ikinci \in Hucreler(d.adr_oku)}
      [] Isler("yukle", ad) /\ ~buyruk.ikili ->
             {[d EXCEPT !.adr_oku = (@ + 1) % KAYIT, !.yazmaclar[d.adr_oku] = buyruk.deger1]}
      [] Isler("kos", ad) -> {[d EXCEPT !.adr_yaz = (@ + 1) % KAYIT]}
      [] OTHER -> {d}

Dosya ==
    /\ veri_yo' \in DosyaSonraki(veri_yo, "veri")
    /\ katsayi_yo' \in DosyaSonraki(katsayi_yo, "katsayi")

\* The counter has as many values as there are registers.
Sayac == sayac' = IF Kosuyor /\ hazir THEN (sayac + 1) % KAYIT ELSE 0

Birim == Dosya /\ Sayac

-----------------------------------------------------------------------------
(* The stages around it *)

\* Execute takes its next instruction; the fetch that starts with it may take its time.
Ilerle ==
    /\ Bitti /\ hazir
    /\ buyruk' \in Buyruklar \cup {DIGER}
    /\ hazir' \in BOOLEAN

\* Execute waits, for its unit or for the fetch, which stays ready once it is.
Dur ==
    /\ YapayZeka => ~(Bitti /\ hazir)
    /\ UNCHANGED buyruk
    /\ hazir' \in {hazir, TRUE}

Saat == Birim /\ (Ilerle \/ Dur)

Init ==
    /\ buyruk = DIGER /\ hazir = FALSE
    /\ sayac = 0
    /\ veri_yo = BosDosya /\ katsayi_yo = BosDosya

Sifirla ==
    /\ buyruk' = DIGER /\ hazir' = FALSE
    /\ sayac' = 0
    /\ veri_yo' = BosDosya /\ katsayi_yo' = BosDosya

Next == Saat \/ Sifirla

Spec == Init /\ [][Next]_vars

\* The clock does not stop, and a fetch ends.
AdilSpec == Spec /\ WF_vars(Saat) /\ WF_vars(Saat /\ hazir')

-----------------------------------------------------------------------------
(* Properties *)

\* Once the resets have stopped a conv.run ends: "a convolution always takes a fixed time"
\* (yapay_zeka_hizlandiricisi.v:28), and conv.S reads its result. The code violates it: the
\* counter wraps before it reaches the number it is compared with.
KosuBiter == <>[][~Sifirla]_vars => (Kosuyor ~> (Bitti /\ hazir))

=============================================================================
