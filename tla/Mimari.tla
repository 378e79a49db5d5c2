------------------------------- MODULE Mimari -------------------------------
(* What the core promises its programs: one instruction after the other, each     *)
(* with the registers the one before has left, at the address it has led to. No    *)
(* stage, no forwarding, no prediction.                                            *)
EXTENDS BoruTanimlari

VARIABLES
    ps,         \* address of the next instruction
    yazmaclar,  \* the registers
    son         \* the instruction performed in the last step, YOK if none was

mimari_vars == <<ps, yazmaclar, son>>

Baslangic ==
    /\ ps = 0
    /\ yazmaclar \in [Yazmac -> Deger]
    /\ yazmaclar[0] = Sifir
    /\ son = YOK

\* A load brings what the memory holds, any value here; everything else computes.
SonucVar(b, p, d1, d2) ==
    IF Baglar(b) THEN {Baglanti(PsArtmis(b, p))}
    ELSE IF b.birim = "bib" THEN Deger
    ELSE {Hesap(b, p, d1, d2)}

Isle(b) ==
    LET d1 == yazmaclar[b.rs1]
        d2 == yazmaclar[b.rs2]
    IN /\ \/ /\ b.yaz /\ b.rd # 0
             /\ \E d \in SonucVar(b, ps, d1, d2) : yazmaclar' = [yazmaclar EXCEPT ![b.rd] = d]
          \/ /\ ~(b.yaz /\ b.rd # 0)
             /\ UNCHANGED yazmaclar
       /\ ps' = IF Atlar(b, d1, d2) THEN Hedef(b, ps, d1) ELSE PsArtmis(b, ps)
       /\ son' = b

Bekle ==
    /\ son' = YOK
    /\ UNCHANGED <<ps, yazmaclar>>

\* A reset starts the program again; it leaves the registers undefined but for x0.
YenidenBasla ==
    /\ ps' = 0
    /\ yazmaclar' \in {y \in [Yazmac -> Deger] : y[0] = Sifir}
    /\ son' = YOK

\* Every step but a reset.
Calis == Bekle \/ \E b \in Program[ps] : Isle(b)

Adim == Calis \/ YenidenBasla

MimariSpec == Baslangic /\ [][Adim]_mimari_vars

=============================================================================
