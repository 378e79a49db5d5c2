---------------------------- MODULE MCBoruhatti -----------------------------
(* An instance of Boruhatti for TLC: two registers besides x0, values of one bit, six   *)
(* halfword addresses.                                                                  *)
EXTENDS Boruhatti, TLC

Buyruk(birim, dal, rd, rs1, rs2, boy, anlik) ==
    [birim |-> birim, dal |-> dal, yaz |-> dal # "kosullu" /\ rd # 3, rd |-> rd % 3,
     rs1 |-> rs1, rs2 |-> rs2, boy |-> boy, anlik |-> anlik]

MCNop == [Buyruk("amb", "yok", 0, 0, 0, 2, 0) EXCEPT !.yaz = FALSE]

\* rd = 3 stands for no destination.
MCBuyruklar == {
    Buyruk("amb", "yok", 1, 1, 2, 2, 1),
    Buyruk("amb", "yok", 2, 1, 0, 1, 0),
    Buyruk("amb", "yok", 0, 1, 2, 2, 1),
    Buyruk("carpma", "yok", 1, 1, 2, 2, 0),
    Buyruk("carpma", "yok", 2, 2, 1, 2, 0),
    Buyruk("bolme", "yok", 1, 2, 1, 2, 0),
    Buyruk("bib", "yok", 2, 1, 0, 2, 0),
    Buyruk("bib", "yok", 3, 1, 2, 2, 0),
    Buyruk("amb", "jal", 1, 0, 0, 2, 3),
    Buyruk("amb", "jalr", 2, 1, 0, 2, 1),
    Buyruk("amb", "kosullu", 0, 1, 2, 1, 3)}

\* No two addresses hold the same instructions.
MCProgram == [p \in Ps |->
    LET dal(b) == IF p % 2 = 0 THEN b.dal \in {"kosullu", "jalr"} ELSE b.dal = "jal"
        bir(b) == IF p % 3 = 0 THEN b.birim \in {"carpma", "bib"} ELSE b.birim \in {"bolme", "amb"}
    IN {b \in MCBuyruklar : IF b.dal # "yok" THEN dal(b) ELSE bir(b)}]

MCHesap(b, p, d1, d2) == (IF b.birim = "carpma" THEN IF d1 = 1 /\ d2 = 1 THEN 1 ELSE 0
                          ELSE (d1 + d2 + b.anlik) % 2)
MCKosul(b, d1, d2) == d1 = d2
MCHedef(b, p, d1) ==
    IF b.dal = "jalr" THEN ((IF d1 = 1 THEN 2 ELSE 0) + b.anlik) % PsSayisi ELSE (p + b.anlik) % PsSayisi
MCBaglanti(p) == p % 2

=============================================================================
