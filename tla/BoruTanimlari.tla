--------------------------- MODULE BoruTanimlari ----------------------------
(* What the pipeline and the machine it implements share: registers, addresses,  *)
(* instructions and what an instruction means. The arithmetic is left to the     *)
(* parameters, so that everything proved holds for every instruction set whose   *)
(* results, conditions and targets depend on the two source registers.           *)
EXTENDS Naturals

CONSTANTS
    Yazmac,             \* register numbers, 0 among them
    Deger,              \* register values
    Sifir,              \* what x0 holds
    Belirsiz,           \* an x of the Verilog code: no value anybody may use
    PsSayisi,           \* number of halfword addresses
    Anlik,              \* immediates
    Buyruklar,          \* the instructions the memory may hold
    Program,            \* the instructions an address may hold, one in a fixed program
    Nop,                \* EBREAK in decode, NOP_MI in execute
    Hesap(_, _, _, _),  \* result of instruction, address, rs1 and rs2
    Kosul(_, _, _),     \* the relation of rs1 and rs2 a branch asks for
    Hedef(_, _, _),     \* target of instruction, address and rs1
    Baglanti(_),        \* the return address as a register value
    YOK                 \* no instruction

Ps == 0 .. PsSayisi - 1

\* The microinstruction's fields: the unit, the kind of jump, whether rd is written, the
\* register addresses, the size in halfwords and the immediate.
BuyrukTipi ==
    [birim : {"amb", "carpma", "bolme", "bib"},
     dal : {"yok", "kosullu", "jal", "jalr"},
     yaz : BOOLEAN, rd : Yazmac, rs1 : Yazmac, rs2 : Yazmac,
     boy : {1, 2}, anlik : Anlik]

ASSUME DegerVarsayimi ==
    /\ 0 \in Yazmac
    /\ Sifir \in Deger
    /\ Belirsiz \notin Deger
    /\ PsSayisi \in Nat \ {0}

ASSUME BuyrukVarsayimi ==
    /\ Buyruklar \subseteq BuyrukTipi
    /\ Nop \in BuyrukTipi
    /\ Nop.birim = "amb" /\ Nop.dal = "yok" /\ Nop.yaz = FALSE
    /\ YOK \notin BuyrukTipi
    /\ Program \in [Ps -> (SUBSET Buyruklar) \ {{}}]
    /\ \A b \in Buyruklar : b.dal # "yok" => b.birim = "amb"

ASSUME IslemVarsayimi ==
    \A b \in Buyruklar \cup {Nop}, p \in Ps, d1, d2 \in Deger :
        /\ Hesap(b, p, d1, d2) \in Deger
        /\ Kosul(b, d1, d2) \in BOOLEAN
        /\ Hedef(b, p, d1) \in Ps
        /\ Baglanti(p) \in Deger

-----------------------------------------------------------------------------
\* The address after an instruction: one halfword on for a compressed one, else two.
PsArtmis(b, p) == (p + b.boy) % PsSayisi

Baglar(b) == b.dal \in {"jal", "jalr"}

\* Is the program counter taken from the instruction's target?
Atlar(b, d1, d2) ==
    \/ b.dal = "kosullu" /\ Kosul(b, d1, d2)
    \/ Baglar(b)

=============================================================================
