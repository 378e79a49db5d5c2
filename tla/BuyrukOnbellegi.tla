-------------------------- MODULE BuyrukOnbellegi --------------------------
(***************************************************************************)
(* The level-1 instruction cache: buyruk_onbellegi_denetleyici.v and       *)
(* tag_denetleyici.v.  Direct mapped, one word per row, read only.  A      *)
(* 32-bit fetch may start at either half of a word, so the controller      *)
(* looks two rows up at once: the tags are split into a bank of even and a *)
(* bank of odd rows, the data into low and high halves.                    *)
(*                                                                         *)
(* The core holds the fetch address while l1b_bekle_o is up.  The RAM is   *)
(* rewritten only by the program loader, which ends in a reset.            *)
(***************************************************************************)
EXTENDS Integers

CONSTANTS
    BTagSayisi,       \* values of address bits 18:11 (256)
    BSatirSayisi,     \* rows (512)
    Yarim,            \* values of half a word
    BaslangicBanka,   \* tag banks at power-on
    BaslangicVeri,    \* data RAMs at power-on
    Programlar        \* contents the main memory may be loaded with

VARIABLES
    state,      \* the controller's FSM
    valid,      \* RAM[511:0] of tag_denetleyici
    tage,       \* tag bank of the even rows
    tago,       \* tag bank of the odd rows
    ram512d0,   \* low halves
    ram512d1,   \* high halves
    ps,         \* l1b_adres_i
    bellek      \* main memory

vars == <<state, valid, tage, tago, ram512d0, ram512d1, ps, bellek>>

BTaglar == 0 .. BTagSayisi - 1

BSatirlar == 0 .. BSatirSayisi - 1

Banka == 0 .. (BSatirSayisi \div 2) - 1

BAdres == BTaglar \X BSatirlar

\* Index 0 is the low half.
BKelime == [{0, 1} -> Yarim]

\* TAG = 18:11, ADR = 10:2, and bit 1: the fetch starts in the high half.
PsTipi == [tag : BTaglar, adr : BSatirlar, yarim : {0, 1}]

BasPs == [tag |-> 0, adr |-> 0, yarim |-> 0]

ASSUME BuyrukVarsayimi ==
    /\ BTagSayisi \in Nat \ {0}
    /\ BSatirSayisi \in Nat \ {0} /\ BSatirSayisi % 2 = 0
    /\ BaslangicBanka \in [Banka -> BTaglar]
    /\ BaslangicVeri \in [BSatirlar -> Yarim]
    /\ Programlar \subseteq [BAdres -> BKelime]

-----------------------------------------------------------------------------
(* Combinational signals *)

\* Mutant: an unaligned fetch does not move to the next row.
DataAddr0_Artmaz == ps.adr

\* Nine bits: the row after the last one is row 0.
DataAddr0 == (ps.adr + ps.yarim) % BSatirSayisi

DataAddr1 == ps.adr

Cift(r) == r % 2 = 0

\* tag_addre follows radr0 and tag_addro radr1, whichever row is asked for.
TagCift == tage[DataAddr0 \div 2]

TagTek == tago[DataAddr1 \div 2]

Tag0 == IF Cift(DataAddr0) THEN TagCift ELSE TagTek

\* Mutant: the even row's bank answers only an aligned fetch.
Tag1_YalnizHizali == IF Cift(DataAddr0) /\ DataAddr0 = DataAddr1 THEN TagCift ELSE TagTek

Tag1 ==
    IF \/ Cift(DataAddr0) /\ DataAddr0 = DataAddr1
       \/ ~Cift(DataAddr0) /\ DataAddr0 # DataAddr1
    THEN TagCift ELSE TagTek

Data0Ready == valid[DataAddr0] /\ Tag0 = ps.tag

Data1Ready == valid[DataAddr1] /\ Tag1 = ps.tag

\* ~l1b_bekle_o
Hazir == state = "READCACHE" /\ Data0Ready /\ Data1Ready

\* Mutant: the halves never change places.
Deger_Takassiz == <<ram512d0[DataAddr0], ram512d1[DataAddr1]>>

\* l1b_deger_o, low half first: the halves change places in an unaligned fetch.
Deger ==
    IF ps.yarim = 1 THEN <<ram512d1[DataAddr1], ram512d0[DataAddr0]>>
                    ELSE <<ram512d0[DataAddr0], ram512d1[DataAddr1]>>

-----------------------------------------------------------------------------
(* Actions *)

Init ==
    /\ state = "READMEM0"
    /\ valid = [s \in BSatirlar |-> FALSE]
    /\ tage = BaslangicBanka
    /\ tago = BaslangicBanka
    /\ ram512d0 = BaslangicVeri
    /\ ram512d1 = BaslangicVeri
    /\ ps = BasPs
    /\ bellek \in Programlar

\* Mutant: the write goes to the bank of the other parity.
TagYaz_TersBanka(r) ==
    IF Cift(r) THEN tago' = [tago EXCEPT ![r \div 2] = ps.tag] /\ UNCHANGED tage
               ELSE tage' = [tage EXCEPT ![r \div 2] = ps.tag] /\ UNCHANGED tago

\* wee and weo: the bank of the row's parity takes the tag.
TagYaz(r) ==
    IF Cift(r) THEN tage' = [tage EXCEPT ![r \div 2] = ps.tag] /\ UNCHANGED tago
               ELSE tago' = [tago EXCEPT ![r \div 2] = ps.tag] /\ UNCHANGED tage

\* iomem_ready: both halves of row r, its tag and its valid bit are written.
Doldur(r) ==
    /\ ram512d0' = [ram512d0 EXCEPT ![r] = bellek[<<ps.tag, r>>][0]]
    /\ ram512d1' = [ram512d1 EXCEPT ![r] = bellek[<<ps.tag, r>>][1]]
    /\ valid' = [valid EXCEPT ![r] = TRUE]
    /\ TagYaz(r)
    /\ state' = "READCACHE"
    /\ UNCHANGED <<ps, bellek>>

Doldur0 == state = "READMEM0" /\ Doldur(DataAddr0)

\* Mutant: the second fill goes to the row of the first.
Doldur1_AyniSatir == state = "READMEM1" /\ Doldur(DataAddr0)

Doldur1 == state = "READMEM1" /\ Doldur(DataAddr1)

Iska ==
    /\ state = "READCACHE"
    /\ ~(Data0Ready /\ Data1Ready)
    /\ state' = IF ~Data0Ready THEN "READMEM0" ELSE "READMEM1"
    /\ UNCHANGED <<valid, tage, tago, ram512d0, ram512d1, ps, bellek>>

\* The core takes the instruction and fetches anywhere next.
Getir ==
    /\ Hazir
    /\ ps' \in PsTipi
    /\ UNCHANGED <<state, valid, tage, tago, ram512d0, ram512d1, bellek>>

\* Mutant: the valid bits survive the reset.
Sifirla_ValidKalir ==
    /\ state' = "READMEM0"
    /\ ps' = BasPs
    /\ bellek' \in Programlar
    /\ UNCHANGED <<valid, tage, tago, ram512d0, ram512d1>>

\* rst_i, possibly after the loader has written another program.  Tag and data RAMs
\* have no reset.
Sifirla ==
    /\ state' = "READMEM0"
    /\ valid' = [s \in BSatirlar |-> FALSE]
    /\ ps' = BasPs
    /\ bellek' \in Programlar
    /\ UNCHANGED <<tage, tago, ram512d0, ram512d1>>

Saat == Doldur0 \/ Doldur1 \/ Iska \/ Getir

Next == Saat \/ Sifirla

Spec == Init /\ [][Next]_vars

\* The clock runs and the RAM answers; a core may stay on an address as long as it likes.
AdilSpec == Spec /\ WF_vars(Doldur0 \/ Doldur1 \/ Iska)

-----------------------------------------------------------------------------
(* Properties *)

\* Every register and RAM of the cache keeps its width.
TipDogru ==
    /\ state \in {"READMEM0", "READMEM1", "READCACHE"}
    /\ valid \in [BSatirlar -> BOOLEAN]
    /\ tage \in [Banka -> BTaglar]
    /\ tago \in [Banka -> BTaglar]
    /\ ram512d0 \in [BSatirlar -> Yarim]
    /\ ram512d1 \in [BSatirlar -> Yarim]
    /\ ps \in PsTipi
    /\ bellek \in [BAdres -> BKelime]

\* The tag stored for row s.
SatirTagi(s) == IF Cift(s) THEN tage[s \div 2] ELSE tago[s \div 2]

\* Both tag outputs belong to the rows asked for, although each bank has one address
\* port and the banks are addressed by different ports (tag_denetleyici.v argues this
\* by a table of examples in its closing comment).
TagSecimi == Tag0 = SatirTagi(DataAddr0) /\ Tag1 = SatirTagi(DataAddr1)

\* A valid row holds the word of the memory its tag names, also after another program
\* was loaded.
SatirDogru ==
    \A s \in BSatirlar :
        valid[s] => /\ ram512d0[s] = bellek[<<SatirTagi(s), s>>][0]
                    /\ ram512d1[s] = bellek[<<SatirTagi(s), s>>][1]

\* The word after <<ps.tag, ps.adr>> in the memory.
SonrakiKelime ==
    IF ps.adr < BSatirSayisi - 1 THEN <<ps.tag, ps.adr + 1>>
                                 ELSE <<(ps.tag + 1) % BTagSayisi, 0>>

\* The 32 bits of the program at ps, low half first.
Beklenen ==
    IF ps.yarim = 0 THEN <<bellek[<<ps.tag, ps.adr>>][0], bellek[<<ps.tag, ps.adr>>][1]>>
                    ELSE <<bellek[<<ps.tag, ps.adr>>][1], bellek[SonrakiKelime][0]>>

\* A fetch that runs over the end of the last row: tag and row would both have to move.
SatirSonundaHizasiz == ps.yarim = 1 /\ ps.adr = BSatirSayisi - 1

\* What the cache hands to the core is the program, for every fetch that does not run
\* over the last row.
DogruBuyruk == Hazir /\ ~SatirSonundaHizasiz => Deger = Beklenen

\* The first half-word is right in every fetch: a 16-bit instruction in the last half of
\* the last row is not touched by the wrap-around.
DogruIlkYari == Hazir => Deger[1] = Beklenen[1]

\* getir.v:9 and tag_denetleyici.v:4 say unaligned fetches just work.
HizasizOkunur == Hazir => Deger = Beklenen

\* A fill makes its half hit, the second fill of an unaligned fetch does not undo the
\* first, and no fetch needs a third.
DolumIsabet ==
    [][/\ state = "READMEM0" /\ state' = "READCACHE" => Data0Ready'
       /\ state = "READMEM1" /\ state' = "READCACHE" => Hazir']_vars

\* The halves the fetch still misses; one row serves both of an aligned one.
Eksik == {h \in {0, 1} : IF h = 0 THEN ~Data0Ready ELSE ~Data1Ready /\ ps.yarim = 1}

KapiGetirmesi ==
    [adr0  |-> IF 0 \in Eksik THEN <<ps.tag, DataAddr0>> ELSE <<0, 0>>,
     adr1  |-> IF 1 \in Eksik THEN <<ps.tag, DataAddr1>> ELSE <<0, 0>>,
     eksik |-> Eksik]

Kapi == INSTANCE GetirmeKapisi WITH
    Adresler <- BAdres, IlkAdres <- <<0, 0>>, getirme <- KapiGetirmesi

\* On the memory port the cache does what GetirmeKapisi says, which is what BellekSistemi
\* makes of it: a fetch takes one read of each row it misses, and neither fill undoes
\* the other; only a reset cuts it short.
KapiSpec == Kapi!Spec /\ [][~Sifirla => Kapi!Calis]_(Kapi!vars)

\* Once resets have ended, no fetch waits forever.
GetirmeBiter == <>[][~Sifirla]_vars => []<>Hazir

(***************************************************************************)
(* The inductive invariant: READMEM0 is for a first half that is missing;  *)
(* READMEM1 is entered, and stays, with the first half present, which can  *)
(* only be when the fetch is unaligned.                                    *)
(***************************************************************************)
IlkOkuma == state = "READMEM0" => ~Data0Ready

IkinciOkuma == state = "READMEM1" => Data0Ready /\ ~Data1Ready

IInv == TipDogru /\ SatirDogru /\ IlkOkuma /\ IkinciOkuma

=============================================================================
