-------------------------- MODULE BellekTanimlari --------------------------
(***************************************************************************)
(* The vocabulary the memory modules share: word addresses split into tag  *)
(* and row as `TAGV and `ADRV do, words made of byte lanes, and the        *)
(* requests the load/store unit (bellek_islem_birimi.v) presents.          *)
(*                                                                         *)
(* The chip has 512 tags, 256 rows, 4 lanes of 256 byte values, and the    *)
(* store masks of sb, sh and sw; the modules take all of them as           *)
(* constants.                                                              *)
(***************************************************************************)
EXTENDS Integers

CONSTANTS
    Taglar,       \* values of address bits 18:10
    SatirSayisi,  \* number of rows (sets) of the data cache
    Serit,        \* byte lanes of a word
    Bayt,         \* values of a byte
    Maskeler      \* byte masks a store may carry

ASSUME BoyutVarsayimi ==
    /\ SatirSayisi \in Nat \ {0}
    /\ Taglar # {}
    /\ Serit # {}
    /\ Bayt # {}
    /\ Maskeler \subseteq (SUBSET Serit) \ {{}}

Satirlar == 0 .. SatirSayisi - 1

Adres == Taglar \X Satirlar

TagV(a) == a[1]

AdrV(a) == a[2]

Kelime == [Serit -> Bayt]

\* A value nobody looks at: the write data of a load, the bus of an idle cycle.
OnemsizKelime == CHOOSE k \in Kelime : TRUE
OnemsizAdres  == CHOOSE a \in Adres : TRUE

(***************************************************************************)
(* A request: bib_sec_o, bib_adr_o, bib_veri_maske_o and bib_veri_o.  An   *)
(* all-zero mask means a load.                                             *)
(***************************************************************************)
IstekTipi == [sec : BOOLEAN, adr : Adres, maske : SUBSET Serit, veri : Kelime]

Bos == [sec |-> FALSE, adr |-> OnemsizAdres, maske |-> {}, veri |-> OnemsizKelime]

Yukleme(a) == [sec |-> TRUE, adr |-> a, maske |-> {}, veri |-> OnemsizKelime]

Saklama(a, m, v) == [sec |-> TRUE, adr |-> a, maske |-> m, veri |-> v]

Istekler == {Bos} \union {Yukleme(a) : a \in Adres}
                  \union {Saklama(a, m, v) : a \in Adres, m \in Maskeler, v \in Kelime}

YuklemeMi(i) == i.sec /\ i.maske = {}

SaklamaMi(i) == i.sec /\ i.maske # {}

\* The byte enables of the data RAMs: masked lanes from the request, the rest kept.
Birlestir(k, i) == [b \in Serit |-> IF b \in i.maske THEN i.veri[b] ELSE k[b]]

=============================================================================
