-------------------------- MODULE MCSpiDenetleyici --------------------------
(* Instances of SpiDenetleyici for TLC. *)
EXTENDS SpiDenetleyici

(***************************************************************************)
(* Single-channel commands: reads of a part of a word, of a word and a     *)
(* half, and of two words; writes of up to a word; a write enable that     *)
(* keeps the pins driven.  Prescaler and dummy cycles in some of them.     *)
(***************************************************************************)
MCKomutlar ==
    {c \in CcrTipi : /\ c.data_mod = 1
                     /\ c.inst = "wren" => c.boy = 0 /\ c.write_flash /\ c.prescale # 2
                     /\ c.inst # "wren" => IF c.write_flash THEN c.boy \in {1, 2}
                                                             ELSE c.boy \in {1, 3, 4}
                     /\ c.dummy > 0 => c.inst # "adresli"
                     /\ c.inst # "wren" => c.prescale <= 1
                     /\ c.prescale > 0 => c.boy < 4 /\ c.dummy = 0}

\* Reads over two channels and over four.
MCKanallar ==
    {c \in CcrTipi : c.data_mod > 1 /\ ~c.write_flash /\ c.boy = 4 /\ c.dummy = 0
                        /\ c.inst = "adresli"}

\* The commands of spi_demo.c: write enable without flash_yaz, a status read, a page write.
MCDemo ==
    {c \in CcrTipi : /\ c.data_mod = 1 /\ c.dummy = 0 /\ c.prescale = 1
                     /\ \/ c.inst = "wren" /\ ~c.write_flash /\ c.boy = 0
                        \/ c.inst = "adressiz" /\ ~c.write_flash /\ c.boy = 1
                        \/ c.inst = "adresli" /\ c.write_flash /\ c.boy = 4}

=============================================================================
