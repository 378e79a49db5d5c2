------------------------------ MODULE Veriyolu ------------------------------
(***************************************************************************)
(* The peripheral bus: wishbone_master.v between the load/store unit and   *)
(* the UART, SPI and PWM controllers, as veriyolu.v wires them.  One step  *)
(* is one clock edge of all of them.                                       *)
(*                                                                         *)
(* The slaves are modelled by what the bus sees of them: when they perform *)
(* an access and when they acknowledge it.  A flash command is one state   *)
(* of the SPI controller and its prescaler is 0 (clock_en stays up).       *)
(***************************************************************************)
EXTENDS Naturals

CONSTANTS
    Programlar,     \* the sets of accesses software may make
    ArdArdaErisim   \* may bus accesses stand in consecutive cycles of execute?

VARIABLES
    program,    \* the accesses of the software that runs
    buyruk,     \* the instruction in execute
    durdu,      \* ddb_durdur_i of the load/store unit: the fetch is not ready
    state,      \* wishbone_master's FSM
    sec_r,      \* vy_sec_i a cycle ago
    ack,        \* the slaves' acknowledge registers
    spi,        \* what the bus sees of the SPI controller
    kez         \* history: how often a slave performed for this instruction

vars == <<program, buyruk, durdu, state, sec_r, ack, spi, kez>>

Koleler == {"uart", "spi", "pwm"}

\* Offset 0 is UART_CTRL, QSPI_CCR and PWM_CONTROL_1; cikti are the read-only outputs
\* of the PWM controller.
Adresler == {"sifir", "diger", "cikti"}

\* What the data would mean in QSPI_CCR: a flash command that ends or, with a data mode
\* or a size the controller cannot count down to 1, one that does not.
Komutlar == {"biter", "bitmez"}

\* adr[17:16] (yok: no slave), the offset, whether a byte is written, the data.
Erisim == [kole : Koleler \cup {"yok"}, adr : Adresler, yaz : BOOLEAN, komut : Komutlar]

\* Every instruction puts an address and a mask on the bus, few of them mean it (vy).
Buyruklar == [vy : BOOLEAN, e : Erisim]

NOP == [vy |-> FALSE, e |-> [kole |-> "uart", adr |-> "sifir", yaz |-> FALSE,
                             komut |-> "bitmez"]]

SpiTipi == [mesgul : BOOLEAN, inst_flag : BOOLEAN, ack_flag : BOOLEAN, komut : Komutlar]

SpiBas == [mesgul |-> FALSE, inst_flag |-> FALSE, ack_flag |-> FALSE, komut |-> "bitmez"]

\* More is counted as this.
KezSiniri == 2

CcrYazmasi(e) == e.kole = "spi" /\ e.adr = "sifir" /\ e.yaz

CiktiYazmasi(e) == e.kole = "pwm" /\ e.adr = "cikti" /\ e.yaz

\* The SPI controller takes every write at offset 0 for one to QSPI_CCR (see
\* SpiYalnizErisim): software that uses it writes there in no other controller.
SpiKurali(p) ==
    (\E e \in p : e.kole = "spi") => \A e \in p : e.yaz /\ e.adr = "sifir" => CcrYazmasi(e)

ASSUME VeriyoluVarsayimi ==
    /\ Programlar \subseteq SUBSET Erisim
    /\ \A p \in Programlar : SpiKurali(p)
    /\ ArdArdaErisim \in BOOLEAN

-----------------------------------------------------------------------------
(* Combinational signals *)

\* vy_sec_i
Sec == buyruk.vy /\ ~durdu

Stb == state = "BUS"

\* Mutant: the address does not select the slave.
Cyc_Adressiz(k) == Stb

Cyc(k) == Stb /\ buyruk.e.kole = k

\* ack: that of the slave addressed; the fourth address has none.
Ack == buyruk.e.kole \in Koleler /\ ack[buyruk.e.kole]

\* Mutant: the first cycle of an access does not stall.
VyDurdur_Secsiz == Stb /\ ~Ack

\* vy_durdur_o
VyDurdur == (~sec_r /\ Sec) \/ (Stb /\ ~Ack)

\* bitti_o, once the fetch is ready.
Bitti == ~durdu /\ (buyruk.vy => ~VyDurdur)

\* A bus access leaves execute.
Tamamlanir == buyruk.vy /\ Bitti

\* The clock edge at which the UART performs an access: it has not acknowledged it yet.
UartIsler == Cyc("uart") /\ ~ack["uart"]

\* The PWM controller acknowledges neither writes to its outputs nor other offsets.
PwmYazar == Cyc("pwm") /\ buyruk.e.yaz /\ ~ack["pwm"] /\ buyruk.e.adr # "cikti"

PwmOkur == Cyc("pwm") /\ ~buyruk.e.yaz

\* The SPI controller does not look at wb_cyc_i.
SpiIsler == Stb /\ ~spi.mesgul /\ ~ack["spi"] /\ ~spi.ack_flag

CcrYazar == SpiIsler /\ buyruk.e.yaz /\ buyruk.e.adr = "sifir"

Isler(k) ==
    CASE k = "uart" -> UartIsler
      [] k = "pwm"  -> PwmYazar \/ PwmOkur
      [] k = "spi"  -> SpiIsler

-----------------------------------------------------------------------------
(* The registers *)

Init ==
    /\ program \in Programlar
    /\ buyruk = NOP
    /\ durdu = TRUE
    /\ state = "IDLE"
    /\ sec_r = FALSE
    /\ ack = [k \in Koleler |-> FALSE]
    /\ spi = SpiBas
    /\ kez = [k \in Koleler |-> 0]

Master ==
    /\ sec_r' = Sec
    /\ state' = IF Stb THEN (IF Ack THEN "IDLE" ELSE "BUS")
                       ELSE (IF Sec THEN "BUS" ELSE "IDLE")

\* Mutant: acknowledges as long as cyc is up.
UartAck_Tutar == Cyc("uart") \/ ack["uart"]

\* wb_ack_o of the UART changes only under its cyc.
UartAck == IF Cyc("uart") THEN ~ack["uart"] ELSE ack["uart"]

\* Mutant: a write to QSPI_CCR is acknowledged like the others.
SpiAck_Hemen == SpiIsler \/ (spi.ack_flag /\ ~spi.mesgul /\ ~ack["spi"])

\* A write to QSPI_CCR is acknowledged when its command has ended.
SpiAck ==
    \/ SpiIsler /\ ~CcrYazar
    \/ spi.ack_flag /\ ~spi.mesgul /\ ~ack["spi"]

KoleAck ==
    ack' = [k \in Koleler |-> CASE k = "uart" -> UartAck
                                [] k = "pwm"  -> PwmYazar \/ PwmOkur
                                [] k = "spi"  -> SpiAck]

\* IDLE of the SPI controller: a command starts once CCR has been written, while the
\* strobe is up.
SpiBosta ==
    /\ ~spi.mesgul
    /\ spi' = [mesgul    |-> Stb /\ spi.inst_flag,
               inst_flag |-> spi.inst_flag \/ CcrYazar,
               ack_flag  |-> FALSE,
               komut     |-> IF CcrYazar THEN buyruk.e.komut ELSE spi.komut]

SpiCalisir ==
    /\ spi.mesgul
    /\ spi' = [spi EXCEPT !.inst_flag = FALSE]

\* Mutant: the end of a command is not reported.
SpiBiter_Bildirmez ==
    /\ spi.mesgul
    /\ spi.komut = "biter"
    /\ spi' = [spi EXCEPT !.mesgul = FALSE, !.inst_flag = FALSE]

SpiBiter ==
    /\ spi.mesgul
    /\ spi.komut = "biter"
    /\ spi' = [spi EXCEPT !.mesgul = FALSE, !.inst_flag = FALSE, !.ack_flag = TRUE]

\* The instruction that comes to execute next.  Software makes the accesses of its
\* program; unless ArdArdaErisim, no access is selected in the cycle after another.
SonrakiBuyruk ==
    /\ buyruk' \in Buyruklar
    /\ durdu' \in BOOLEAN
    /\ buyruk'.vy => buyruk'.e \in program
    /\ buyruk'.vy /\ ~durdu' /\ Sec => ArdArdaErisim
    /\ kez' = [k \in Koleler |-> 0]

\* The instruction stays: the fetch, the bus or another unit is not ready.
AyniBuyruk ==
    /\ Bitti => ~buyruk.vy
    /\ UNCHANGED buyruk
    /\ durdu' \in IF durdu THEN BOOLEAN ELSE {FALSE}
    /\ kez' = [k \in Koleler |-> IF Isler(k) /\ kez[k] < KezSiniri THEN kez[k] + 1
                                                                   ELSE kez[k]]

Cekirdek == (Bitti /\ SonrakiBuyruk) \/ AyniBuyruk

\* Everything else on the bus at an edge.
Kenar == Master /\ KoleAck /\ Cekirdek /\ UNCHANGED program

Saat == (SpiBosta \/ SpiCalisir \/ SpiBiter) /\ Kenar

\* rst_i.  sec_r has no reset.
Sifirla ==
    /\ program' \in Programlar
    /\ buyruk' = NOP
    /\ durdu' = TRUE
    /\ state' = "IDLE"
    /\ sec_r' = Sec
    /\ ack' = [k \in Koleler |-> FALSE]
    /\ spi' = SpiBas
    /\ kez' = [k \in Koleler |-> 0]

Next == Saat \/ Sifirla

Spec == Init /\ [][Next]_vars

\* The clock runs, and a flash command that can end ends.
AdilSpec == Spec /\ WF_vars(Saat) /\ WF_vars(SpiBiter /\ Kenar)

-----------------------------------------------------------------------------
(* Properties *)

\* The registers hold what their widths allow.
TipDogru ==
    /\ program \in Programlar
    /\ buyruk \in Buyruklar
    /\ durdu \in BOOLEAN
    /\ state \in {"IDLE", "BUS"}
    /\ sec_r \in BOOLEAN
    /\ ack \in [Koleler -> BOOLEAN]
    /\ spi \in SpiTipi
    /\ kez \in [Koleler -> 0 .. KezSiniri]

\* A bus access leaves execute only after the slave it addresses has performed it, and
\* the UART, whose data register pops and pushes, has performed it once.
TamIslenir ==
    Tamamlanir => /\ kez[buyruk.e.kole] > 0
                  /\ kez["uart"] = IF buyruk.e.kole = "uart" THEN 1 ELSE 0

\* The UART and the PWM controller perform only for a bus access in execute that
\* addresses them: the address and the mask of other instructions stay without effect.
YalnizErisim ==
    \A k \in {"uart", "pwm"} : Isler(k) => Sec /\ buyruk.e.kole = k

\* The same of the SPI controller: wishbone_master.v:44 says the signals go by address.
SpiYalnizErisim == SpiIsler => Sec /\ buyruk.e.kole = "spi"

\* A store to QSPI_CCR leaves execute when its flash command has ended, so the data
\* registers may be read next (spi_demo.c does).
KomutBitmis ==
    Tamamlanir /\ CcrYazmasi(buyruk.e) => ~spi.mesgul /\ ~spi.inst_flag

\* Every access ends.
ErisimBiter == Sec ~> Tamamlanir \/ ~Sec

(***************************************************************************)
(* The inductive invariant.  Outside BUS nothing is left of the last       *)
(* access: no acknowledge but one the PWM controller gives a read for a    *)
(* cycle too long, and an access selected there is new.  In BUS an access  *)
(* is selected, and its slave acknowledges only what it has performed.     *)
(***************************************************************************)
SpiKullanilir == \E e \in program : e.kole = "spi"

SpiSessiz == ~spi.mesgul /\ ~spi.inst_flag /\ ~spi.ack_flag

Bosta ==
    state = "IDLE" => /\ ~ack["uart"]
                      /\ ack["pwm"] => sec_r
                      /\ SpiKullanilir => ~ack["spi"] /\ SpiSessiz
                      /\ \A k \in Koleler : kez[k] = 0
                      /\ Sec => ~sec_r

\* The UART and the PWM controller during an access.
Erisimde(k) ==
    /\ buyruk.e.kole # k => ~ack[k] /\ kez[k] = 0
    /\ ack[k] => kez[k] > 0
    /\ k = "uart" => kez[k] = IF ack[k] THEN 1 ELSE 0

\* The SPI controller during an access: it follows the accesses of the others, and is
\* busy only for a store to QSPI_CCR that has not been acknowledged.
SpiErisimde ==
    /\ ack["spi"] => SpiSessiz /\ kez["spi"] > 0
    /\ ~SpiSessiz => CcrYazmasi(buyruk.e) /\ kez["spi"] > 0
    /\ spi.mesgul => ~spi.ack_flag
    /\ spi.ack_flag => ~spi.inst_flag
    /\ buyruk.e.kole \in {"uart", "pwm"} =>
          ack[buyruk.e.kole] = (ack["spi"] /\ ~CiktiYazmasi(buyruk.e))

Veriyolunda ==
    state = "BUS" => /\ Sec /\ sec_r
                     /\ buyruk.e \in program
                     /\ \A k \in {"uart", "pwm"} : Erisimde(k)
                     /\ SpiKullanilir => SpiErisimde

\* Only an access of the program is selected.
ErisimProgramdan == buyruk.vy => buyruk.e \in program

IInv == TipDogru /\ ErisimProgramdan /\ Bosta /\ Veriyolunda

=============================================================================
