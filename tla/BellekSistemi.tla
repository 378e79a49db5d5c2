---------------------------- MODULE BellekSistemi ----------------------------
(***************************************************************************)
(* The one memory port and who shares it: the arbiter                      *)
(* (anabellek_denetleyici.v), the RAM behind its delay line and the timer  *)
(* (teknofest_wrapper.v, teknofest_ram.v), the memory sides of both        *)
(* caches, the stalls of the core (denetim_durum_birimi.v) and the program *)
(* loader with the reset it ends in.  A step is a clock edge.              *)
(*                                                                         *)
(* What the caches hold is abstracted: a fetch carries the half-words it   *)
(* still misses, a data request the accesses its line still needs.         *)
(* The caches implement that (GetirmeKapisi, VeriKapisi) for a core that   *)
(* holds what it asks for, which KapilarUygun says of this one.            *)
(***************************************************************************)
EXTENDS Integers

CONSTANTS
    RAM_DELAY,    \* stages of the delay line (16)
    SayacSon,     \* last value of both start-up counters (255)
    BoyRam,       \* words of the RAM
    Deger         \* values of a word

VARIABLES
    l1b,              \* FSM of the instruction cache
    getirme,          \* the fetch it serves
    durum,            \* FSM of the data cache
    l1v_sayac,        \* its counter
    iomem_addr_r,
    iomem_wdata_r,
    istek,            \* the instruction in execute
    sayac,            \* counter of denetim_durum_birimi
    switch,
    ram_ready,
    ram_shift_q,
    ram_data,
    bellek,
    state_prog,
    prog_inst_valid,
    prog_instruction,
    prog_addr,
    prog_kalan,       \* prog_intr_number - prog_intr_ctr
    prog_sys_rst_n

onbellekVars == <<l1b, getirme, durum, l1v_sayac, iomem_addr_r, iomem_wdata_r>>

yukleyiciVars == <<state_prog, prog_inst_valid, prog_instruction, prog_kalan, prog_sys_rst_n>>

vars == <<onbellekVars, istek, sayac, switch, ram_ready, ram_shift_q, ram_data, bellek,
          prog_addr, yukleyiciVars>>

Adresler == 0 .. BoyRam - 1

Asamalar == 0 .. RAM_DELAY - 1

Sayaclar == 0 .. SayacSon

ASSUME SistemVarsayimi ==
    /\ RAM_DELAY \in Nat /\ RAM_DELAY >= 2
    /\ SayacSon \in Nat \ {0}
    /\ BoyRam \in Nat \ {0}
    /\ Deger # {}

(***************************************************************************)
(* A fetch: the words READMEM0 and READMEM1 read, and which of the two it  *)
(* needs.  An aligned miss needs one; the word of a half that is present   *)
(* does not matter.                                                        *)
(***************************************************************************)
GetirmeTipi == [adr0 : Adresler, adr1 : Adresler, eksik : SUBSET {0, 1}]

Getirmeler ==
    {g \in GetirmeTipi : /\ 0 \notin g.eksik => g.adr0 = 0
                         /\ 1 \notin g.eksik => g.adr1 = 0
                         /\ g.eksik = {0, 1} => g.adr0 # g.adr1}

IlkGetirme == [adr0 |-> 0, adr1 |-> 0, eksik |-> {0}]

(***************************************************************************)
(* The instruction in execute: nothing of interest, one that keeps execute *)
(* busy without this port (bus, divider, a dependence on a product), a     *)
(* timer access, or a data request that hits, reads its word, writes its   *)
(* dirty victim back first, or only does that (a full-word store).         *)
(***************************************************************************)
VeriTurleri == {"isabet", "oku", "yazoku", "yaz"}

IstekTipi == [tur : {"yok", "diger", "timer"} \cup VeriTurleri,
              adr : Adresler, kurban : Adresler, veri : Deger]

Sade(t) == [tur |-> t, adr |-> 0, kurban |-> 0, veri |-> CHOOSE d \in Deger : TRUE]

Okuma(a) == [Sade("oku") EXCEPT !.adr = a]

\* The victim's word is another one of the same row.
Istekler ==
    {Sade(t) : t \in {"yok", "diger", "timer", "isabet"}} \cup {Okuma(a) : a \in Adresler}
        \cup {r \in IstekTipi : r.tur \in {"yazoku", "yaz"} /\ r.adr # r.kurban}

-----------------------------------------------------------------------------
(* Combinational signals *)

GtrHazir == l1b = "READCACHE" /\ getirme.eksik = {}

\* Mutant: the stall ends before the counter does.
Basliyor_Erken == sayac < SayacSon - 1

Basliyor == sayac # SayacSon

\* Mutant: execute does not wait for the fetch.
YrtDurdur_Getirmesiz == Basliyor

YrtDurdur == Basliyor \/ ~GtrHazir

TimerValid == ~YrtDurdur /\ istek.tur = "timer"

L1vSec == ~YrtDurdur /\ istek.tur \in VeriTurleri

L1bValid == l1b # "READCACHE"

L1vValid == durum \in {"BELLEK_OKU", "BELLEK_YAZ"}

L1vDurdur == durum # "BOY" \/ (L1vSec /\ istek.tur # "isabet")

\* Where the instruction cache reads.
L1bAddr == IF l1b = "READMEM0" THEN getirme.adr0 ELSE getirme.adr1

\* iomem_valid with an address of the RAM.
RamSecili == ~TimerValid /\ (IF switch = "BUYRUK" THEN L1bValid ELSE L1vValid)

RamAddr == IF switch = "BUYRUK" THEN L1bAddr ELSE iomem_addr_r

IomemReady == ram_shift_q[RAM_DELAY - 1] \/ TimerValid

L1bReady == ~TimerValid /\ switch = "BUYRUK" /\ IomemReady

L1vReady == ~TimerValid /\ switch = "VERI" /\ IomemReady

ProgYazar == state_prog = "SequenceProgram" /\ prog_inst_valid

RamYaz == RamSecili /\ switch = "VERI" /\ durum = "BELLEK_YAZ"

-----------------------------------------------------------------------------
(* The units, each with what it does at a clock edge out of reset *)

BuyrukTarafi(ilerler) ==
    /\ l1b' = CASE L1bValid -> IF L1bReady THEN "READCACHE" ELSE l1b
                [] ~L1bValid /\ 0 \in getirme.eksik -> "READMEM0"
                [] ~L1bValid /\ getirme.eksik = {1} -> "READMEM1"
                [] OTHER -> "READCACHE"
    /\ IF ilerler
       THEN getirme' \in Getirmeler
       ELSE getirme' = CASE ~(L1bValid /\ L1bReady) -> getirme
                         [] l1b = "READMEM0" /\ L1bReady ->
                              [getirme EXCEPT !.eksik = @ \ {0}, !.adr0 = 0]
                         [] l1b = "READMEM1" /\ L1bReady ->
                              [getirme EXCEPT !.eksik = @ \ {1}, !.adr1 = 0]

\* Mutant: the counter runs over.
L1vSay_Durmaz == l1v_sayac' = l1v_sayac + 1

L1vSay == l1v_sayac' = IF l1v_sayac = SayacSon THEN l1v_sayac ELSE l1v_sayac + 1

VeriTarafi ==
    /\ L1vSay
    /\ durum' = CASE durum = "RESET" -> IF l1v_sayac = SayacSon THEN "BOY" ELSE "RESET"
                  [] durum = "BOY" ->
                       IF ~L1vSec \/ istek.tur = "isabet" THEN "BOY"
                       ELSE IF istek.tur = "oku" THEN "BELLEK_OKU" ELSE "BELLEK_YAZ"
                  [] L1vValid /\ ~L1vReady -> durum
                  [] durum = "BELLEK_OKU" /\ L1vReady -> "BOY"
                  [] durum = "BELLEK_YAZ" /\ L1vReady ->
                       IF istek.tur = "yazoku" THEN "BELLEK_OKU" ELSE "BOY"
    /\ iomem_addr_r' =
         CASE durum = "BOY" /\ L1vSec /\ istek.tur \in {"yaz", "yazoku"} -> istek.kurban
           [] \/ durum = "BOY" /\ L1vSec /\ istek.tur = "oku"
              \/ durum = "BELLEK_YAZ" /\ L1vReady /\ istek.tur = "yazoku" -> istek.adr
           [] OTHER -> iomem_addr_r
    /\ iomem_wdata_r' = IF durum = "BOY" /\ L1vSec /\ istek.tur \in {"yaz", "yazoku"}
                        THEN istek.veri ELSE iomem_wdata_r

\* The instruction in execute: the next one, or the same with what the data cache
\* has done for it.
Yurut(ilerler) ==
    IF ilerler
    THEN istek' \in Istekler
    ELSE istek' = CASE ~(L1vValid /\ L1vReady) -> istek
                    [] L1vValid /\ L1vReady /\ istek.tur = "yazoku" -> Okuma(istek.adr)
                    [] OTHER -> Sade("isabet")

\* Mutant: the switch is not given back.
SwitchSonraki_Kalir == IF L1vValid THEN "VERI" ELSE switch

\* "Switch baskasi kullanmiyor ise isteyene doner."
SwitchSonraki ==
    CASE L1bValid /\ L1vValid -> switch
      [] L1vValid /\ ~L1bValid -> "VERI"
      [] OTHER -> "BUYRUK"

\* Mutant: the ready answered leaves the rest of its run in the line.
GecikmeSonraki_Kalir == [i \in Asamalar |-> IF i = 0 THEN ram_ready ELSE ram_shift_q[i - 1]]

\* ram_ready_check empties the delay line.
GecikmeSonraki ==
    [i \in Asamalar |-> /\ ~(RamSecili /\ IomemReady)
                        /\ IF i = 0 THEN ram_ready ELSE ram_shift_q[i - 1]]

\* Mutant: the write strobe waits for the ready.
RamSonraki_HazirBekler ==
    CASE ProgYazar -> [bellek EXCEPT ![prog_addr] = prog_instruction]
      [] RamYaz /\ IomemReady /\ ~ProgYazar -> [bellek EXCEPT ![RamAddr] = iomem_wdata_r]
      [] OTHER -> bellek

\* One write port: in the cycle the loader has a word, address and data are the loader's.
RamSonraki ==
    CASE ProgYazar -> [bellek EXCEPT ![prog_addr] = prog_instruction]
      [] RamYaz /\ ~ProgYazar -> [bellek EXCEPT ![RamAddr] = iomem_wdata_r]
      [] OTHER -> bellek

\* The RAM and its output register have no reset.
Ram ==
    /\ bellek' = RamSonraki
    /\ ram_data' = IF RamSecili /\ ~RamYaz THEN bellek[RamAddr] ELSE ram_data

(***************************************************************************)
(* The loader.  Its start sequence and the length leave the RAM alone and  *)
(* are part of SequenceWait.  Words come in four bytes of the UART, so two *)
(* never follow each other at once.                                        *)
(***************************************************************************)
Dinle ==
    /\ state_prog = "SequenceWait"
    /\ state_prog' \in {"SequenceWait", "SequenceProgram"}
    /\ prog_kalan' \in IF state_prog' = "SequenceProgram" THEN 0 .. BoyRam ELSE {0}
    /\ prog_inst_valid' = FALSE
    /\ prog_sys_rst_n' = TRUE
    /\ UNCHANGED prog_instruction

SozcukGeldi ==
    /\ state_prog = "SequenceProgram"
    /\ ~prog_inst_valid /\ prog_kalan > 0
    /\ prog_inst_valid' = TRUE
    /\ prog_instruction' \in Deger
    /\ prog_kalan' = prog_kalan - 1
    /\ UNCHANGED <<state_prog, prog_sys_rst_n>>

SozcukBekle ==
    /\ state_prog = "SequenceProgram"
    /\ prog_inst_valid' = FALSE
    /\ state_prog' = IF prog_kalan = 0 THEN "SequenceFinish" ELSE state_prog
    /\ UNCHANGED <<prog_instruction, prog_kalan, prog_sys_rst_n>>

YuklemeBitti ==
    /\ state_prog = "SequenceFinish"
    /\ state_prog' = "SequenceWait"
    /\ prog_sys_rst_n' = FALSE
    /\ UNCHANGED <<prog_inst_valid, prog_instruction, prog_kalan>>

Yukleyici == Dinle \/ SozcukGeldi \/ SozcukBekle \/ YuklemeBitti

-----------------------------------------------------------------------------
(* Clock edges *)

\* Mutant: the fetch does not wait for execute.
Ilerler_Yurutsuz(bitti) == ~Basliyor /\ GtrHazir

\* Mutant: fetch moves on while its cache fills.
Ilerler_Getirmesiz(bitti) ==
    /\ ~Basliyor
    /\ istek.tur \in VeriTurleri => ~L1vDurdur
    /\ istek.tur = "diger" => bitti

\* ~gtr_durdur_o and ~cyo_durdur_o: fetch, decode and execute move together.  bitti
\* stands for the units behind a "diger".
Ilerler(bitti) ==
    /\ ~Basliyor /\ GtrHazir
    /\ istek.tur \in VeriTurleri => ~L1vDurdur
    /\ istek.tur = "diger" => bitti

\* Everything but the loader.
Kenar ==
    /\ prog_sys_rst_n
    /\ \E bitti \in BOOLEAN : BuyrukTarafi(Ilerler(bitti)) /\ Yurut(Ilerler(bitti))
    /\ VeriTarafi
    /\ sayac' = IF Basliyor THEN sayac + 1 ELSE sayac
    /\ switch' = SwitchSonraki
    /\ ram_ready' = (RamSecili /\ ~IomemReady)
    /\ ram_shift_q' = GecikmeSonraki
    /\ Ram
    /\ prog_addr' = IF ProgYazar THEN (prog_addr + 1) % BoyRam ELSE prog_addr

Calis == Kenar /\ Yukleyici

\* What rst_n resets, from the button or from the loader.
SistemSifirla ==
    /\ l1b' = "READMEM0"
    /\ getirme' = IlkGetirme
    /\ durum' = "RESET"
    /\ l1v_sayac' = 0
    /\ istek' = Sade("yok")
    /\ sayac' = 0
    /\ switch' = "BUYRUK"
    /\ ram_ready' = FALSE
    /\ prog_addr' = 0
    /\ UNCHANGED <<iomem_addr_r, iomem_wdata_r>>

\* The loader's reset does not reach the delay line.
YukleyiciSifirla ==
    /\ ~prog_sys_rst_n
    /\ SistemSifirla
    /\ ram_shift_q' = GecikmeSonraki
    /\ Ram
    /\ Yukleyici

\* rst_ni
DisSifirla ==
    /\ SistemSifirla
    /\ ram_shift_q' = [i \in Asamalar |-> FALSE]
    /\ Ram
    /\ state_prog' = "SequenceWait"
    /\ prog_inst_valid' = FALSE
    /\ prog_kalan' = 0
    /\ prog_sys_rst_n' = TRUE
    /\ UNCHANGED prog_instruction

\* Power-up ends with rst_ni.
Init ==
    /\ l1b = "READMEM0"
    /\ getirme = IlkGetirme
    /\ durum = "RESET"
    /\ l1v_sayac = 0
    /\ iomem_addr_r = 0
    /\ iomem_wdata_r \in Deger
    /\ istek = Sade("yok")
    /\ sayac = 0
    /\ switch = "BUYRUK"
    /\ ram_ready = FALSE
    /\ ram_shift_q = [i \in Asamalar |-> FALSE]
    /\ ram_data \in Deger
    /\ bellek \in [Adresler -> Deger]
    /\ state_prog = "SequenceWait"
    /\ prog_inst_valid = FALSE
    /\ prog_instruction = CHOOSE d \in Deger : TRUE
    /\ prog_addr = 0
    /\ prog_kalan = 0
    /\ prog_sys_rst_n = TRUE

Next == Calis \/ YukleyiciSifirla \/ DisSifirla

Spec == Init /\ [][Next]_vars

\* An edge at which the loader's UART brings nothing.
Sessiz == (Dinle /\ state_prog' = "SequenceWait") \/ SozcukBekle \/ YuklemeBitti

\* The clock runs; nobody has to load a program, or to finish loading it.
AdilSpec == Spec /\ WF_vars(Kenar /\ Sessiz) /\ WF_vars(YukleyiciSifirla)

-----------------------------------------------------------------------------
(* Properties *)

\* Every register keeps its width and every state machine its states.
TipDogru ==
    /\ l1b \in {"READMEM0", "READMEM1", "READCACHE"}
    /\ getirme \in Getirmeler
    /\ durum \in {"RESET", "BOY", "BELLEK_OKU", "BELLEK_YAZ"}
    /\ l1v_sayac \in Sayaclar
    /\ iomem_addr_r \in Adresler
    /\ iomem_wdata_r \in Deger
    /\ istek \in Istekler
    /\ sayac \in Sayaclar
    /\ switch \in {"BUYRUK", "VERI"}
    /\ ram_ready \in BOOLEAN
    /\ ram_shift_q \in [Asamalar -> BOOLEAN]
    /\ ram_data \in Deger
    /\ bellek \in [Adresler -> Deger]
    /\ state_prog \in {"SequenceWait", "SequenceProgram", "SequenceFinish"}
    /\ prog_inst_valid \in BOOLEAN
    /\ prog_instruction \in Deger
    /\ prog_addr \in Adresler
    /\ prog_kalan \in 0 .. BoyRam
    /\ prog_sys_rst_n \in BOOLEAN

\* The first cycle after a reset.
YeniSifirlandi == durum = "RESET" /\ l1v_sayac = 0

Sifirlama == YukleyiciSifirla \/ DisSifirla

\* The port never has two users: the arbiter's "both valid" case and the timer's
\* priority over a waiting cache exist, but the stalls of fetch and execute keep the
\* core from ever needing them.  A timer access in the middle of a cache's would
\* take its answer away.
TekErisim ==
    /\ ~(L1bValid /\ L1vValid)
    /\ TimerValid => ~L1bValid /\ ~L1vValid

\* A cache that is told ready for a read is given the word it reads: the line holds no
\* ready of an earlier access.  Not while the loader writes, and not in the first
\* cycle after a reset.
OkunanDogru ==
    /\ RamSecili /\ IomemReady /\ ~RamYaz
    /\ state_prog = "SequenceWait"
    /\ ~YeniSifirlandi
    => ram_data = bellek[RamAddr]

\* vivado/cevreleyici/README.txt:28-29: the system resets itself after the loading and
\* the new code runs.  The words fetched then are those in the RAM.
YeniKodCalisir ==
    RamSecili /\ IomemReady /\ ~RamYaz /\ state_prog = "SequenceWait" => ram_data = bellek[RamAddr]

\* An access on the port stays there unchanged until it is answered; the RAM, which
\* answers after a delay and keeps no address, depends on it.
PortSabit ==
    [][RamSecili /\ ~IomemReady /\ ~Sifirlama
         => /\ RamSecili' /\ RamAddr' = RamAddr /\ RamYaz' = RamYaz
            /\ iomem_wdata_r' = iomem_wdata_r]_vars

\* A write-back that is told ready is in the RAM, also if the loader took the write
\* port from it in between.
YazmaIslendi ==
    [][RamYaz /\ IomemReady
         => \/ bellek'[RamAddr] = iomem_wdata_r
            \/ ProgYazar /\ prog_addr = RamAddr]_vars

\* What both caches build on: the core holds the fetch address and the data request
\* of a cache that waits for the memory.
IstekTutulur ==
    [][~Sifirlama => /\ L1bValid /\ l1b' = l1b => getirme' = getirme
                     /\ L1vValid /\ durum' # "BOY" => istek'.adr = istek.adr]_vars

\* The request of the data cache: execute's instruction, if it is one.
VeriIstegi == IF istek.tur \in VeriTurleri THEN istek ELSE Sade("yok")

VeriKapi == INSTANCE VeriKapisi WITH
    BosAdres <- 0, BosDeger <- CHOOSE d \in Deger : TRUE,
    adres <- iomem_addr_r, veri <- iomem_wdata_r, istek <- VeriIstegi

GetirmeKapi == INSTANCE GetirmeKapisi WITH IlkAdres <- 0, state <- l1b

\* Core, arbiter and resets use both caches as their interfaces say, which the caches
\* implement (KapiSpec of VeriOnbellegi and of BuyrukOnbellegi): a request or a fetch is
\* held until it is served, and an answer is one to the access that is on the port.  Only a
\* reset of the system, the button's or the loader's, resets either.
KapilarUygun ==
    /\ VeriKapi!Spec /\ [][~Sifirlama => VeriKapi!Calis]_(VeriKapi!vars)
    /\ GetirmeKapi!Spec /\ [][~Sifirlama => GetirmeKapi!Calis]_(GetirmeKapi!vars)

\* The start-up stall of denetim_durum_birimi covers the reset loop of the data cache,
\* which counts by itself: no instruction is in execute until the last row is done.
SifirlamadaBos == durum = "RESET" => istek.tur = "yok"

\* While the data cache uses the port the fetch is complete, the start-up over and a
\* data request in execute, so that nobody else wants it.
PortTutulur == L1vValid => GtrHazir /\ ~Basliyor /\ istek.tur \in VeriTurleri

\* Both start-up counters run together, with execute empty.
BirlikteSayar == durum = "RESET" => l1v_sayac = sayac /\ istek.tur = "yok"

HazirYolda == ram_ready \/ \E i \in Asamalar : ram_shift_q[i]

\* A ready on its way belongs to the access on the port; a write among these is in the
\* RAM before a word of the loader can keep it out.
HazirAit == HazirYolda => /\ RamSecili
                          /\ RamYaz /\ ProgYazar => bellek[RamAddr] = iomem_wdata_r

\* The access of the data cache is the next one its request needs.
ErisimUyar ==
    /\ durum = "BELLEK_OKU" => istek = Okuma(iomem_addr_r)
    /\ durum = "BELLEK_YAZ" => /\ istek.tur \in {"yazoku", "yaz"}
                               /\ iomem_addr_r = istek.kurban /\ iomem_wdata_r = istek.veri

\* The row that is filled is one the fetch misses, the first half first.
DolumUyar ==
    /\ l1b = "READMEM0" => 0 \in getirme.eksik
    /\ l1b = "READMEM1" => getirme.eksik = {1}

IInv == TipDogru /\ PortTutulur /\ BirlikteSayar /\ HazirAit /\ ErisimUyar /\ DolumUyar

\* Every access of a cache is answered, or a reset takes it away.
ErisimBiter ==
    /\ L1bValid ~> (L1bReady \/ YeniSifirlandi)
    /\ L1vValid ~> (L1vReady \/ YeniSifirlandi)

=============================================================================
