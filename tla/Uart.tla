-------------------------------- MODULE Uart ---------------------------------
(* uart_denetleyici with its transmitter and its receiver, the output wired to     *)
(* the input, and the driver of uart_driver.c on the other side of the bus. A step *)
(* is a clock cycle; bit times, FIFOs and the bus handshake are those of the code.  *)
EXTENDS Naturals, Sequences

CONSTANTS
    BIT,            \* 8: data bits of a byte
    TX_DERINLIK,    \* 32: cells of the transmit queue
    RX_DERINLIK,    \* 32: cells of the receive queue
    BAUD,           \* the divisor software sets; a bit lasts BAUD + 1 cycles
    Baytlar,        \* the bytes the program sends
    SINIR,          \* bytes the program leaves unread at most
    YOK             \* nothing was read

Bayt == [0 .. BIT - 1 -> {0, 1}]

ASSUME BoyVarsayimi ==
    /\ BIT \in Nat \ {0}
    /\ TX_DERINLIK \in Nat \ {0, 1} /\ RX_DERINLIK \in Nat \ {0, 1}
    /\ Baytlar \subseteq Bayt
    /\ YOK \notin Bayt

\* A falling line is noticed two cycles late and its first bit read three cycles into the
\* next bit time: shorter bits are read from their neighbours. The receive queue is never
\* checked for being full: a program that leaves more bytes unread loses them.
ASSUME KullanimVarsayimi == BAUD \in Nat /\ BAUD >= 4 /\ SINIR \in 1 .. RX_DERINLIK - 1

VARIABLES
    verici,     \* uart_tx: state, read_ptr, write_ptr, counter, uart_clk_pulse, queue
    alici,      \* uart_rx: the same and start_pattern, start_r
    ctrl,       \* uart_denetleyici: baud_div, tx_en, rx_en
    wb_ack, tx_we, rx_re,
    wb_dat,     \* wb_dat_o: the status bits and the byte it shows
    yazilim,    \* the driver: what it is doing
    erisim,     \* the bus cycle of its access
    cikan,      \* the byte it sends
    bekleyen,   \* bytes it has sent and not read back
    okunan      \* the byte zgetchar returned in this step

vars == <<verici, alici, ctrl, wb_ack, tx_we, rx_re, wb_dat,
          yazilim, erisim, cikan, bekleyen, okunan>>

\* 0 IDLE, 1 START_BIT, DATA_0 and on, then the stop bit.
SON == BIT + 2
VERI(s) == s \in 2 .. BIT + 1
\* A stop bit that does not lead back to IDLE.
Sonra_Artar(s) == s + 1

Sonra(s) == (s + 1) % (SON + 1)

TxBos == verici.read_ptr = verici.write_ptr
TxDolu == (verici.read_ptr + TX_DERINLIK - 1) % TX_DERINLIK = verici.write_ptr
RxBos == alici.read_ptr = alici.write_ptr

\* tx_o
Hat ==
    IF verici.state = 1 THEN 0
    ELSE IF VERI(verici.state) THEN verici.queue[verici.read_ptr][verici.state - 2]
    ELSE 1

-----------------------------------------------------------------------------
(* The bus: master and driver *)

\* The register the driver's access is for.
Yazmac ==
    CASE yazilim = "kur" -> "ctrl"
      [] yazilim \in {"gonder_durum", "al_durum"} -> "durum"
      [] yazilim = "gonder_yaz" -> "wdata"
      [] yazilim = "al_oku" -> "rdata"
      [] OTHER -> "yok"

\* The master has taken the access to the bus: cyc and stb are up.
Cyc == erisim = "veriyolu"

Islenir == Cyc /\ wb_ack = FALSE

-----------------------------------------------------------------------------
(* uart_denetleyici *)

\* UART_CTRL after a reset, and as software sets it
Kapali == [baud_div |-> 0, tx_en |-> FALSE, rx_en |-> FALSE]
Acik == [baud_div |-> BAUD, tx_en |-> TRUE, rx_en |-> TRUE]

Denetleyici ==
    /\ wb_ack' = IF Cyc THEN ~wb_ack ELSE wb_ack
    /\ ctrl' = IF Islenir /\ Yazmac = "ctrl"
               THEN Acik ELSE ctrl
    /\ tx_we' = (Islenir /\ Yazmac = "wdata" /\ ~TxDolu)
    /\ rx_re' = (Islenir /\ Yazmac = "rdata" /\ ~RxBos)
    /\ wb_dat' =
         CASE Cyc /\ Yazmac = "durum" ->
                  [wb_dat EXCEPT !.tx_full = TxDolu, !.rx_empty = RxBos]
           [] Islenir /\ Yazmac = "rdata" /\ ~RxBos ->
                  [wb_dat EXCEPT !.veri = alici.queue[alici.read_ptr]]
           [] OTHER -> wb_dat

-----------------------------------------------------------------------------
(* uart_tx *)

\* stall_i taken for an enable.
TxSonraki_DurmadanGondermez ==
    IF verici.state = 0
    THEN IF ~TxBos /\ ~ctrl.tx_en THEN 1 ELSE 0
    ELSE Sonra(verici.state)

\* next
TxSonraki ==
    IF verici.state = 0
    THEN IF ~TxBos /\ ctrl.tx_en THEN 1 ELSE 0
    ELSE Sonra(verici.state)

\* The queue takes the bus's data a cycle after the access was performed.
Verici ==
    LET vurus == verici.counter = ctrl.baud_div
    IN verici' =
        [state |-> IF verici.pulse THEN TxSonraki ELSE verici.state,
         read_ptr |-> IF verici.pulse /\ verici.state = SON
                      THEN (verici.read_ptr + 1) % TX_DERINLIK ELSE verici.read_ptr,
         write_ptr |-> IF tx_we THEN (verici.write_ptr + 1) % TX_DERINLIK
                       ELSE verici.write_ptr,
         counter |-> IF vurus THEN 0 ELSE verici.counter + 1,
         pulse |-> vurus,
         queue |-> IF tx_we THEN [verici.queue EXCEPT ![verici.write_ptr] = cikan]
                   ELSE verici.queue]

-----------------------------------------------------------------------------
(* uart_rx *)

Dusus == alici.start_pattern = <<1, 1, 0, 0>>

\* A start bit while none is being received.
Baslar == Dusus /\ ~alici.start_r

Biter == alici.pulse /\ alici.state = SON

RxSonraki ==
    IF alici.state = 0
    THEN IF alici.start_r /\ ctrl.rx_en THEN 1 ELSE 0
    ELSE Sonra(alici.state)

\* A start bit that is waited out: every bit is read one bit time late.
RxSayac_SifirdanBaslar ==
    IF Baslar \/ alici.counter = ctrl.baud_div THEN 0
    ELSE IF alici.start_r THEN alici.counter + 1
    ELSE alici.counter

\* The first data bit is awaited from the middle of the second cycle of the start bit.
RxSayac ==
    IF Baslar THEN ctrl.baud_div
    ELSE IF alici.counter = ctrl.baud_div THEN 0
    ELSE IF alici.start_r THEN alici.counter + 1
    ELSE alici.counter

RxKuyruk ==
    IF alici.pulse /\ VERI(alici.state)
    THEN [alici.queue EXCEPT ![alici.write_ptr][alici.state - 2] = Hat]
    ELSE alici.queue

Alici ==
    alici' =
        [state |-> IF alici.pulse THEN RxSonraki ELSE alici.state,
         read_ptr |-> IF rx_re THEN (alici.read_ptr + 1) % RX_DERINLIK ELSE alici.read_ptr,
         write_ptr |-> IF Biter THEN (alici.write_ptr + 1) % RX_DERINLIK
                       ELSE alici.write_ptr,
         counter |-> RxSayac,
         pulse |-> Baslar \/ alici.counter = ctrl.baud_div,
         queue |-> RxKuyruk,
         start_pattern |-> Append(Tail(alici.start_pattern), Hat),
         start_r |-> Dusus \/ (alici.start_r /\ ~Biter)]

Kenar == Denetleyici /\ Verici /\ Alici

-----------------------------------------------------------------------------
(* The driver *)

\* No access: the program computes, or the driver is between two accesses.
Bosta == erisim = "ara"

BaslatErisim == erisim' = "istek"

\* The master's first cycle, in which it sees the request.
IstekGorulur ==
    /\ erisim = "istek"
    /\ Kenar
    /\ erisim' = "veriyolu"
    /\ okunan' = YOK
    /\ UNCHANGED <<yazilim, cikan, bekleyen>>

IslemYapilir ==
    /\ Islenir
    /\ Kenar
    /\ okunan' = YOK
    /\ UNCHANGED <<yazilim, erisim, cikan, bekleyen>>

\* The acknowledge: what the driver does with the answer.
Yanit ==
    /\ Cyc /\ wb_ack
    /\ Kenar
    /\ erisim' = "ara"
    /\ yazilim' = CASE yazilim = "gonder_durum" ->
                           IF wb_dat.tx_full THEN "gonder_durum" ELSE "gonder_yaz"
                    [] yazilim = "al_durum" ->
                           IF wb_dat.rx_empty THEN "al_durum" ELSE "al_oku"
                    [] OTHER -> "serbest"
    /\ bekleyen' = CASE yazilim = "gonder_yaz" -> bekleyen + 1
                     [] yazilim = "al_oku" -> bekleyen - 1
                     [] OTHER -> bekleyen
    /\ okunan' = IF yazilim = "al_oku" THEN wb_dat.veri ELSE YOK
    /\ UNCHANGED cikan

\* zputchar and zgetchar go on with their next access.
Surdur ==
    /\ Bosta /\ yazilim # "serbest"
    /\ Kenar
    /\ BaslatErisim
    /\ okunan' = YOK
    /\ UNCHANGED <<yazilim, cikan, bekleyen>>

\* The program calls zputchar, when it does not leave too many bytes unread.
Gonder ==
    /\ Bosta /\ yazilim = "serbest" /\ bekleyen < SINIR
    /\ Kenar
    /\ yazilim' = "gonder_durum"
    /\ cikan' \in Baytlar
    /\ BaslatErisim
    /\ okunan' = YOK
    /\ UNCHANGED bekleyen

\* The program calls zgetchar for a byte it has sent.
Al ==
    /\ Bosta /\ yazilim = "serbest" /\ bekleyen > 0
    /\ Kenar
    /\ yazilim' = "al_durum"
    /\ BaslatErisim
    /\ okunan' = YOK
    /\ UNCHANGED <<cikan, bekleyen>>

Hesapla ==
    /\ Bosta /\ yazilim = "serbest"
    /\ Kenar
    /\ okunan' = YOK
    /\ UNCHANGED <<yazilim, erisim, cikan, bekleyen>>

-----------------------------------------------------------------------------
BosAlici(kuyruk) ==
    [state |-> 0, read_ptr |-> 0, write_ptr |-> 0, counter |-> 0, pulse |-> FALSE,
     queue |-> kuyruk, start_pattern |-> <<0, 0, 0, 0>>, start_r |-> FALSE]

BosVerici(kuyruk) ==
    [state |-> 0, read_ptr |-> 0, write_ptr |-> 0, counter |-> 0, pulse |-> FALSE,
     queue |-> kuyruk]

\* The queues hold anything at power-up; what nobody has written is never read.
Init ==
    /\ \E b \in Baytlar :
         /\ verici = BosVerici([i \in 0 .. TX_DERINLIK - 1 |-> b])
         /\ alici = BosAlici([i \in 0 .. RX_DERINLIK - 1 |-> b])
         /\ wb_dat = [tx_full |-> FALSE, rx_empty |-> TRUE, veri |-> b]
         /\ cikan = b
    /\ ctrl = Kapali
    /\ wb_ack = FALSE /\ tx_we = FALSE /\ rx_re = FALSE
    /\ yazilim = "kur" /\ erisim = "ara" /\ bekleyen = 0 /\ okunan = YOK

\* A reset of the chip, one cycle long as the program loader's. uart_rx looks for a start
\* bit also in that cycle; a line that falls just then is left out (README).
Sifirla ==
    /\ ~Dusus
    /\ verici' = BosVerici(verici.queue)
    /\ alici' = BosAlici(RxKuyruk)
    /\ ctrl' = Kapali
    /\ wb_ack' = FALSE /\ tx_we' = FALSE /\ rx_re' = FALSE
    /\ yazilim' = "kur" /\ erisim' = "ara" /\ bekleyen' = 0 /\ okunan' = YOK
    /\ UNCHANGED <<wb_dat, cikan>>

Next ==
    \/ IstekGorulur \/ IslemYapilir \/ Yanit
    \/ Surdur \/ Gonder \/ Al \/ Hesapla
    \/ Sifirla

Spec == Init /\ [][Next]_vars

\* The clock does not stop, and resets do not go on for ever where that matters
\* (CagriBiter).
AdilSpec == Spec /\ WF_vars(Next /\ ~Sifirla)

-----------------------------------------------------------------------------
(* Properties *)

\* The registers keep their widths.
TipDogru ==
    /\ verici \in [state : 0 .. SON, read_ptr : 0 .. TX_DERINLIK - 1,
                   write_ptr : 0 .. TX_DERINLIK - 1, counter : 0 .. BAUD, pulse : BOOLEAN,
                   queue : [0 .. TX_DERINLIK - 1 -> Bayt]]
    /\ alici \in [state : 0 .. SON, read_ptr : 0 .. RX_DERINLIK - 1,
                  write_ptr : 0 .. RX_DERINLIK - 1, counter : 0 .. BAUD, pulse : BOOLEAN,
                  queue : [0 .. RX_DERINLIK - 1 -> Bayt],
                  start_pattern : [1 .. 4 -> {0, 1}], start_r : BOOLEAN]
    /\ ctrl \in {Kapali, Acik}
    /\ wb_ack \in BOOLEAN /\ tx_we \in BOOLEAN /\ rx_re \in BOOLEAN
    /\ wb_dat \in [tx_full : BOOLEAN, rx_empty : BOOLEAN, veri : Bayt]
    /\ yazilim \in {"kur", "serbest", "gonder_durum", "gonder_yaz", "al_durum", "al_oku"}
    /\ erisim \in {"ara", "istek", "veriyolu"}
    /\ cikan \in Baytlar
    /\ bekleyen \in 0 .. SINIR

\* The bytes of a queue from its read to its write pointer.
Icerik(u, derinlik) ==
    [i \in 1 .. (u.write_ptr + derinlik - u.read_ptr) % derinlik |->
        u.queue[(u.read_ptr + i - 1) % derinlik]]

\* The receiver has stored the byte the transmitter has yet to take from its queue.
Cift == verici.state = SON /\ alici.state = 0 /\ ~alici.start_r

Yoldaki ==
    Icerik(alici, RX_DERINLIK) \o
        (IF Cift THEN Tail(Icerik(verici, TX_DERINLIK)) ELSE Icerik(verici, TX_DERINLIK))

\* The driver and the bus: what it has read of the status still holds when it acts on it.
SurucuDogru ==
    /\ ctrl = Kapali => yazilim = "kur" /\ wb_ack = FALSE
    /\ ctrl = Acik /\ yazilim = "kur" => Cyc /\ wb_ack = TRUE
    /\ yazilim = "serbest" => erisim = "ara"
    /\ ~Cyc => wb_ack = FALSE
    /\ tx_we = (Cyc /\ wb_ack /\ yazilim = "gonder_yaz")
    /\ rx_re = (Cyc /\ wb_ack /\ yazilim = "al_oku")
    /\ yazilim \in {"gonder_durum", "gonder_yaz"} => bekleyen < SINIR
    /\ yazilim = "gonder_yaz" => ~TxDolu
    /\ yazilim = "gonder_durum" /\ Cyc /\ wb_ack /\ ~wb_dat.tx_full => ~TxDolu
    /\ yazilim = "al_oku" => ~RxBos
    /\ yazilim = "al_durum" /\ Cyc /\ wb_ack /\ ~wb_dat.rx_empty => ~RxBos
    /\ rx_re => wb_dat.veri = alici.queue[alici.read_ptr]

\* Cycles since the bit on the line began.
Konum == IF verici.counter = 0 THEN BAUD ELSE verici.counter - 1

AliciBos == alici.state = 0 /\ alici.start_r = FALSE /\ alici.counter \in {0, 1}

\* The line has been high.
HatYuksek == alici.start_pattern[3] = 1 /\ alici.start_pattern[4] = 1

\* Before UART_CTRL is written nothing moves.
KapaliDurur ==
    /\ verici.state = 0 /\ TxBos /\ verici.counter = 0
    /\ alici.state = 0 /\ alici.start_r = FALSE /\ alici.counter = 0
    /\ erisim # "ara" => verici.pulse = TRUE /\ alici.start_pattern[4] = 1
    /\ Cyc => alici.start_pattern[3] = 1
    /\ alici.start_pattern[4] = 1 \/ alici.start_pattern[1] = 0

\* No byte on the line, or its stop bit has been received.
Dinlenir ==
    /\ verici.state = 0 \/ (verici.state = SON /\ Konum > 4)
    /\ AliciBos /\ HatYuksek

\* The start bit is being noticed.
Fark ==
    /\ verici.state = 1 /\ Konum < 3
    /\ AliciBos
    /\ \A i \in {3 - Konum, 4 - Konum} : alici.start_pattern[i] = 1
    /\ \A i \in 5 - Konum .. 4 : alici.start_pattern[i] = 0

Farkedildi ==
    /\ verici.state = 1 /\ Konum = 3
    /\ alici.state = 0 /\ alici.start_r = TRUE
    /\ alici.counter = BAUD /\ alici.pulse = TRUE

\* The receiver runs four cycles behind the transmitter: in the fifth cycle of a bit it has
\* the same state and reads the line.
Izler ==
    /\ verici.state > 0
    /\ verici.state = 1 => Konum > 3
    /\ verici.state = SON => /\ Konum < 5
                             /\ Konum > 0 => alici.start_pattern[4] = 1
                             /\ Konum > 1 => alici.start_pattern[3] = 1
    /\ alici.start_r = TRUE
    /\ alici.state = IF Konum < 5 THEN verici.state ELSE verici.state + 1
    /\ alici.counter = IF Konum < 4 THEN Konum + BAUD - 3 ELSE Konum - 4
    /\ alici.pulse = (Konum = 4)

\* Transmitter and receiver stay in step, although each counts its own bit times.
HatDogru ==
    /\ ctrl = Kapali => KapaliDurur
    /\ ctrl = Acik => /\ verici.pulse = (verici.counter = 0)
                      /\ Dinlenir \/ Fark \/ Farkedildi \/ Izler

\* The bits received are those of the byte being sent.
VeriDogru ==
    alici.start_r => \A k \in 0 .. BIT - 1 :
        k + 2 < alici.state =>
            alici.queue[alici.write_ptr][k] = verici.queue[verici.read_ptr][k]

TxSay == (verici.write_ptr + TX_DERINLIK - verici.read_ptr) % TX_DERINLIK
RxSay == (alici.write_ptr + RX_DERINLIK - alici.read_ptr) % RX_DERINLIK

\* What is sent is in the queue, and no byte unread is run over.
SayiDogru ==
    /\ verici.state # 0 => ~TxBos
    /\ bekleyen = RxSay + TxSay - (IF Cift THEN 1 ELSE 0)

\* The inductive invariant.
IInv == TipDogru /\ SurucuDogru /\ HatDogru /\ VeriDogru /\ SayiDogru

Kuyruk == INSTANCE SeriKuyruk WITH kuyruk <- Yoldaki

\* The whole way of a byte, from zputchar over both queues and the line to zgetchar, is a
\* queue: with the pointers wrapping, the receiver's sampling shifted against the bits and
\* reads between the bits, no byte is lost, doubled, reordered or changed.  Only a reset of
\* the UART may empty the queue.
KuyrukUygular == Kuyruk!KuyrukSpec /\ [][~Sifirla => Kuyruk!Aktar]_(Kuyruk!kuyruk_vars)

\* Once the resets have stopped, zputchar and zgetchar return: a full queue drains, a byte
\* sent arrives.
CagriBiter ==
    <>[][~Sifirla]_vars => ((yazilim # "serbest") ~> (yazilim = "serbest"))

=============================================================================
