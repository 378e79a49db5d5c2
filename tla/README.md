# tekno-kizil with QSPI: a TLA+ verification project

The repository holds `tekno-kizil`, a RV32IMC system on chip written in Verilog: a
three-stage core (fetch, decode, execute with write-back behind it) with extension
instructions, a level-1 instruction cache, a level-1 data cache, one main memory with a
UART program loader, and a small Wishbone-like bus with a UART, a QSPI flash controller and
a PWM controller. Comments and signal names are Turkish; this project keeps them.

The design is synchronous and has one clock. **One step of a model is one clock edge** of
the parts it contains; combinational signals are operators over the state, registers are
variables, and an input another part chooses is picked with `\E` (or `\in` on a primed
variable). A reset (`Sifirla`) is possible in every state.

Paths below are relative to `src/verilog-tasarimi/` unless they start with `vivado/`.

## 1. Inventory

| Part | State | Operations | Talks to |
|---|---|---|---|
| Data cache `bellek/veri_onbellegi_denetleyici.v`, RAMs in `user_processor.v` | FSM `durum_r`, reset counter, address and data latches, per row two ways (valid, dirty, tag, word) and an lru bit | clear a row, load/store hit, miss over clean or dirty victim, fill, write-back | load/store unit by `l1v_*`, arbiter by `iomem_*` |
| Instruction cache `bellek/buyruk_onbellegi_denetleyici.v`, `tag_denetleyici.v` | FSM, valid bits, even and odd tag bank, low and high data RAM | fill the first or second row of a fetch, hand out 32 bits from any half-word | fetch by `l1b_*`, arbiter |
| Arbiter `bellek/anabellek_denetleyici.v` | switch register | route the memory port | both caches, wrapper |
| RAM wrapper `vivado/cevreleyici/teknofest_wrapper.v` | 16-cycle delay line, 64-bit timer | read, write, acknowledge, timer read | arbiter, RAM |
| RAM and loader `vivado/cevreleyici/teknofest_ram.v` | RAM, loader FSM, byte counters | store a program received by UART, reset the chip | wrapper, pin |
| Fetch `cekirdek/boru_hatti/getir/getir.v` | pc, return-address stack, pipeline register | next address, expand compressed instructions | instruction cache, predictor |
| Predictor `.../dallanma_ongorucu.v` | history, counters, target tables | predict, check, repair | fetch, execute |
| Hazard unit `cekirdek/denetim_durum_birimi.v` | start-up counter, copies of rd | forward, stall, flush | all stages |
| Decode, register file | pipeline register, 32 registers | decode, read | fetch, execute |
| Execute `.../yurut/*.v` | pipeline register, divider, multiplier, accelerator registers | ALU, branch, multiply, divide, crypto, convolution | load/store unit, predictor |
| Load/store unit `.../bellek_islem_birimi.v`, selection in `islemci_belleksiz.v` | none | mask, address, byte selection; choose cache, timer or bus | data cache, bus |
| Bus `veriyolu/wishbone_master.v`, `veriyolu.v` | FSM, `sec_r` | stall, strobe, select a slave | load/store unit, slaves |
| UART `cevre_birimleri/uart/*.v` | two FIFOs, shift registers, baud counters, acknowledge | control, data in and out, status | bus |
| SPI `cevre_birimleri/spi/spi_denetleyici.v` | command FSM, bit and byte counters, prescaler, CCR, address, eight data registers, acknowledge | register access, flash command | bus, flash |
| PWM `cevre_birimleri/pwm/*.v` | twelve registers, two counters, acknowledge | register access, standard and heartbeat mode | bus |

### What is hard, and what correctness means

* **Data cache.** The controller remembers nothing of the request it serves. A miss is a
  sequence of up to two memory accesses after which the *core* repeats the request, which
  must then hit. Correct: it behaves as a plain memory; a dirty line is never lost; a clean
  line equals the RAM; both ways never hold the same tag; every request ends; all of this
  from RAMs that power up with anything in them, and with a reset in any cycle.
* **Instruction cache.** A 32-bit fetch may start in either half of a word, so it needs two
  rows at once, from two tag banks with one port each, and may take two fills of which the
  second must not undo the first. Correct: what comes out is the program, also after the
  loader wrote another one and only the valid bits were cleared.
* **Bus.** Address, data and mask are those of the instruction in execute, and the stall is
  computed from the select of the cycle before. Three slaves acknowledge by three different
  rules and share one strobe. Correct: an access leaves execute after its slave performed
  it, exactly once where that matters (UART FIFOs); nothing is performed that no
  instruction asked for; a flash command has ended when the store that starts it has;
  every access ends.
* **Arbiter, wrapper, loader.** A ready of one access must not answer another, across a
  switch of caches, a timer read and the loader's reset.
* **Pipeline.** A value may be in the register file, on its way to write-back, in execute, or
  nowhere yet (a product); the register behind execute is written in every cycle of a
  division; a jump is checked two instructions after it was fetched; four stalls overlap.
  Correct: what retires is the program in its order, each instruction with the operands its
  predecessors left, and no two stalls wait for each other.
* **UART.** Two queues and a line between two bit clocks of which one is put in place by
  hand; software polls flags that are a cycle old. Correct: what is read is what was written,
  in order, once; both calls of the driver return.
* **Multi-cycle units.** Each ends, with the right value, also when the pipeline stalls
  around it and starts it over.

## 2. Modules

| Module | Models | Proofs |
|---|---|---|
| `BellekTanimlari` | word addresses (tag, row), words of byte lanes, requests of the load/store unit | |
| `Bellek` | abstract: the memory the data side promises | |
| `VeriKapisi` | abstract: what the data cache does at the memory port | |
| `VeriOnbellegi` | the data cache, refines `Bellek` and `VeriKapisi` | `VeriOnbellegiProofs` |
| `GetirmeKapisi` | abstract: what the instruction cache does at the memory port | |
| `BuyrukOnbellegi` | the instruction cache, refines `GetirmeKapisi` | `BuyrukOnbellegiProofs` |
| `Veriyolu` | the bus master, the handshake of its three slaves, execute's side of it | `VeriyoluProofs` |
| `SpiDenetleyici` | the QSPI controller: commands bit by bit, prescaler, registers, acknowledge | `SpiDenetleyiciProofs` |
| `BellekSistemi` | both caches' memory sides, arbiter, RAM with its delay line, timer, start-up and stalls, loader and its reset; refines `VeriKapisi` and `GetirmeKapisi` | `BellekSistemiProofs` |
| `BoruTanimlari` | registers, addresses, instructions and what they mean, for the two modules below | |
| `Mimari` | abstract: a machine that performs one instruction after the other | |
| `Boruhatti` | fetch, predictor's check, decode, execute, write-back, hazard unit; refines `Mimari` | `BoruhattiProofs` |
| `SeriKuyruk` | abstract: a queue of bytes | |
| `Uart` | transmitter, receiver, registers and the driver's two calls; refines `SeriKuyruk` | `UartProofs` |
| `Bolme` | the divider in execute | `BolmeProofs` |
| `YapayZeka` | the convolution accelerator in execute | |
| `MC...` | instances for TLC | |

### VeriOnbellegi

`satir` is the five RAMs of `user_processor.v` as one function of rows; `durum`, `counter`,
`iomem_addr` and `iomem_wdata` are the registers of the same name; `istek` is what the
load/store unit drives on `l1v_*` this cycle and `l1v_veri` what it was handed with the
last load. Each action is one branch of the controller's `case (durum_r)`: `SatirTemizle`
(RESET); `Bosta`, `OkuIsabet`, `YazIsabet`, `YazTemizKurban` (BOY, core let go);
`KirliKurban`, `TemizKurban` (BOY, miss); `OkuDoldur`, `YazDoldur` (BELLEK_OKU, ready);
`GeriYazSonraOku`, `GeriYazKelime` (BELLEK_YAZ, ready). `YazmaIslenir` is the RAM taking the
write before it says ready; the wrapper's delay is any number of stuttering steps.

The core's part is its contract: it holds a request while `l1v_durdur_o` is up
(`UNCHANGED istek`) and presents any request, or none, when it falls (`Birak`). That
contract is the pipeline's stall of execute. No request is there in RESET, because
the hazard unit stalls the core for 256 cycles after a reset; it counts in step with the
reset loop, so the core may present its first request at the edge of the last row.

`Bellek` says what this promises. A store is in the abstract memory from the moment it is
presented, a load retires with the contents at its address, and a reset promises nothing
(dirty lines are dropped). The refinement mapping `Gorunen` is: the hitting way, else the
RAM, with the held store laid over its line. Laying it over is idempotent, which is why the
several stages of a store (merged by the fill, and again by the retry) map to stuttering.

`VeriKapisi` is the other side, the memory port. There the rows are gone; of a request is
left which accesses it still needs and with what address and data (`KapiIstegi`: nothing, a
read, a write-back and a read, or a write-back alone), and every answer takes one away. That
the retry hits, that a write-back carries the victim's own word and that no third access is
made is in the shape of `VeriKapisi`; that the rows keep to it is `KapiSpec`.

### BuyrukOnbellegi

`state`, `valid`, `tage`, `tago`, `ram512d0`, `ram512d1` are the Verilog's; `ps` is the
fetch address split as `TAG`, `ADR` and bit 1. The fill is one step at the edge of
`iomem_ready`. `Getir` is the core taking the instruction and going anywhere next. `Sifirla`
clears the valid bits only and may find another program in the RAM. Row arithmetic keeps its
width (`DataAddr0` is modulo the number of rows).

`GetirmeKapisi` is its memory port: of a fetch are left the halves it misses and where they
are read (`Eksik`, `KapiGetirmesi`); a fill takes its half away and leaves the other alone.

### Veriyolu

`state` and `sec_r` are the master's registers, `ack` the slaves' acknowledges, `spi` what
the bus sees of the SPI controller (busy, CCR written, end reported, and whether its
command can end). `buyruk` and `durdu` are execute: every instruction puts an address and a
mask on the bus, few are bus accesses (`vy`), and the fetch may not be ready. `kez` counts
how often each slave performed something for the instruction in execute (history,
capped at `KezSiniri` = 2). `Saat` moves all of them at once, as a clock edge does. Its
three disjuncts are the SPI controller idle, running a command, and ending it.

Abstracted: a flash command is one busy state of any length (its bits and counters are in
`SpiDenetleyici`), the prescaler is 0, register contents do not matter to the handshake.

Two assumptions about software are explicit because the code needs them:

* `ArdArdaErisim = FALSE`: no bus access is selected in the cycle right after another one.
  The run `veriyolu_ardarda` shows what happens otherwise.
* `SpiKurali`: software that uses the SPI controller makes no write at offset 0 of another
  controller, because the SPI controller would take it for a command (section 6, 3).

Also left to software: it does not access the fourth slave address and does not write the
PWM outputs (both hang the core; the hazards list has them), and commands it issues end.

### SpiDenetleyici

The variables of the same name are the registers; `ccr` is `QSPI_CCR` by its fields, `dr` the
data registers as words of *named* bits: `<<"dr", 5>>` is bit 5 of what software stored,
`<<"flash", 5>>` the fifth bit of the flash's answer. So a bit lost, repeated or shifted
shows, whatever the data. `istek` and `ara` are the bus master's side: it holds an access
until the acknowledge and leaves the strobe low for two cycles after it (module `Veriyolu`
says why). Histories: `komut` (what the running command was started with), `giden` (the bits
that stood on data pin 0 in INST and WRITE), `saat` (bit times since chip select), `islendi`.

A step is the conjunction of the controller's three clocked blocks, as in the source: the
prescaler (`Bolucu`), the bus side (`AckSonraki`, `Yazmaclar`) and the command FSM, of which
each branch is an action: `Bosta`, `Baslat` (IDLE), `Bekle` (`clock_en` low), `InstGonder`,
`InstBiter`, `DummySay`, `DummyBiter`, `VeriYaz`, `VeriYazBiter`, `VeriOku`, `VeriOkuBiter`.
Two blocks write the registers, but one does so in IDLE only and the other outside it.
`QSPI_CCR` is written by a blocking assignment, so the prescaler may see its old or its new
value at that edge: a choice in `Bolucu`.

Software is held to `OnBolucuVarsayimi`: a write enable has a prescaler of at most 3. The
acknowledge flag of a command goes down with the next `clock_en`; every other command sets
the prescaler back to 0, but a write enable keeps its own, and from 4 on the flag is still
up when the next access comes, which is then acknowledged and not performed. The bound is
exact: TLC finds that access when the assumption is dropped and a write enable has 4.

Left out: the clock pin (for prescaler 1 it is `clock_en`; above, a free-running toggle the
hazards list names), data pins 1 to 3, the value a load returns, `QSPI_STA` (never set).

### BellekSistemi

The composition around the one memory port. `switch`, `ram_ready`, `ram_shift_q`, `ram_data`,
`state_prog` and the `prog_*` variables are the registers of those names; `bellek` is the RAM,
`l1b` and `durum` the FSMs of the two caches, `l1v_sayac` and `sayac` the start-up counters of
the data cache and of the hazard unit, which run apart from each other. `Kenar` is a clock edge
of everything but the loader and moves all units at once: `BuyrukTarafi`, `VeriTarafi`, `Yurut`,
`SwitchSonraki`, `GecikmeSonraki`, `Ram`. The combinational signals between them (`GtrHazir`,
`YrtDurdur`, `L1vDurdur`, `RamSecili`, `RamAddr`, `IomemReady`, ...) are operators of the same
names. `Ilerler` is the negation of `gtr_durdur_o` and `cyo_durdur_o`.

What the caches hold is abstracted to what they will ask for: `getirme` has the words a fetch
reads and which of them it misses, `istek` the memory accesses an instruction needs (`isabet`
none, `oku` a read, `yazoku` a write-back and a read, `yaz` a write-back). A request that was
served becomes `isabet`: the retry hits. `diger` is any instruction that keeps execute busy
without this port (bus, divider, a dependence on a product), for any time. The victim's
address differs from the request's, as the tags do.

That this is what the caches do is not taken on trust. `VeriKapisi` and `GetirmeKapisi` say
it, each cache implements its one (`KapiSpec`), and this module uses both in no other way
(`KapilarUygun`): the core lets go of a request or a fetch only when nothing of it is left,
no request meets the reset loop, and an answer reaches a cache only for the access it has on
the port. So what a cache is checked under (its core's contract) is what is shown here, and
what this module assumes of the caches is what is shown there. That the RAM writes what it
acknowledges and returns the word asked for is `YazmaIslendi` and `OkunanDogru`.

The loader's start sequence and length change nothing here and are part of `SequenceWait`;
`prog_kalan` is the number of words to come. Its reset (`YukleyiciSifirla`) lasts one cycle and
reaches everything but the delay line, the RAM and the loader; the button's (`DisSifirla`)
reaches the delay line too. Timer value, byte strobes (the cache writes words only) and
addresses outside the RAM and the timer are left out.

### BoruTanimlari, Mimari, Boruhatti

The variables are the registers between the stages (`cyo_*`, `yrt_*`, `gy_*`), the register
file, the predictor's two-stage memory of what it said (`tahmin_et`, `ongorulen`), and the
hazard unit's `durmus`, `sayac`, `bos_basla`. `Cevrim` is a clock edge of all of them, the
conjunction of one operator per `always` block (`Getir`, `Ongorucu`, `CozYazmacoku`, `Yurut`,
`YazmacYaz`, `Denetim`); its actions differ in what the surroundings do in that cycle:
`Ilerle` (fetch and execute ready), `GetirBekler` (a miss), `YurutBekler` (a division or
memory access goes on), `Sifirla`. The combinational signals have the source's names:
`GtrDurdur`, `CyoDurdur`, `YrtDurdur`, `YonlendirGecersiz`, `Durmali`, `Hata`, `Bosalt`.

What an instruction computes is a parameter: `Hesap`, `Kosul`, `Hedef`, `Baglanti` are
operators of the instruction and its operands, and an instruction is a record of the fields of
the microinstruction the stages look at (unit, kind of jump, registers, size). `Program` says
which instructions each address may hold, so an instruction that retires at the wrong
address shows. The predictor may say anything its tables can make it say (`Ongorular`):
correctness must not rest on it. A unit that is not done shows `Belirsiz`, the x of the
Verilog, which the register behind execute does take, and which must never become an
operand. Histories: `cyo_gercek` and `yrt_gercek` (not a bubble), `emekli_yazmaclar` (the
registers as retired instructions left them), `son` (what retired in this step).

`Mimari` has a program counter and the registers. `EmekliPs`, the address of the oldest
instruction underway, is the mapping of its program counter; a cycle in which nothing
retires is its `Bekle`, a reset its `YenidenBasla`.

### SeriKuyruk, Uart

`verici` and `alici` are the registers of `uart_tx` and `uart_rx` with the queues in them;
`ctrl`, `wb_ack`, `tx_we`, `rx_re`, `wb_dat` those of `uart_denetleyici`. `Kenar` is a clock
edge of the three; the actions are the driver around it: its access reaches the master
(`IstekGorulur`), is performed (`IslemYapilir`), is acknowledged and used (`Yanit`), and
`zputchar` and `zgetchar` of `uart_driver.c` with their polling loops go on (`Surdur`) or are
called (`Gonder`, `Al`). The output is wired to the input, so the bytes travel through
everything. Queue pointers wrap at the depth, a bit lasts `BAUD + 1` cycles, the start bit
is found by the four-cycle pattern, and bits are written into the queue as they come.

The refinement mapping `Yoldaki` is what lies between the pointers of the receive queue, and
behind it of the transmit queue; a byte the receiver has completed while its stop bit is
still being sent lies in both and is counted once (`Cift`).

Software is held to `KullanimVarsayimi`: `BAUD >= 4`, since a start bit is noticed late and
shorter bits are read from their neighbours, and fewer unread bytes than the receive queue
has cells, which nothing checks.

### Bolme

The divider's registers by their names, with execute around it: an instruction stays while
the divider is not done or the fetch is not ready, and a division that ends while the fetch
is not ready is started over, as `cevrim_r` says. Numbers keep their widths (`% Sinir`,
`% (2 * Sinir)`), two steps of shift-and-subtract a cycle and half of the last one.
`SonucDogru` states the rule of the RISC-V manual (`RiscvSonucu`: quotient and remainder give
the dividend, the remainder is smaller than the divisor and has the dividend's sign, and the
two special cases), not another way to compute it. `IkiUs` is the table of powers of two the
widths are counted in.

### YapayZeka

Both register files with their pointers, every instruction of the extension, the run
counter. The second value of a load at the last register is a choice: simulation drops a
write out of range, hardware may take the address's low bits. The products themselves are
the multiplier's.

## 3. Runs

| Run | Instance | Shows |
|---|---|---|
| `veri_tek` | 1 row, 3 tags, 2 lanes of 2 values, byte and word stores | `IInv`, `TemizTutarli`, `KirliKaybolmaz`, and that the cache implements `Bellek` (`SoyutSpec`) |
| `veri_iki` | 2 rows, 3 tags, no data | `TekIsabet`, that the cache implements `VeriKapisi` (`KapiSpec`) and, under fairness, `IstekBiter` |
| `buyruk` | 4 rows, 2 tags, 2 programs | `IInv`, `TagSecimi`, `DogruBuyruk`, `DogruIlkYari`, that the cache implements `GetirmeKapisi` (`KapiSpec`) and, under fairness, `GetirmeBiter` |
| `buyruk_sayfa_sonu` | same | **violated** `HizasizOkunur`, see section 6 |
| `veriyolu` | 2 programs: UART+PWM, and SPI with the rest | `IInv`, `TamIslenir`, `YalnizErisim`, `KomutBitmis`, `ErisimBiter` |
| `veriyolu_ardarda` | SPI accesses back to back | **violated** `TamIslenir` |
| `spi` | single-channel reads of 1, 3 and 4 bytes, writes of up to a word, prescalers 0 and 1; write enable with prescalers up to 3 | `IInv`, `ErisimTam`, `KomutGonderildi`, `OkunanDogru`, `ErisimBiter` |
| `bellek` | delay line of 2, counters to 7, 2 words of 2 values | `IInv`, `TekErisim`, `OkunanDogru`, `SifirlamadaBos`, `PortSabit`, `YazmaIslendi`, that both caches are used as `VeriKapisi` and `GetirmeKapisi` say (`KapilarUygun`) and, under fairness, `ErisimBiter` |
| `boruhatti` | 3 registers of 2 values, 6 addresses, 11 instructions of every unit and kind of jump | `IInv`, `YazmacDogru`, `MimariUygular` and, under fairness, `Ilerler` |
| `uart` | bytes of 2 bits, queues of 2 and 3, 5 cycles a bit, up to 2 bytes unread | `IInv`, `KuyrukUygular` and, under fairness, `CagriBiter` |
| `bolme` | every division of two 4-bit numbers | `SonucDogru` and, under fairness, `BolmeBiter` |
| `yapay_zeka` | the real 16 registers | **violated** `KosuBiter`, see section 6 |

**Why the bounds are enough.** Rows of the data cache do not interact except through the
one request, so one row with one tag more than ways meets every kind of victim, and two
lanes with a one-lane and a full store meet every merge; the second run gives the reset loop
and the changes between rows something to go wrong with. RAMs start full of valid, dirty
lines with equal tags, the worst the power-on can be. Four rows of the instruction cache are
two per bank: every parity of the two rows looked up, and the wrap. Two tags and two
programs make every row wrong for some fetch, and half-words are numbered so that no two are
alike. The bus model is finite as it stands, but for `KezSiniri`. The SPI model has words of
four bits, bytes of two and two data registers: enough for a word boundary inside a
transfer, a short word, and a register the transfer must leave alone; its counters keep
their wrap-around (`SayacGen`, `KelimeGen`). `TelSiniri` and `SaatSiniri` bound the histories
beyond any command that ends. The memory system has a delay line of two stages (a stage that
is shifted into and one that is answered from; the real one has 16), start-up counters to 7,
longer than a fetch takes, so that the first instruction may be ready before they end (the
real ratio is 255 to 18), and two words, enough for a victim and a request, for a fetch of two
words, and for the loader to write the word the port is busy with. The pipeline holds three
instructions, so any interplay needs at most three of them and a register besides x0 for
each way a value may come; two registers of two values, every unit, every kind of jump and
different instructions at each address meet all of them, and six addresses let a wrong path
be as long as the pipeline. The UART's queues are as short as they can be and still hold a
byte (2) and two unread ones (3), so that pointers wrap and the transmit queue is full most
of the time; two bits are a first and a last one; 5 cycles a bit is the shortest the code
allows and the hardest. Four-bit operands have every pair of signs, zero, and the most negative
number by minus one; the divider's last half step is among its four. For all other sizes there
are the proofs of section 5.

`veri_tek` has the view `Gorus`: the two latches are hidden outside BELLEK_OKU/BELLEK_YAZ,
where nothing reads them before they are written, and so is `l1v_veri`, which no guard reads
and which each step sets from other variables or leaves alone; the properties are of such a
form that they hold for one of its values iff they hold for all.

No run switches the deadlock check off.

**Resets of the abstract modules.** `Bellek`, `VeriKapisi`, `GetirmeKapisi`, `Mimari` and
`SeriKuyruk` have a step that forgets what is underway. Left free it would excuse a loss
that has nothing to do with a reset, so each refinement has a second conjunct: a step of the
code that is no reset is one of the abstract module's other steps, or a stutter
(`[][~Sifirla => Kuyruk!Aktar]_(Kuyruk!kuyruk_vars)` in `KuyrukUygular`, and alike in
`SoyutSpec`, `MimariUygular`, `KapilarUygun` and both `KapiSpec`). The theorems prove both
conjuncts.

**Fairness.** The clock does not stop, so a step the registers determine is weakly fair.
The RAM answers (`WF(BellekYaniti)`; the wrapper raises ready a fixed number of cycles after
the request) and a flash command that can end ends (`WF(SpiBiter /\ Kenar)`; its counters
count down). In `BellekSistemi` the clock edge itself is fair, at which the loader receives
nothing (`WF(Kenar /\ Sessiz)`), and so is the reset it ends in; nobody has to load a program
or to finish loading one. `Boruhatti` takes `WF(Ilerle)`: again and again fetch and execute are ready in one cycle.
That is what the other modules show of their units: a miss ends and the cache then holds its
answer while the address stays (`GetirmeBiter`), an access ends and stays answered, and a
division that is started over because the fetch was not ready ends in a cycle in which it is
(`BolmeBiter`, which in turn assumes that a fetch that is ready stays ready while the address
is held: `WF(Saat /\ hazir')` of `Bolme`). In `Uart` only the clock is fair
(`WF(Next /\ ~Sifirla)`), and `CagriBiter` speaks of behaviours in which resets end.
Nothing else is fair: the core may sit in a fetch for ever, resets may or may
not come. `GetirmeBiter` is stated for behaviours in which resets end, `IstekBiter` and
`ErisimBiter` allow a reset to take the request away.

## 4. Properties and hazards

`PROJECT.json` lists the hazards at their lines and the properties that stand guard. Each
property has a mutant, an operator with the plausible bug next to the definition it changes,
that makes its run fail.

## 5. Theorems

All hold for every value of the constants under the named assumptions of the modules.

* `VeriOnbellegiProofs`: `IInv` is inductive, and gives `TipDogru`, `TekIsabet`,
  `TemizTutarli`, `KirliKaybolmaz` and `TekrarIsabet`. `TemizTutarli` alone is not
  inductive: a fill is only right if the latched address is the request's
  (`BeklemeTutarli`), a write-back only if the latched data is the victim's, a victim only
  means something if a dirty line is valid (`KirliGecerli`), and the rows mean something
  only behind the reset loop (`ResetTutarli`). `TekIsabet` needs that the request still
  misses while the controller waits, since the fill does not look again.
  `SoyutTeoremi == Spec => SoyutSpec` is the refinement of `Bellek`, with a lemma per action
  that says what happens to `Gorunen`: unchanged, or one store applied. `KapiTeoremi ==
  Spec => KapiSpec` is that of `VeriKapisi`, from the same invariant.
* `BuyrukOnbellegiProofs`: `TagSecimi` follows from arithmetic on parities alone (it is the
  table of examples in `tag_denetleyici.v`'s closing comment, for every row). `IInv` adds
  that a valid row holds the word its tag names, that the first fill is for a half that is
  missing (`IlkOkuma`) and that the second starts with the first half present (`IkinciOkuma`).
  `KapiTeoremi` is the refinement of `GetirmeKapisi`; its heart is that the two rows of an
  unaligned fetch are never the same one (`SatirAyri`), so that neither fill undoes the other.
  `DolumIsabet` says the same of the rows directly.
* `VeriyoluProofs`: under `ArdArdaErisim = FALSE`, `IInv` is inductive. It splits by the
  master's state: in IDLE nothing is left of the last access but a PWM read acknowledge that
  lasts a cycle too long, and an access selected there is new; in BUS the acknowledge of the
  slave addressed means it has performed. `YalnizErisim`, `TamIslenir` and `KomutBitmis`
  follow.
* `BellekSistemiProofs`: `IInv` is inductive. `PortTutulur` says why the port has one user:
  while the data cache is on it the fetch is complete and a data request in execute, which
  holds everything. `HazirAit` says whose a ready is: one that is anywhere on its way belongs
  to the access on the port, because an unanswered access stays (`PortKalir`), an answer
  empties the line, and a reset hands the port to the first fetch. `TekErisim`, `PortSabit`,
  `IstekTutulur` and `OkunanDogru` follow, and `YazmaIslendi` with the loader's words never
  coming in two cycles in a row. `ErisimUyar` and `DolumUyar` say that the access underway is
  the next one its request or fetch needs; with them `KapilarTeoremi` shows that every clock
  edge and every reset is a step of both interfaces, or a stutter. Together with the two
  `KapiTeoremi`s it closes the argument: the abstraction of the caches here is proved, and so
  is the contract of the core that either cache is proved under. `IstekTutulur`,
  `TekrarIsabet` and `DolumIsabet`, the parts of that argument in terms of one module each,
  are theorems; the runs check the interfaces, which imply them.
* `BoruhattiProofs`: `IInv` is inductive, for every instruction set, arithmetic, memory,
  cache and predictor. `YazmacDogru` says that write-back and register file together show what
  the last retired instruction left in every register but the one execute is about to write;
  it is not inductive alone: a bubble must write nothing (`KabarcikBos`), execute must hold the
  operands its predecessors left (`IslenenDogru`), a product that decode has waited for must
  stand behind the multiplier (`CarpmaBekler`), and the address behind an instruction that
  was not said to jump must be the next one (`YolDogru`). `MimariTeoremi` is the refinement:
  a retiring instruction is a step of `Mimari`, a repaired prediction leads where the
  instruction leads, and everything else stutters.
* `SpiDenetleyiciProofs`: `IInv` is inductive under `OnBolucuVarsayimi`. `KomutSurer`: a command
  belongs to the store on the bus, which is held. `BayrakIner` counts the cycles from a
  command's end to the next access against the prescaler (`Yakin`): the acknowledge flag is
  down, and the acknowledge it raised, before the strobe comes back. `ErisimTam` follows.
  `TipTeoremi` covers the shift register: words stay words, counters stay in their widths.
  The second half of `IInv`, `Aktarim`, is about the data, and holds under `KomutSinirli`:
  one channel, a write of up to a word, a read of up to all registers, a write enable with
  `flash_yaz`. Outside of it the code does not keep the two properties (section 6), so it is
  a hypothesis of the theorems, not an assumption; the `spi` instance satisfies it.
  `Gonderilir`: what is on the wire, followed by what is left in the shift register, is what
  the command has to send. `Alinir`: the shift register is a window on the flash's bits that
  ends at the last one taken, and a word ends when the bits still to come are a multiple of a
  word, so the first word is the short one (`SozcukTamam`). `KomutGonderildiTeoremi` and
  `OkunanDogruTeoremi` follow, since an acknowledged command is one that is done (`Yapildi`).
* `UartProofs`: `IInv` is inductive under `BoyVarsayimi` and `KullanimVarsayimi`. `HatDogru`
  gives a byte on the line four phases: nothing is sent (`Dinlenir`), the start bit is being
  noticed (`Fark`), it has been (`Farkedildi`), and from then on the receiver is four cycles
  behind the transmitter until it has taken the stop bit (`Izler`). This is where a divisor
  of four is needed. `VeriDogru` says that the bits received so far are those of the byte in
  the transmitter, `SayiDogru` that the program's count of unread bytes is the fill of both
  rings, from which no ring runs over, and `SurucuDogru` that the status the driver has read
  still holds when it acts on it. `KuyrukTeoremi` is the refinement: the contents of a ring
  are a sequence (`Dolgu`), a write appends to it (`DolguEkle`), a step of the read pointer
  takes its head (`DolguCek`), and the moving of a byte from one ring to the other, which
  takes two steps, leaves the two in a row as they are (`Akis`). Only a reset empties it.
* `BolmeProofs`: `SonucDogru` for every width under `GenislikVarsayimi`. The loop invariant
  `Bolundu` reads the registers after `n` of the `W` steps as `(q * d + fark) * 2^(W+1-n) + l = a`
  (`q` the quotient so far, `fark` the partial remainder, below `d`, and `l` the bits of the
  dividend still to come, at the top of the register whose bottom is the quotient), and a
  step keeps it; the signs are put back behind the last one. The proof needs of `IkiUs` only
  its equation, which is had by induction on a set (`Tumevarim`, from the library's theorem
  that `<` on the naturals is well-founded). TLC checked `IInv` for widths of 2, 4 and 6.

Only model-checked: the liveness properties (`IstekBiter`, `GetirmeBiter`, `ErisimBiter`,
`Ilerler`, `CagriBiter`, `BolmeBiter`), which rest on fairness and `ENABLED`.

## 6. Disagreements found

`PROJECT.json` has them with the lines they contradict. Those with a run name it; the
others can be seen with the change to an instance that is given here.

1. **Fetch over the last row** (`buyruk_onbellegi_denetleyici.v:50`, run `buyruk_sayfa_sonu`).
   An unaligned 32-bit fetch at the last half-word of a 2 KB block takes its second half from
   the start of the same block, not the next one.
2. **Back-to-back bus accesses** (`wishbone_master.v:68`, run `veriyolu_ardarda`). The second
   of two consecutive accesses leaves execute without having been performed, and the bus
   cycle it started runs with the next instruction's address and mask.
3. **Shared strobe** (`spi_denetleyici.v:155`; `Programlar <- MCYalnizUartPwm` in
   `MCVeriyolu.cfg` violates `SpiYalnizErisim`). The SPI controller performs accesses meant for
   the other controllers.
4. **Dual and quad mode** (`spi_denetleyici.v:96`; `Komutlar <- MCKanallar` in
   `MCSpiDenetleyici.cfg` violates `ErisimBiter`). Such commands never end.
5. **After a write enable** (`spi_denetleyici.v:211`; `Komutlar <- MCDemo` violates
   `KomutGonderildi`) without `flash_yaz` the next command's instruction is not driven onto
   the pins.
6. **Page program** (`spi_denetleyici.v:248`; `MCDemo` without its write enable). Of a write of
   several words the first is sent twice and the last never.
7. **After the loader's reset** (`vivado/cevreleyici/teknofest_wrapper.v:120`; invariant
   `YeniKodCalisir` in `MCBellekSistemi.cfg`). The delay line survives it. If an access was
   about to be answered, the first fetch of the new program is acknowledged in its first
   cycle and takes the old access's word.
8. **Programming a running core** (`vivado/cevreleyici/teknofest_ram.v:58`). Nothing stops the
   core meanwhile; a line it evicts after the loader has passed it overwrites the program.
9. **Size and dummy cycles** (`spi_denetleyici.v:217`, `:229`): the size is the number of
   bytes, not one less, and one more dummy cycle passes than asked for.
10. **conv.run** (`yapay_zeka_hizlandiricisi.v:29`, run `yapay_zeka`) never ends: a four-bit
    counter is compared with 17.
11. **conv.run's result** (`yurut.v:166`) comes from the register behind the multiplier as a
    product does, but the stall for products leaves it out. Not reachable because of 10.
12. **The accelerator and its C reference** (`yapay_zeka_hizlandiricisi.v:28`) treat numbers of
    loaded values differently.
13. **The predictor's counters and history pointer** (`dallanma_ongorucu.v:93`) are moved by
    jumps too, and do not return where the comment says. Only the hit rate depends on it.
14. **The receiver's start detection** (`uart_rx.v:80`) is outside the reset and the enable: a
    byte nobody sent may be received.
15. **The receive queue** (`uart_rx.v:66`) does not look at its own full flag: one byte too many
    unread empties it.

## 7. Not modelled

The program is the Verilog; the C and Python files of the repository are test programs for
it, headers copied into each of them, and simulation drivers, and are read for what they
assume of the hardware. Of the hardware these parts are left out:

* Predictor tables, history and return stack, and the expansion of compressed instructions:
  the pipeline is right for every prediction and every instruction set, which is what their
  state can influence. Their quality is a matter of performance.
* Decoding as a table, the ALU, the crypto unit, the selection of loaded bytes: stateless
  functions of bits, for which unit tests are the better tool. The generated adder and
  multiplier netlists likewise.
* The PWM controller's registers and two modes: one output each, no one waits for them. Its
  side of the bus is in `Veriyolu`.
* The loader's byte protocol: what it can do to a running system, its words and its reset,
  is in `BellekSistemi`. A lost byte shifts the program and nothing notices (hazards list).
* Both caches' contents in one model, as FENCE.I would need: it is a NOP, and code that
  writes code is not supported by it (hazards list).
* The SPI clock pin for prescalers above 1, and data pins 1 to 3.
* The vendor's flash model and the simulation UART (third party), test programs, build
  scripts.
