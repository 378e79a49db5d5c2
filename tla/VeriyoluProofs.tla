--------------------------- MODULE VeriyoluProofs ---------------------------
(***************************************************************************)
(* Theorems about Veriyolu, for every set of programs.                     *)
(***************************************************************************)
EXTENDS Veriyolu, TLAPS

\* What the three FSM states of the SPI controller do to its registers.
SpiSonraki == SpiBosta \/ SpiCalisir \/ SpiBiter

LEMMA TipAdim ==
    ASSUME TipDogru, [Next]_vars
    PROVE  TipDogru'
<1> USE DEF Koleler
<1>1. CASE Saat
  <2>1. program' = program /\ SpiSonraki /\ Master /\ KoleAck /\ Cekirdek
    BY <1>1 DEF Saat, Kenar, SpiSonraki
  <2>2. program' \in Programlar
    BY <2>1 DEF TipDogru
  <2>3. state' \in {"IDLE", "BUS"} /\ sec_r' \in BOOLEAN
    BY <2>1 DEF TipDogru, Master, Sec, Buyruklar
  <2>4. ack' \in [Koleler -> BOOLEAN]
    BY <2>1 DEF TipDogru, KoleAck, UartAck, PwmYazar, PwmOkur, SpiAck, SpiIsler, Cyc,
                Stb, SpiTipi
  <2>5. spi' \in SpiTipi
    <3>1. buyruk.e.komut \in Komutlar
      BY DEF TipDogru, Buyruklar, Erisim
    <3>2. CcrYazar \in BOOLEAN /\ Stb \in BOOLEAN
      BY DEF CcrYazar, SpiIsler, Stb, TipDogru, SpiTipi, Buyruklar, Erisim
    <3>3. CASE SpiBosta
      BY <3>1, <3>2, <3>3 DEF TipDogru, SpiBosta, SpiTipi
    <3>4. CASE SpiCalisir
      BY <3>4 DEF TipDogru, SpiCalisir, SpiTipi
    <3>5. CASE SpiBiter
      BY <3>5 DEF TipDogru, SpiBiter, SpiTipi
    <3> QED
      BY <2>1, <3>3, <3>4, <3>5 DEF SpiSonraki
  <2>6. buyruk' \in Buyruklar /\ durdu' \in BOOLEAN
    BY <2>1 DEF TipDogru, Cekirdek, SonrakiBuyruk, AyniBuyruk
  <2>7. kez' \in [Koleler -> 0 .. KezSiniri]
    <3>1. \A n \in 0 .. KezSiniri : n < KezSiniri => n + 1 \in 0 .. KezSiniri
      BY DEF KezSiniri
    <3>2. 0 \in 0 .. KezSiniri
      BY DEF KezSiniri
    <3> QED
      BY <2>1, <3>1, <3>2 DEF TipDogru, Cekirdek, SonrakiBuyruk, AyniBuyruk
  <2> QED
    BY <2>2, <2>3, <2>4, <2>5, <2>6, <2>7 DEF TipDogru
<1>2. CASE Sifirla
  <2>1. NOP \in Buyruklar /\ SpiBas \in SpiTipi
    BY DEF NOP, Buyruklar, Erisim, Adresler, Komutlar, SpiBas, SpiTipi
  <2> QED
    BY <1>2, <2>1 DEF Sifirla, TipDogru, Sec, Buyruklar, KezSiniri
<1>3. CASE UNCHANGED vars
  BY <1>3 DEF TipDogru, vars
<1> QED
  BY <1>1, <1>2, <1>3 DEF Next

LEMMA TipBas == ASSUME Init PROVE TipDogru
<1>1. NOP \in Buyruklar /\ SpiBas \in SpiTipi
  BY DEF NOP, Buyruklar, Erisim, Koleler, Adresler, Komutlar, SpiBas, SpiTipi
<1> QED
  <2>1. durdu \in BOOLEAN /\ sec_r \in BOOLEAN
    BY DEF Init
  <2>2. ack \in [Koleler -> BOOLEAN]
    BY DEF Init
  <2>3. kez \in [Koleler -> 0 .. KezSiniri]
    BY DEF Init, KezSiniri
  <2> QED
    BY <1>1, <2>1, <2>2, <2>3 DEF Init, TipDogru

\* Type correctness, back-to-back accesses included.
THEOREM TipTeoremi == Spec => []TipDogru
  BY TipBas, TipAdim, PTL DEF Spec

\* In IDLE no slave is addressed; in BUS only the one the address selects.
LEMMA IslerStb == ASSUME ~Stb PROVE \A k \in Koleler : ~Isler(k)
  BY DEF Isler, UartIsler, PwmYazar, PwmOkur, SpiIsler, Cyc, Koleler

\* A quiet SPI controller stays quiet until QSPI_CCR is written.
LEMMA SpiSessizKalir ==
    ASSUME TipDogru, Saat, SpiSessiz, ~CcrYazar
    PROVE  SpiSessiz'
<1>1. SpiBosta
  BY DEF Saat, SpiCalisir, SpiBiter, SpiSessiz
<1>2. ~(Stb /\ spi.inst_flag) /\ ~(spi.inst_flag \/ CcrYazar)
  BY DEF SpiSessiz
<1>3. spi'.mesgul = (Stb /\ spi.inst_flag) /\ spi'.inst_flag = (spi.inst_flag \/ CcrYazar)
      /\ spi'.ack_flag = FALSE
  BY <1>1 DEF SpiBosta
<1> QED
  BY <1>2, <1>3 DEF SpiSessiz

\* An edge in IDLE without an access: the bus stays idle and forgets the last access.
LEMMA BostaKalir ==
    ASSUME IInv, Saat, ~Stb, ~Sec
    PROVE  Bosta' /\ Veriyolunda'
<1>1. state = "IDLE"
  BY DEF IInv, TipDogru, Stb
<1>2. state' = "IDLE" /\ sec_r' = FALSE
  BY DEF Saat, Kenar, Master
<1>3. ~ack["uart"]' /\ ~ack["pwm"]'
  BY <1>1 DEF IInv, Bosta, Saat, Kenar, KoleAck, UartAck, PwmYazar, PwmOkur, Cyc, Stb,
              Koleler
<1>4. SpiKullanilir' => ~ack["spi"]' /\ SpiSessiz'
  <2>1. SUFFICES ASSUME SpiKullanilir'
                 PROVE  ~ack["spi"]' /\ SpiSessiz'
    OBVIOUS
  <2>2. SpiKullanilir
    BY <2>1 DEF SpiKullanilir, Saat, Kenar
  <2>3. SpiSessiz /\ ~ack["spi"] /\ ~SpiIsler
    BY <1>1, <2>2 DEF IInv, Bosta, SpiIsler
  <2>4. ~ack["spi"]'
    BY <2>3 DEF Saat, Kenar, KoleAck, SpiAck, SpiSessiz, Koleler
  <2>5. SpiSessiz'
    BY <2>3, SpiSessizKalir DEF IInv, CcrYazar
  <2> QED
    BY <2>4, <2>5
<1>5. \A k \in Koleler : kez'[k] = 0
  BY <1>1, IslerStb DEF IInv, Bosta, Saat, Kenar, Cekirdek, SonrakiBuyruk, AyniBuyruk
<1> QED
  BY <1>2, <1>3, <1>4, <1>5 DEF Bosta, Veriyolunda

\* A new access: the core is stalled and the bus goes to the slave.
LEMMA ErisimBaslar ==
    ASSUME IInv, Saat, ~Stb, Sec
    PROVE  Bosta' /\ Veriyolunda'
<1>1. state = "IDLE" /\ ~sec_r
  BY DEF IInv, TipDogru, Stb, Bosta
<1>2. state' = "BUS" /\ sec_r' = TRUE
  BY DEF Saat, Kenar, Master
<1>3. AyniBuyruk
  BY <1>1 DEF Saat, Kenar, Cekirdek, Bitti, VyDurdur, Sec
<1>4. buyruk' = buyruk /\ durdu' = FALSE /\ program' = program
  BY <1>3 DEF AyniBuyruk, Sec, Saat, Kenar
<1>5. Sec' /\ buyruk.e \in program
  BY <1>4 DEF Sec, IInv, ErisimProgramdan
<1>6. ~ack["uart"]' /\ ~ack["pwm"]'
  BY <1>1 DEF IInv, Bosta, Saat, Kenar, KoleAck, UartAck, PwmYazar, PwmOkur, Cyc, Stb,
              Koleler
<1>7. \A k \in Koleler : kez'[k] = 0
  BY <1>1, <1>3, IslerStb DEF IInv, Bosta, AyniBuyruk
<1>8. SpiKullanilir' => ~ack["spi"]' /\ SpiSessiz'
  <2>1. SUFFICES ASSUME SpiKullanilir'
                 PROVE  ~ack["spi"]' /\ SpiSessiz'
    OBVIOUS
  <2>2. SpiKullanilir
    BY <1>4, <2>1 DEF SpiKullanilir
  <2>3. SpiSessiz /\ ~ack["spi"] /\ ~SpiIsler
    BY <1>1, <2>2 DEF IInv, Bosta, SpiIsler
  <2>4. ~ack["spi"]'
    BY <2>3 DEF Saat, Kenar, KoleAck, SpiAck, SpiSessiz, Koleler
  <2>5. SpiSessiz'
    BY <2>3, SpiSessizKalir DEF IInv, CcrYazar
  <2> QED
    BY <2>4, <2>5
<1>9. Veriyolunda'
  <2>1. \A k \in {"uart", "pwm"} : Erisimde(k)'
    BY <1>6, <1>7 DEF Erisimde, Koleler
  <2>2. SpiKullanilir' => SpiErisimde'
    <3>1. TipDogru'
      BY TipAdim DEF IInv, Next
    <3>2. \A k \in Koleler : ack'[k] \in BOOLEAN
      BY <3>1 DEF TipDogru
    <3> QED
      BY <1>6, <1>8, <3>2 DEF SpiErisimde, SpiSessiz, Koleler
  <2> QED
    BY <1>2, <1>4, <1>5, <2>1, <2>2 DEF Veriyolunda
<1> QED
  BY <1>2, <1>9 DEF Bosta

\* The acknowledge: the access leaves execute and the bus is idle, with no other access
\* behind it.
LEMMA ErisimSonu ==
    ASSUME ArdArdaErisim = FALSE, IInv, Saat, Stb, Ack
    PROVE  Bosta' /\ Veriyolunda'
<1>1. /\ state = "BUS" /\ Sec /\ sec_r
      /\ Erisimde("uart") /\ Erisimde("pwm")
      /\ SpiKullanilir => SpiErisimde
  BY DEF IInv, Veriyolunda, Stb
<1>2. state' = "IDLE" /\ sec_r' = TRUE
  BY <1>1 DEF Saat, Kenar, Master
<1>3. SonrakiBuyruk
  BY <1>1 DEF Saat, Kenar, Cekirdek, AyniBuyruk, Bitti, VyDurdur, Sec, Stb
<1>4. ~Sec' /\ \A k \in Koleler : kez'[k] = 0
  BY <1>1, <1>3 DEF SonrakiBuyruk, Sec
<1>5. ~ack["uart"]'
  <2>1. CASE buyruk.e.kole = "uart"
    BY <2>1 DEF Ack, Koleler, Saat, Kenar, KoleAck, UartAck, Cyc
  <2>2. CASE buyruk.e.kole # "uart"
    BY <1>1, <2>2 DEF Koleler, Saat, Kenar, KoleAck, UartAck, Cyc, Erisimde
  <2> QED
    BY <2>1, <2>2
<1>6. SpiKullanilir' => ~ack["spi"]' /\ SpiSessiz'
  <2>1. SUFFICES ASSUME SpiKullanilir'
                 PROVE  ~ack["spi"]' /\ SpiSessiz'
    OBVIOUS
  <2>2. SpiErisimde
    BY <1>1, <2>1 DEF SpiKullanilir, Saat, Kenar
  <2>3. ack["spi"]
    BY <2>2 DEF Ack, Koleler, SpiErisimde
  <2>4. SpiSessiz /\ ~SpiIsler
    BY <2>2, <2>3 DEF SpiErisimde, SpiIsler
  <2>5. ~ack["spi"]'
    BY <2>3, <2>4 DEF Saat, Kenar, KoleAck, SpiAck, Koleler
  <2>6. SpiSessiz'
    BY <2>4, SpiSessizKalir DEF IInv, CcrYazar
  <2> QED
    BY <2>5, <2>6
<1> QED
  BY <1>2, <1>4, <1>5, <1>6 DEF Bosta, Veriyolunda

\* How the history grows while an instruction stays.
LEMMA KezArtar ==
    ASSUME TipDogru, AyniBuyruk, NEW k \in Koleler
    PROVE  /\ Isler(k) => kez'[k] > 0 /\ (kez[k] = 0 => kez'[k] = 1)
           /\ ~Isler(k) => kez'[k] = kez[k]
           /\ kez[k] > 0 => kez'[k] > 0
<1>1. kez[k] \in 0 .. 2
  BY DEF TipDogru, KezSiniri
<1>2. kez'[k] = IF Isler(k) /\ kez[k] < 2 THEN kez[k] + 1 ELSE kez[k]
  BY DEF AyniBuyruk, KezSiniri
<1> QED
  BY <1>1, <1>2

\* An access whose slave has not acknowledged it stays, and so does the invariant.
LEMMA ErisimSurer ==
    ASSUME IInv, Saat, Stb, ~Ack
    PROVE  Bosta' /\ Veriyolunda'
<1>1. /\ TipDogru
      /\ state = "BUS" /\ Sec /\ sec_r
      /\ buyruk.e \in program
      /\ Erisimde("uart") /\ Erisimde("pwm")
      /\ SpiKullanilir => SpiErisimde
  BY DEF IInv, Veriyolunda, Stb
<1>2. state' = "BUS" /\ sec_r' = TRUE
  BY <1>1 DEF Saat, Kenar, Master
<1>3. AyniBuyruk
  BY <1>1 DEF Saat, Kenar, Cekirdek, Bitti, VyDurdur, Sec
<1>4. buyruk' = buyruk /\ durdu' = FALSE /\ program' = program
  BY <1>3, <1>1 DEF AyniBuyruk, Sec, Saat, Kenar
<1>5. Sec'
  BY <1>1, <1>4 DEF Sec
<1>6. \A k \in Koleler : ack[k] \in BOOLEAN
  BY <1>1 DEF TipDogru
<1>7. Erisimde("uart")'
  <2>1. CASE buyruk.e.kole = "uart"
    <3>1. ack["uart"] = FALSE
      BY <1>6, <2>1 DEF Ack, Koleler
    <3>2. Isler("uart") /\ kez["uart"] = 0
      BY <1>1, <2>1, <3>1 DEF Isler, UartIsler, Cyc, Erisimde
    <3>3. kez'["uart"] = 1
      BY <1>1, <1>3, <3>2, KezArtar DEF Koleler
    <3>4. ack'["uart"] = TRUE
      BY <2>1, <3>1 DEF Saat, Kenar, KoleAck, UartAck, Cyc, Koleler
    <3> QED
      BY <1>4, <2>1, <3>3, <3>4 DEF Erisimde
  <2>2. CASE buyruk.e.kole # "uart"
    <3>1. ack["uart"] = FALSE /\ kez["uart"] = 0
      BY <1>1, <1>6, <2>2 DEF Erisimde, Koleler
    <3>2. ~Isler("uart")
      BY <2>2 DEF Isler, UartIsler, Cyc
    <3>3. kez'["uart"] = 0
      BY <1>1, <1>3, <3>1, <3>2, KezArtar DEF Koleler
    <3>4. ack'["uart"] = FALSE
      BY <2>2, <3>1 DEF Saat, Kenar, KoleAck, UartAck, Cyc, Koleler
    <3> QED
      BY <3>3, <3>4 DEF Erisimde
  <2> QED
    BY <2>1, <2>2
<1>8. Erisimde("pwm")'
  <2>1. ack'["pwm"] = (PwmYazar \/ PwmOkur) /\ (Isler("pwm") <=> PwmYazar \/ PwmOkur)
    BY DEF Saat, Kenar, KoleAck, Koleler, Isler
  <2>2. CASE buyruk.e.kole = "pwm"
    <3>1. Isler("pwm") => kez'["pwm"] > 0
      BY <1>1, <1>3, KezArtar DEF Koleler
    <3> QED
      BY <1>4, <2>1, <2>2, <3>1 DEF Erisimde
  <2>3. CASE buyruk.e.kole # "pwm"
    <3>1. ~(PwmYazar \/ PwmOkur)
      BY <2>3 DEF PwmYazar, PwmOkur, Cyc
    <3>2. kez'["pwm"] = 0
      BY <1>1, <1>3, <2>1, <2>3, <3>1, KezArtar DEF Koleler, Erisimde
    <3> QED
      BY <2>1, <3>1, <3>2 DEF Erisimde
  <2> QED
    BY <2>2, <2>3
<1>9. SpiKullanilir' => SpiErisimde'
  <2>1. SUFFICES ASSUME SpiKullanilir'
                 PROVE  SpiErisimde'
    OBVIOUS
  <2>2. SpiKullanilir /\ SpiErisimde
    BY <1>1, <1>4, <2>1 DEF SpiKullanilir
  <2>3. /\ CcrYazar <=> SpiIsler /\ CcrYazmasi(buyruk.e)
        /\ ack'["spi"] = SpiAck
        /\ Isler("spi") <=> SpiIsler
    <3>1. program \in Programlar
      BY <1>1 DEF TipDogru
    <3>2. SpiKurali(program)
      BY <3>1, VeriyoluVarsayimi
    <3>3. buyruk.e.yaz /\ buyruk.e.adr = "sifir" => CcrYazmasi(buyruk.e)
      BY <1>1, <2>2, <3>2 DEF SpiKurali, SpiKullanilir
    <3> QED
      BY <3>3 DEF CcrYazar, CcrYazmasi, Saat, Kenar, KoleAck, Koleler, Isler
  <2>4. spi.mesgul \in BOOLEAN /\ spi.inst_flag \in BOOLEAN /\ spi.ack_flag \in BOOLEAN
    BY <1>1 DEF TipDogru, SpiTipi
  <2>5. /\ Isler("spi") => kez'["spi"] > 0
        /\ kez["spi"] > 0 => kez'["spi"] > 0
    BY <1>1, <1>3, KezArtar DEF Koleler
  <2>6. CASE SpiSessiz /\ ~CcrYazmasi(buyruk.e)
    <3>1. SpiSessiz'
      BY <1>1, <2>3, <2>6, SpiSessizKalir
    <3>2. ack'["spi"] = SpiIsler /\ (SpiIsler <=> ~ack["spi"])
      BY <2>3, <2>6 DEF SpiAck, SpiIsler, SpiSessiz
    <3>3. ack'["spi"] => kez'["spi"] > 0
      BY <2>3, <2>5, <3>2
    <3>4. buyruk.e.kole = "uart" => ack'["uart"] = ack'["spi"]
      <4>1. SUFFICES ASSUME buyruk.e.kole = "uart"
                     PROVE  ack'["uart"] = ack'["spi"]
        OBVIOUS
      <4>2. ack["uart"] = FALSE /\ ack["spi"] = FALSE
        BY <1>6, <2>2, <4>1 DEF Ack, Koleler, SpiErisimde, CiktiYazmasi
      <4>3. ack'["uart"] = TRUE
        BY <4>1, <4>2 DEF Saat, Kenar, KoleAck, UartAck, Cyc, Koleler
      <4> QED
        BY <3>2, <4>2, <4>3
    <3>5. buyruk.e.kole = "pwm" =>
              ack'["pwm"] = (ack'["spi"] /\ ~CiktiYazmasi(buyruk.e))
      <4>1. SUFFICES ASSUME buyruk.e.kole = "pwm"
                     PROVE  ack'["pwm"] = (ack'["spi"] /\ ~CiktiYazmasi(buyruk.e))
        OBVIOUS
      <4>2. ack["pwm"] = FALSE
        BY <1>6, <4>1 DEF Ack, Koleler
      <4>3. ack'["pwm"] = ~CiktiYazmasi(buyruk.e)
        BY <4>1, <4>2 DEF Saat, Kenar, KoleAck, PwmYazar, PwmOkur, Cyc, Koleler, CiktiYazmasi
      <4>4. ack["spi"] => CiktiYazmasi(buyruk.e)
        BY <2>2, <4>1, <4>2 DEF SpiErisimde
      <4> QED
        BY <3>2, <4>3, <4>4
    <3>6. ack'["spi"] \in BOOLEAN
      BY TipAdim, <1>1 DEF TipDogru, Next, Koleler
    <3>7. buyruk'.e.kole \in {"uart", "pwm"} =>
              ack'[buyruk'.e.kole] = (ack'["spi"] /\ ~CiktiYazmasi(buyruk'.e))
      BY <1>4, <3>4, <3>5, <3>6 DEF CiktiYazmasi
    <3> QED
      BY <3>1, <3>3, <3>7 DEF SpiErisimde, SpiSessiz
  <2>7. CASE CcrYazmasi(buyruk.e)
    <3>1. buyruk.e.kole = "spi" /\ ack["spi"] = FALSE
      BY <1>6, <2>7 DEF CcrYazmasi, Ack, Koleler
    <3>2. CASE spi.ack_flag
      <4>1. ~spi.mesgul /\ ~spi.inst_flag /\ ~SpiIsler /\ ~CcrYazar
        BY <2>2, <2>3, <3>2 DEF SpiErisimde, SpiIsler
      <4>2. spi' = [mesgul |-> FALSE, inst_flag |-> FALSE, ack_flag |-> FALSE,
                    komut |-> spi.komut]
        BY <2>4, <4>1 DEF Saat, SpiBosta, SpiCalisir, SpiBiter
      <4>3. kez'["spi"] > 0
        BY <2>2, <2>5, <3>2 DEF SpiErisimde, SpiSessiz
      <4>4. ~spi'.mesgul /\ ~spi'.inst_flag /\ ~spi'.ack_flag
        BY <4>2
      <4>5. buyruk'.e.kole = "spi"
        BY <1>4, <3>1
      <4> QED
        BY <4>3, <4>4, <4>5 DEF SpiErisimde, SpiSessiz
    <3>3. CASE ~spi.ack_flag /\ spi.mesgul
      <4>1. ~SpiIsler /\ ~CcrYazar
        BY <2>3, <3>3 DEF SpiIsler
      <4>2. ack'["spi"] = FALSE
        BY <2>3, <3>3, <4>1 DEF SpiAck
      <4>3. kez'["spi"] > 0
        BY <2>2, <2>5, <3>3 DEF SpiErisimde, SpiSessiz
      <4>4. \/ spi' = [spi EXCEPT !.inst_flag = FALSE]
            \/ spi' = [spi EXCEPT !.mesgul = FALSE, !.inst_flag = FALSE, !.ack_flag = TRUE]
        BY <3>3 DEF Saat, SpiBosta, SpiCalisir, SpiBiter
      <4>5. /\ spi'.inst_flag = FALSE
            /\ spi'.mesgul => ~spi'.ack_flag
        BY <1>1, <3>3, <4>4 DEF TipDogru, SpiTipi
      <4> QED
        BY <1>4, <2>7, <3>1, <4>2, <4>3, <4>5 DEF SpiErisimde
    <3>4. CASE ~spi.ack_flag /\ ~spi.mesgul
      <4>1. SpiIsler /\ CcrYazar
        BY <2>3, <2>7, <3>1, <3>4 DEF SpiIsler
      <4>2. ack'["spi"] = FALSE
        BY <2>3, <3>4, <4>1 DEF SpiAck
      <4>3. kez'["spi"] > 0
        BY <2>3, <2>5, <4>1
      <4>4. spi'.ack_flag = FALSE
        BY <3>4 DEF Saat, SpiBosta, SpiCalisir, SpiBiter
      <4> QED
        BY <1>4, <2>7, <3>1, <4>2, <4>3, <4>4 DEF SpiErisimde
    <3> QED
      BY <2>4, <3>2, <3>3, <3>4
  <2> QED
    BY <2>2, <2>6, <2>7 DEF SpiErisimde
<1> QED
  BY <1>1, <1>2, <1>4, <1>5, <1>7, <1>8, <1>9 DEF Bosta, Veriyolunda

LEMMA IInvAdim ==
    ASSUME ArdArdaErisim = FALSE, IInv, [Next]_vars
    PROVE  IInv'
<1>1. TipDogru'
  BY TipAdim DEF IInv
<1>2. CASE Saat
  <2>1. ErisimProgramdan'
    BY <1>2 DEF IInv, ErisimProgramdan, Saat, Kenar, Cekirdek, SonrakiBuyruk, AyniBuyruk
  <2>2. Bosta' /\ Veriyolunda'
    BY <1>2, BostaKalir, ErisimBaslar, ErisimSurer, ErisimSonu
  <2> QED
    BY <1>1, <2>1, <2>2 DEF IInv
<1>3. CASE Sifirla
  BY <1>1, <1>3 DEF IInv, Sifirla, ErisimProgramdan, Bosta, Veriyolunda, SpiSessiz, SpiBas,
                    NOP, Sec, Koleler
<1>4. CASE UNCHANGED vars
  BY <1>1, <1>4 DEF IInv, vars, ErisimProgramdan, Bosta, Veriyolunda, SpiSessiz, Sec,
                    SpiKullanilir, Erisimde, SpiErisimde
<1> QED
  BY <1>2, <1>3, <1>4 DEF Next

\* The inductive invariant, for software that leaves a cycle between its accesses.
THEOREM IInvTeoremi ==
    ASSUME ArdArdaErisim = FALSE
    PROVE  Spec => []IInv
<1>1. ASSUME Init PROVE IInv
  <2>1. TipDogru
    BY <1>1, TipBas
  <2>2. ErisimProgramdan
    BY <1>1 DEF Init, ErisimProgramdan, NOP
  <2>3. Bosta
    BY <1>1 DEF Init, Bosta, SpiSessiz, SpiBas, Sec, Koleler
  <2>4. Veriyolunda
    BY <1>1 DEF Init, Veriyolunda
  <2> QED
    BY <2>1, <2>2, <2>3, <2>4 DEF IInv
<1>2. IInv /\ [Next]_vars => IInv'
  BY IInvAdim
<1> QED
  BY <1>1, <1>2, PTL DEF Spec

\* A bus access leaves execute only with the slave's acknowledge.
LEMMA TamamlanirAck ==
    ASSUME IInv, Tamamlanir
    PROVE  /\ Stb /\ Ack
           /\ Erisimde("uart") /\ Erisimde("pwm")
           /\ SpiKullanilir => SpiErisimde
<1>1. TipDogru /\ Sec /\ ~VyDurdur
  BY DEF IInv, Tamamlanir, Bitti, Sec
<1>2. Stb
  <2>1. CASE ~Stb
    <3>1. state = "IDLE"
      BY <1>1, <2>1 DEF TipDogru, Stb
    <3>2. ~sec_r
      BY <1>1, <3>1 DEF IInv, Bosta
    <3> QED
      BY <1>1, <3>2 DEF VyDurdur
  <2> QED
    BY <2>1
<1> QED
  BY <1>1, <1>2 DEF VyDurdur, IInv, Veriyolunda, Stb

\* No access is lost and none reaches the UART twice, if software leaves a cycle between
\* its accesses.
THEOREM TamIslenirTeoremi ==
    ASSUME ArdArdaErisim = FALSE
    PROVE  Spec => []TamIslenir
<1>1. ASSUME IInv PROVE TamIslenir
  <2>1. SUFFICES ASSUME Tamamlanir
                 PROVE  /\ kez[buyruk.e.kole] > 0
                        /\ kez["uart"] = IF buyruk.e.kole = "uart" THEN 1 ELSE 0
    BY DEF TamIslenir
  <2>2. /\ Ack /\ Erisimde("uart") /\ Erisimde("pwm")
        /\ SpiKullanilir => SpiErisimde
    BY <1>1, <2>1, TamamlanirAck
  <2>3. SpiKullanilir \/ buyruk.e.kole # "spi"
    BY <1>1, <2>1 DEF IInv, ErisimProgramdan, Tamamlanir, SpiKullanilir
  <2>4. buyruk.e.kole \in {"uart", "spi", "pwm"} /\ ack[buyruk.e.kole]
    BY <2>2 DEF Ack, Koleler
  <2>5. CASE buyruk.e.kole = "uart"
    BY <2>2, <2>4, <2>5 DEF Erisimde
  <2>6. CASE buyruk.e.kole = "pwm"
    BY <2>2, <2>4, <2>6 DEF Erisimde
  <2>7. CASE buyruk.e.kole = "spi"
    BY <2>2, <2>3, <2>4, <2>7 DEF Erisimde, SpiErisimde
  <2> QED
    BY <2>4, <2>5, <2>6, <2>7
<1> QED
  BY <1>1, IInvTeoremi, PTL

\* No instruction but a bus access has an effect on the UART or the PWM controller.
THEOREM YalnizErisimTeoremi ==
    ASSUME ArdArdaErisim = FALSE
    PROVE  Spec => []YalnizErisim
<1>1. ASSUME IInv PROVE YalnizErisim
  <2>1. Stb => Sec
    BY <1>1 DEF IInv, Veriyolunda, Stb
  <2> QED
    BY <2>1 DEF YalnizErisim, Isler, UartIsler, PwmYazar, PwmOkur, Cyc
<1> QED
  BY <1>1, IInvTeoremi, PTL

\* When a store to QSPI_CCR leaves execute, its flash command has ended.
THEOREM KomutBitmisTeoremi ==
    ASSUME ArdArdaErisim = FALSE
    PROVE  Spec => []KomutBitmis
<1>1. ASSUME IInv PROVE KomutBitmis
  <2>1. SUFFICES ASSUME Tamamlanir, CcrYazmasi(buyruk.e)
                 PROVE  ~spi.mesgul /\ ~spi.inst_flag
    BY DEF KomutBitmis
  <2>2. Ack /\ (SpiKullanilir => SpiErisimde)
    BY <1>1, <2>1, TamamlanirAck
  <2>3. SpiKullanilir
    BY <1>1, <2>1 DEF IInv, ErisimProgramdan, Tamamlanir, SpiKullanilir, CcrYazmasi
  <2> QED
    BY <2>1, <2>2, <2>3 DEF Ack, CcrYazmasi, SpiErisimde, SpiSessiz
<1> QED
  BY <1>1, IInvTeoremi, PTL

=============================================================================
