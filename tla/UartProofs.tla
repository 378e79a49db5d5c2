----------------------------- MODULE UartProofs ------------------------------
(* The proofs about Uart, for every divisor of at least four, every number of data *)
(* bits, every depth of the two queues and every alphabet: the inductive invariant, *)
(* and that the two queues and the line between them are one queue. The argument   *)
(* follows a byte: the phases of the line (Dinlenir, Fark, Farkedildi, Izler), in  *)
(* which the receiver runs four cycles behind the transmitter; the fill of the two *)
(* rings; what the driver has read of the status; then their contents, as sequences.*)
EXTENDS Uart, SequenceTheorems, TLAPS

-----------------------------------------------------------------------------
(* Counters, types and the line *)

Ikili == {0, 1}

\* A counter that wraps at d.
LEMMA Artir ==
    ASSUME NEW d \in Nat \ {0}, NEW x \in 0 .. d - 1
    PROVE  (x + 1) % d = (IF x = d - 1 THEN 0 ELSE x + 1)
OBVIOUS

LEMMA SonrakiDurum ==
    ASSUME NEW s \in 0 .. SON
    PROVE  Sonra(s) = (IF s = SON THEN 0 ELSE s + 1)
BY BoyVarsayimi, Artir DEF Sonra, SON

LEMMA DiziTipi ==
    ASSUME NEW S, NEW n \in Nat, NEW p \in [1 .. n -> S]
    PROVE  p \in Seq(S) /\ Len(p) = n
OBVIOUS

\* Shifting the samples of the line.
LEMMA KaydirmaTipi ==
    ASSUME NEW S, NEW n \in Nat \ {0}, NEW p \in [1 .. n -> S], NEW h \in S
    PROVE  /\ Append(Tail(p), h) \in [1 .. n -> S]
           /\ Append(Tail(p), h)[n] = h
<1>1. p \in Seq(S) /\ Len(p) = n
  BY DiziTipi
<1>2. p # <<>>
  BY <1>1
<1> DEFINE t == Tail(p)
<1>3. t \in Seq(S) /\ Len(t) = n - 1
  BY <1>1, <1>2, HeadTailProperties
<1> HIDE DEF t
<1> DEFINE q == Append(t, h)
<1>4. q \in Seq(S) /\ Len(q) = Len(t) + 1 /\ q[Len(t) + 1] = h
  BY <1>3, AppendProperties
<1> HIDE DEF q
<1>5. q \in [1 .. n -> S]
  BY <1>3, <1>4, LenProperties
<1>6. q[n] = h
  BY <1>3, <1>4
<1> QED
  BY <1>5, <1>6 DEF q, t

LEMMA KaydirmaElemani ==
    ASSUME NEW S, NEW n \in Nat \ {0}, NEW p \in [1 .. n -> S], NEW h \in S,
           NEW i \in 1 .. n - 1
    PROVE  Append(Tail(p), h)[i] = p[i + 1]
<1>1. p \in Seq(S) /\ Len(p) = n
  BY DiziTipi
<1>2. p # <<>>
  BY <1>1
<1> DEFINE t == Tail(p)
<1>3. t \in Seq(S) /\ Len(t) = n - 1 /\ \A j \in 1 .. Len(t) : t[j] = p[j + 1]
  BY <1>1, <1>2, HeadTailProperties
<1> HIDE DEF t
<1>4. \A j \in 1 .. Len(t) : Append(t, h)[j] = t[j]
  BY <1>3, AppendProperties
<1>5. i \in 1 .. Len(t)
  BY <1>3
<1> QED
  BY <1>3, <1>4, <1>5 DEF t

LEMMA Desen ==
    ASSUME NEW p \in [1 .. 4 -> Ikili], NEW h \in Ikili
    PROVE  \E q \in [1 .. 4 -> Ikili] :
              /\ q = Append(Tail(p), h)
              /\ q[1] = p[2] /\ q[2] = p[3] /\ q[3] = p[4] /\ q[4] = h
<1> DEFINE q == Append(Tail(p), h)
           n == 4
           bir == 1
           iki == 2
           uc == 3
<1>1. n \in Nat \ {0} /\ p \in [1 .. n -> Ikili]
  OBVIOUS
<1>2. bir \in 1 .. n - 1 /\ iki \in 1 .. n - 1 /\ uc \in 1 .. n - 1
  OBVIOUS
<1>3. n = 4 /\ bir + 1 = 2 /\ iki + 1 = 3 /\ uc + 1 = 4
  OBVIOUS
<1>4. bir = 1 /\ iki = 2 /\ uc = 3
  OBVIOUS
<1> HIDE DEF n, bir, iki, uc
<1>5. q \in [1 .. n -> Ikili] /\ q[n] = h
  <2>1. q \in [1 .. n -> Ikili]
    BY <1>1, KaydirmaTipi
  <2>2. q[n] = h
    BY <1>1, KaydirmaTipi
  <2> QED
    BY <2>1, <2>2
<1>6. q[bir] = p[bir + 1]
  BY <1>1, <1>2, KaydirmaElemani
<1>7. q[iki] = p[iki + 1]
  BY <1>1, <1>2, KaydirmaElemani
<1>8. q[uc] = p[uc + 1]
  BY <1>1, <1>2, KaydirmaElemani
<1>9. q = Append(Tail(p), h)
  OBVIOUS
<1> HIDE DEF q
<1>10. q \in [1 .. 4 -> Ikili] /\ q[4] = h
  BY <1>3, <1>5
<1>11. q[1] = p[2] /\ q[2] = p[3] /\ q[3] = p[4]
  <2>1. q[1] = p[2]
    BY ONLY <1>3, <1>4, <1>6
  <2>2. q[2] = p[3]
    BY ONLY <1>3, <1>4, <1>7
  <2>3. q[3] = p[4]
    BY ONLY <1>3, <1>4, <1>8
  <2> QED
    BY <2>1, <2>2, <2>3
<1> QED
  BY <1>9, <1>10, <1>11

\* Two high samples and two low ones are a falling line, and nothing else is.
LEMMA DususAnlami ==
    ASSUME alici.start_pattern \in [1 .. 4 -> Ikili]
    PROVE  Dusus <=> /\ alici.start_pattern[1] = 1 /\ alici.start_pattern[2] = 1
                     /\ alici.start_pattern[3] = 0 /\ alici.start_pattern[4] = 0
<1> DEFINE p == alici.start_pattern
           d == <<1, 1, 0, 0>>
           n == 4
<1>1. n \in Nat /\ p \in [1 .. n -> Ikili]
  OBVIOUS
<1>2. n = 4
  OBVIOUS
<1>3. Dusus <=> p = d
  BY DEF Dusus
<1>4. d \in Seq(Ikili)
  BY DEF Ikili
<1>5. Len(d) = n /\ d[1] = 1 /\ d[2] = 1 /\ d[3] = 0 /\ d[4] = 0
  OBVIOUS
<1> HIDE DEF p, d, n
<1>6. p \in Seq(Ikili) /\ Len(p) = n
  BY <1>1, DiziTipi
<1>7. ASSUME p[1] = 1, p[2] = 1, p[3] = 0, p[4] = 0
      PROVE  p = d
  <2>1. \A i \in 1 .. Len(p) : p[i] = d[i]
    BY <1>2, <1>5, <1>6, <1>7
  <2> QED
    BY <1>4, <1>5, <1>6, <2>1, SeqEqual
<1>8. p = d <=> p[1] = 1 /\ p[2] = 1 /\ p[3] = 0 /\ p[4] = 0
  BY <1>5, <1>7
<1> QED
  BY <1>3, <1>8 DEF p

LEMMA HatBit == TipDogru => Hat \in {0, 1}
<1> SUFFICES ASSUME TipDogru, VERI(verici.state)
             PROVE  verici.queue[verici.read_ptr][verici.state - 2] \in {0, 1}
  BY DEF Hat
<1>1. verici.queue[verici.read_ptr] \in Bayt
  BY DEF TipDogru
<1>2. verici.state - 2 \in 0 .. BIT - 1
  BY BoyVarsayimi DEF TipDogru, VERI, SON
<1> QED
  BY <1>1, <1>2 DEF Bayt

LEMMA VericiAlanlari ==
    ASSUME TipDogru, Verici
    PROVE  /\ verici'.state = IF verici.pulse = TRUE THEN TxSonraki ELSE verici.state
           /\ verici'.read_ptr = IF verici.pulse = TRUE /\ verici.state = SON
                                 THEN (verici.read_ptr + 1) % TX_DERINLIK
                                 ELSE verici.read_ptr
           /\ verici'.write_ptr = IF tx_we THEN (verici.write_ptr + 1) % TX_DERINLIK
                                  ELSE verici.write_ptr
           /\ verici'.counter = IF verici.counter = ctrl.baud_div THEN 0
                                ELSE verici.counter + 1
           /\ verici'.pulse \in BOOLEAN
           /\ verici'.pulse = TRUE <=> verici.counter = ctrl.baud_div
           /\ verici'.queue = IF tx_we
                              THEN [verici.queue EXCEPT ![verici.write_ptr] = cikan]
                              ELSE verici.queue
BY DEF TipDogru, Verici

LEMMA AliciAlanlari ==
    ASSUME TipDogru, Alici
    PROVE  /\ alici'.state = IF alici.pulse = TRUE THEN RxSonraki ELSE alici.state
           /\ alici'.read_ptr = IF rx_re THEN (alici.read_ptr + 1) % RX_DERINLIK
                                ELSE alici.read_ptr
           /\ alici'.write_ptr = IF Biter THEN (alici.write_ptr + 1) % RX_DERINLIK
                                 ELSE alici.write_ptr
           /\ alici'.counter = RxSayac
           /\ alici'.pulse \in BOOLEAN
           /\ alici'.pulse = TRUE <=> Baslar \/ alici.counter = ctrl.baud_div
           /\ alici'.queue = RxKuyruk
           /\ alici'.start_pattern = Append(Tail(alici.start_pattern), Hat)
           /\ alici'.start_r \in BOOLEAN
           /\ alici'.start_r = TRUE <=> Dusus \/ (alici.start_r = TRUE /\ ~Biter)
BY DEF TipDogru, Alici

LEMMA AliciDesen ==
    ASSUME TipDogru, Alici
    PROVE  /\ alici'.start_pattern \in [1 .. 4 -> {0, 1}]
           /\ alici'.start_pattern[1] = alici.start_pattern[2]
           /\ alici'.start_pattern[2] = alici.start_pattern[3]
           /\ alici'.start_pattern[3] = alici.start_pattern[4]
           /\ alici'.start_pattern[4] = Hat
<1>1. alici.start_pattern \in [1 .. 4 -> Ikili]
  BY DEF TipDogru, Ikili
<1>2. Hat \in Ikili
  BY HatBit DEF Ikili
<1>3. alici'.start_pattern = Append(Tail(alici.start_pattern), Hat)
  BY AliciAlanlari
<1> HIDE DEF Hat
<1>4. PICK q \in [1 .. 4 -> Ikili] :
          /\ q = Append(Tail(alici.start_pattern), Hat)
          /\ q[1] = alici.start_pattern[2] /\ q[2] = alici.start_pattern[3]
          /\ q[3] = alici.start_pattern[4] /\ q[4] = Hat
  BY <1>1, <1>2, Desen
<1>5. alici'.start_pattern = q
  BY <1>3, <1>4
<1> QED
  BY <1>4, <1>5 DEF Ikili

LEMMA CtrlAlanlari ==
    /\ Kapali.baud_div = 0 /\ Kapali.tx_en = FALSE /\ Kapali.rx_en = FALSE
    /\ Acik.baud_div = BAUD /\ Acik.tx_en = TRUE /\ Acik.rx_en = TRUE
    /\ Kapali # Acik
<1>1. Kapali.baud_div = 0 /\ Acik.baud_div = BAUD
  BY DEF Kapali, Acik
<1> QED
  BY <1>1, KullanimVarsayimi DEF Kapali, Acik

LEMMA VericiAcik ==
    ASSUME TipDogru, HatDogru, Verici, ctrl = Acik
    PROVE  /\ Konum \in 0 .. BAUD
           /\ Konum' = IF Konum = BAUD THEN 0 ELSE Konum + 1
           /\ verici'.counter \in 0 .. BAUD
           /\ verici'.pulse = (verici'.counter = 0)
           /\ Konum # BAUD => verici'.state = verici.state
           /\ Konum # BAUD \/ verici.state # SON => verici'.read_ptr = verici.read_ptr
           /\ Konum = BAUD /\ verici.state = SON =>
                  verici'.read_ptr = (verici.read_ptr + 1) % TX_DERINLIK
           /\ Konum = BAUD /\ verici.state = SON => verici'.state = 0
           /\ Konum = BAUD /\ verici.state \in 1 .. SON - 1 => verici'.state = verici.state + 1
           /\ Konum = BAUD /\ verici.state = 0 /\ TxBos => verici'.state = 0
           /\ Konum = BAUD /\ verici.state = 0 /\ ~TxBos => verici'.state = 1
<1>1. /\ verici.counter \in 0 .. BAUD /\ BAUD \in Nat /\ BAUD >= 4 /\ verici.pulse \in BOOLEAN
      /\ verici.state \in 0 .. SON
  BY KullanimVarsayimi DEF TipDogru
<1>2. ctrl.baud_div = BAUD /\ ctrl.tx_en = TRUE
  BY CtrlAlanlari
<1>3. verici.pulse = TRUE <=> verici.counter = 0
  BY <1>1 DEF HatDogru
<1>4. /\ Konum \in 0 .. BAUD /\ (Konum = BAUD <=> verici.counter = 0)
      /\ Konum = IF verici.counter = 0 THEN BAUD ELSE verici.counter - 1
  BY <1>1 DEF Konum
<1>5. /\ verici'.counter = IF verici.counter = BAUD THEN 0 ELSE verici.counter + 1
      /\ verici'.pulse \in BOOLEAN
      /\ verici'.pulse = TRUE <=> verici.counter = BAUD
  BY <1>2, VericiAlanlari
<1>6. verici'.counter \in 0 .. BAUD /\ (verici'.counter = 0 <=> verici.counter = BAUD)
  BY <1>1, <1>5
<1>7. Konum' = IF verici'.counter = 0 THEN BAUD ELSE verici'.counter - 1
  BY DEF Konum
<1>8. Konum' = IF Konum = BAUD THEN 0 ELSE Konum + 1
  BY <1>1, <1>4, <1>5, <1>6, <1>7
<1>9. verici'.pulse = (verici'.counter = 0)
  BY <1>5, <1>6
<1>10. /\ verici'.state = IF Konum = BAUD THEN TxSonraki ELSE verici.state
       /\ verici'.read_ptr = IF Konum = BAUD /\ verici.state = SON
                             THEN (verici.read_ptr + 1) % TX_DERINLIK
                             ELSE verici.read_ptr
  BY <1>3, <1>4, VericiAlanlari
<1>11. TxSonraki = IF verici.state = 0 THEN (IF ~TxBos THEN 1 ELSE 0)
                   ELSE IF verici.state = SON THEN 0 ELSE verici.state + 1
  BY <1>1, <1>2, SonrakiDurum DEF TxSonraki
<1>12. SON \in Nat /\ SON > 2
  BY BoyVarsayimi DEF SON
<1>13. /\ verici.state = 0 /\ TxBos => TxSonraki = 0
       /\ verici.state = 0 /\ ~TxBos => TxSonraki = 1
       /\ verici.state = SON => TxSonraki = 0
       /\ verici.state \in 1 .. SON - 1 => TxSonraki = verici.state + 1
  BY <1>11, <1>12
<1> QED
  BY <1>4, <1>6, <1>8, <1>9, <1>10, <1>13

LEMMA AliciAcik ==
    ASSUME TipDogru, Alici, ctrl = Acik
    PROVE  /\ Biter <=> alici.pulse = TRUE /\ alici.state = SON
           /\ alici.start_r = FALSE /\ Dusus =>
                  alici'.start_r = TRUE /\ alici'.counter = BAUD /\ alici'.pulse = TRUE
           /\ alici.start_r = FALSE /\ ~Dusus /\ alici.counter \in {0, 1} =>
                  alici'.start_r = FALSE /\ alici'.counter = alici.counter
           /\ alici.start_r = TRUE =>
                  /\ alici'.counter = IF alici.counter = BAUD THEN 0 ELSE alici.counter + 1
                  /\ alici'.pulse = (alici.counter = BAUD)
                  /\ ~Biter => alici'.start_r = TRUE
                  /\ Biter /\ ~Dusus => alici'.start_r = FALSE
           /\ alici.state = 0 /\ alici.start_r = FALSE => alici'.state = 0
           /\ alici.pulse = FALSE => alici'.state = alici.state
           /\ alici.pulse = TRUE /\ alici.state = 0 /\ alici.start_r = TRUE => alici'.state = 1
           /\ alici.pulse = TRUE /\ alici.state = SON => alici'.state = 0
           /\ alici.pulse = TRUE /\ alici.state \in 1 .. SON - 1 => alici'.state = alici.state + 1
           /\ ~Biter => alici'.write_ptr = alici.write_ptr
           /\ Biter => alici'.write_ptr = (alici.write_ptr + 1) % RX_DERINLIK
           /\ alici'.counter \in 0 .. BAUD
<1>1. /\ alici.counter \in 0 .. BAUD /\ BAUD \in Nat /\ BAUD >= 4
      /\ alici.state \in 0 .. SON
  BY KullanimVarsayimi DEF TipDogru
<1>2. alici.pulse \in BOOLEAN /\ alici.start_r \in BOOLEAN
  BY DEF TipDogru
<1>3. ctrl.baud_div = BAUD /\ ctrl.rx_en = TRUE
  BY CtrlAlanlari
<1>4. Biter <=> alici.pulse = TRUE /\ alici.state = SON
  BY <1>2 DEF Biter
<1>5. Baslar <=> Dusus /\ alici.start_r = FALSE
  BY <1>2 DEF Baslar
<1>6. RxSayac = IF Baslar THEN BAUD
                ELSE IF alici.counter = BAUD THEN 0
                ELSE IF alici.start_r = TRUE THEN alici.counter + 1
                ELSE alici.counter
  BY <1>2, <1>3 DEF RxSayac
<1>7. alici'.counter = RxSayac
  BY AliciAlanlari
<1>8. /\ alici'.pulse \in BOOLEAN
      /\ alici'.pulse = TRUE <=> Baslar \/ alici.counter = BAUD
  BY <1>3, AliciAlanlari
<1>9. /\ alici'.start_r \in BOOLEAN
      /\ alici'.start_r = TRUE <=> Dusus \/ (alici.start_r = TRUE /\ ~Biter)
  BY AliciAlanlari
<1>10. SON \in Nat /\ SON > 2
  BY BoyVarsayimi DEF SON
<1>11. RxSonraki = IF alici.state = 0 THEN (IF alici.start_r = TRUE THEN 1 ELSE 0)
                   ELSE IF alici.state = SON THEN 0 ELSE alici.state + 1
  BY <1>1, <1>2, <1>3, SonrakiDurum DEF RxSonraki
<1>12. alici'.state = IF alici.pulse = TRUE THEN RxSonraki ELSE alici.state
  BY AliciAlanlari
<1>13. /\ alici.state = 0 /\ alici.start_r = FALSE => alici'.state = 0
       /\ alici.pulse = FALSE => alici'.state = alici.state
       /\ alici.pulse = TRUE /\ alici.state = 0 /\ alici.start_r = TRUE => alici'.state = 1
       /\ alici.pulse = TRUE /\ alici.state = SON => alici'.state = 0
       /\ alici.pulse = TRUE /\ alici.state \in 1 .. SON - 1 => alici'.state = alici.state + 1
  BY <1>10, <1>11, <1>12
<1>14. /\ ~Biter => alici'.write_ptr = alici.write_ptr
       /\ Biter => alici'.write_ptr = (alici.write_ptr + 1) % RX_DERINLIK
  BY AliciAlanlari
<1>15. alici.start_r = FALSE /\ Dusus =>
           alici'.start_r = TRUE /\ alici'.counter = BAUD /\ alici'.pulse = TRUE
  BY <1>5, <1>6, <1>7, <1>8, <1>9
<1>16. alici.start_r = FALSE /\ ~Dusus /\ alici.counter \in {0, 1} =>
           alici'.start_r = FALSE /\ alici'.counter = alici.counter
  BY <1>1, <1>5, <1>6, <1>7, <1>9
<1>17. ASSUME alici.start_r = TRUE
       PROVE  /\ alici'.counter = IF alici.counter = BAUD THEN 0 ELSE alici.counter + 1
              /\ alici'.pulse = (alici.counter = BAUD)
              /\ ~Biter => alici'.start_r = TRUE
              /\ Biter /\ ~Dusus => alici'.start_r = FALSE
  <2>1. ~Baslar
    BY <1>5, <1>17
  <2>2. alici'.counter = IF alici.counter = BAUD THEN 0 ELSE alici.counter + 1
    BY <1>6, <1>7, <1>17, <2>1
  <2>3. alici'.pulse = (alici.counter = BAUD)
    BY <1>8, <2>1
  <2> QED
    BY <1>9, <1>17, <2>2, <2>3
<1>18. alici'.counter \in 0 .. BAUD
  BY <1>1, <1>6, <1>7
<1> QED
  BY <1>4, <1>13, <1>14, <1>15, <1>16, <1>17, <1>18

\* The line is low in the start bit and high in the stop bit and at rest.
LEMMA HatDegeri ==
    ASSUME TipDogru
    PROVE  /\ verici.state = 1 => Hat = 0
           /\ verici.state = 0 \/ verici.state = SON => Hat = 1
<1>1. SON > 2 /\ SON \in Nat /\ SON = BIT + 2 /\ BIT \in Nat
  BY BoyVarsayimi DEF SON
<1> QED
  BY <1>1 DEF Hat, VERI

LEMMA Sayilar == BAUD \in Nat /\ BAUD >= 4 /\ SON \in Nat /\ SON > 2 /\ BIT \in Nat /\ SON = BIT + 2
BY BoyVarsayimi, KullanimVarsayimi DEF SON

\* A line that has been high has not fallen.
LEMMA YuksekDususYok ==
    ASSUME TipDogru, alici.start_pattern[3] = 1 \/ alici.start_pattern[4] = 1
    PROVE  ~Dusus
<1>1. alici.start_pattern \in [1 .. 4 -> Ikili]
  BY DEF TipDogru, Ikili
<1> QED
  BY <1>1, DususAnlami

\* The four phases of a byte on the line, each with its successors.
\* From rest, the line stays at rest or a start bit begins.
LEMMA DinlenirAdim ==
    ASSUME TipDogru, HatDogru, Verici, Alici, ctrl = Acik, Dinlenir
    PROVE  /\ ~Biter /\ alici'.start_r = FALSE
           /\ Dinlenir' \/ Fark'
           /\ verici'.state = 0 \/ verici'.state = verici.state \/ verici'.state = 1
           /\ verici'.state # 0 /\ verici.state = 0 => ~TxBos
           /\ verici.state = 0 => verici'.state # SON
<1>1. /\ verici.state = 0 \/ (verici.state = SON /\ Konum > 4)
      /\ alici.state = 0 /\ alici.start_r = FALSE /\ alici.counter \in {0, 1}
      /\ alici.start_pattern[3] = 1 /\ alici.start_pattern[4] = 1
  BY DEF Dinlenir, AliciBos, HatYuksek
<1>2. ~Dusus
  BY <1>1, YuksekDususYok
<1>3. ~Biter
  BY <1>1, Sayilar DEF Biter
<1>4. AliciBos'
  BY <1>1, <1>2, AliciAcik DEF AliciBos
<1>5. Hat = 1
  BY <1>1, HatDegeri
<1>6. alici'.start_pattern[2] = 1 /\ alici'.start_pattern[3] = 1 /\ alici'.start_pattern[4] = 1
  BY <1>1, <1>5, AliciDesen
<1>7. HatYuksek'
  BY <1>6 DEF HatYuksek
<1>8. CASE Konum # BAUD
  <2>1. verici'.state = verici.state /\ Konum' = Konum + 1 /\ Konum \in Nat
    BY <1>8, VericiAcik, Sayilar
  <2>2. Dinlenir'
    BY <1>1, <1>4, <1>7, <2>1 DEF Dinlenir
  <2> QED
    BY <1>3, <1>4, <2>1, <2>2, Sayilar DEF AliciBos
<1>9. CASE Konum = BAUD /\ verici.state = 0 /\ ~TxBos
  <2>1. verici'.state = 1 /\ Konum' = 0
    BY <1>9, VericiAcik
  <2>2. /\ \A i \in {3 - Konum', 4 - Konum'} : alici'.start_pattern[i] = 1
        /\ \A i \in 5 - Konum' .. 4 : alici'.start_pattern[i] = 0
    BY <1>6, <2>1
  <2>3. Fark'
    BY <1>4, <2>1, <2>2 DEF Fark
  <2> QED
    BY <1>3, <1>4, <1>9, <2>1, <2>3, Sayilar DEF AliciBos
<1>10. CASE Konum = BAUD /\ (verici.state = SON \/ TxBos)
  <2>1. verici'.state = 0
    BY <1>1, <1>10, VericiAcik
  <2>2. Dinlenir'
    BY <1>4, <1>7, <2>1 DEF Dinlenir
  <2> QED
    BY <1>3, <1>4, <2>1, <2>2, Sayilar DEF AliciBos
<1> QED
  BY <1>1, <1>8, <1>9, <1>10

\* The start bit is noticed in its fourth cycle.
LEMMA FarkAdim ==
    ASSUME TipDogru, HatDogru, Verici, Alici, ctrl = Acik, Fark
    PROVE  ~Biter /\ (Fark' \/ Farkedildi') /\ verici'.state = 1 /\ alici'.state = 0
<1>1. /\ verici.state = 1 /\ Konum < 3 /\ Konum \in 0 .. BAUD
      /\ alici.state = 0 /\ alici.start_r = FALSE /\ alici.counter \in {0, 1}
  BY VericiAcik DEF Fark, AliciBos
<1>2. Konum \in {0, 1, 2}
  BY <1>1, Sayilar
<1>3. /\ \A i \in {3 - Konum, 4 - Konum} : alici.start_pattern[i] = 1
      /\ \A i \in 5 - Konum .. 4 : alici.start_pattern[i] = 0
  BY DEF Fark
<1>4. ~Biter
  BY <1>1, Sayilar DEF Biter
<1>5. Hat = 0
  BY <1>1, HatDegeri
<1>6. verici'.state = 1 /\ Konum' = Konum + 1
  BY <1>1, <1>2, VericiAcik, Sayilar
<1>7. alici'.state = 0
  BY <1>1, AliciAcik
<1>8. CASE Konum = 0
  <2>1. alici.start_pattern[3] = 1 /\ alici.start_pattern[4] = 1
    BY <1>3, <1>8
  <2>2. AliciBos'
    BY <1>1, <1>7, <2>1, YuksekDususYok, AliciAcik DEF AliciBos
  <2>3. alici'.start_pattern[2] = 1 /\ alici'.start_pattern[3] = 1 /\ alici'.start_pattern[4] = 0
    BY <1>5, <2>1, AliciDesen
  <2>4. Konum' = 1
    BY <1>6, <1>8
  <2>5. /\ \A i \in {3 - Konum', 4 - Konum'} : alici'.start_pattern[i] = 1
        /\ \A i \in 5 - Konum' .. 4 : alici'.start_pattern[i] = 0
    BY <2>3, <2>4
  <2> QED
    BY <1>4, <1>6, <1>7, <2>2, <2>4, <2>5 DEF Fark
<1>9. CASE Konum = 1
  <2>1. alici.start_pattern[2] = 1 /\ alici.start_pattern[3] = 1 /\ alici.start_pattern[4] = 0
    BY <1>3, <1>9
  <2>2. AliciBos'
    BY <1>1, <1>7, <2>1, YuksekDususYok, AliciAcik DEF AliciBos
  <2>3. /\ alici'.start_pattern[1] = 1 /\ alici'.start_pattern[2] = 1
        /\ alici'.start_pattern[3] = 0 /\ alici'.start_pattern[4] = 0
    BY <1>5, <2>1, AliciDesen
  <2>4. Konum' = 2
    BY <1>6, <1>9
  <2>5. /\ \A i \in {3 - Konum', 4 - Konum'} : alici'.start_pattern[i] = 1
        /\ \A i \in 5 - Konum' .. 4 : alici'.start_pattern[i] = 0
    BY <2>3, <2>4
  <2> QED
    BY <1>4, <1>6, <1>7, <2>2, <2>4, <2>5 DEF Fark
<1>10. CASE Konum = 2
  <2>1. /\ alici.start_pattern[1] = 1 /\ alici.start_pattern[2] = 1
        /\ alici.start_pattern[3] = 0 /\ alici.start_pattern[4] = 0
    BY <1>3, <1>10
  <2>2. alici.start_pattern \in [1 .. 4 -> Ikili]
    BY DEF TipDogru, Ikili
  <2>3. Dusus
    BY <2>1, <2>2, DususAnlami
  <2>4. alici'.start_r = TRUE /\ alici'.counter = BAUD /\ alici'.pulse = TRUE
    BY <1>1, <2>3, AliciAcik
  <2>5. Konum' = 3
    BY <1>6, <1>10
  <2> QED
    BY <1>4, <1>6, <1>7, <2>4, <2>5 DEF Farkedildi
<1> QED
  BY <1>2, <1>8, <1>9, <1>10

\* Noticed, it is waited out: the receiver is then four cycles behind.
LEMMA FarkedildiAdim ==
    ASSUME TipDogru, HatDogru, Verici, Alici, ctrl = Acik, Farkedildi
    PROVE  ~Biter /\ Izler' /\ verici'.state = 1 /\ alici'.state = 1
<1>1. /\ verici.state = 1 /\ Konum = 3
      /\ alici.state = 0 /\ alici.start_r = TRUE
      /\ alici.counter = BAUD /\ alici.pulse = TRUE
  BY DEF Farkedildi
<1>2. ~Biter
  BY <1>1, Sayilar DEF Biter
<1>3. verici'.state = 1 /\ Konum' = 4
  BY <1>1, VericiAcik, Sayilar
<1>4. alici'.state = 1 /\ alici'.start_r = TRUE /\ alici'.counter = 0 /\ alici'.pulse = TRUE
  BY <1>1, <1>2, AliciAcik
<1>5. alici'.pulse = (Konum' = 4)
  BY <1>3, <1>4
<1>6. verici'.state # SON /\ verici'.state > 0
  BY <1>3, Sayilar
<1>7. alici'.state = IF Konum' < 5 THEN verici'.state ELSE verici'.state + 1
  BY <1>3, <1>4
<1>8. alici'.counter = IF Konum' < 4 THEN Konum' + BAUD - 3 ELSE Konum' - 4
  BY <1>3, <1>4
<1> QED
  BY <1>2, <1>3, <1>4, <1>5, <1>6, <1>7, <1>8 DEF Izler

\* Four cycles behind, the receiver stays so until it has taken the stop bit.
LEMMA IzlerAdim ==
    ASSUME TipDogru, HatDogru, Verici, Alici, ctrl = Acik, Izler
    PROVE  /\ Biter => Dinlenir' /\ verici.state = SON /\ Konum = 4
           /\ ~Biter => Izler'
           /\ alici.pulse = TRUE <=> Konum = 4
           /\ Konum = 4 => alici.state = verici.state
<1>1. /\ verici.state \in 1 .. SON /\ Konum \in 0 .. BAUD
      /\ verici.state = 1 => Konum > 3
      /\ verici.state = SON => /\ Konum < 5
                               /\ Konum > 0 => alici.start_pattern[4] = 1
                               /\ Konum > 1 => alici.start_pattern[3] = 1
      /\ alici.start_r = TRUE
      /\ alici.state = IF Konum < 5 THEN verici.state ELSE verici.state + 1
      /\ alici.counter = IF Konum < 4 THEN Konum + BAUD - 3 ELSE Konum - 4
  BY VericiAcik DEF Izler, TipDogru
<1>2. alici.pulse = TRUE <=> Konum = 4
  BY DEF Izler
<1>3. alici.pulse = TRUE \/ alici.pulse = FALSE
  BY DEF TipDogru
<1>4. alici.state \in 1 .. SON
  BY <1>1, Sayilar
<1>5. Biter <=> Konum = 4 /\ verici.state = SON
  <2>1. Biter <=> alici.pulse = TRUE /\ alici.state = SON
    BY AliciAcik
  <2>2. Konum = 4 => alici.state = verici.state
    BY <1>1
  <2> QED
    BY <1>2, <2>1, <2>2
<1>6. /\ alici'.counter = IF alici.counter = BAUD THEN 0 ELSE alici.counter + 1
      /\ alici'.pulse = (alici.counter = BAUD)
  BY <1>1, AliciAcik
<1>7. Konum' = IF Konum = BAUD THEN 0 ELSE Konum + 1
  BY VericiAcik
<1>8. alici'.counter = IF Konum' < 4 THEN Konum' + BAUD - 3 ELSE Konum' - 4
  BY <1>1, <1>6, <1>7, Sayilar
<1>9. alici.counter = BAUD <=> Konum' = 4
  BY <1>1, <1>7, Sayilar
<1>10. alici'.pulse = (Konum' = 4)
  BY <1>6, <1>9
<1>11. ASSUME Biter
       PROVE  Dinlenir'
  <2>1. Konum = 4 /\ verici.state = SON
    BY <1>5, <1>11
  <2>2. alici.start_pattern[3] = 1 /\ alici.start_pattern[4] = 1
    BY <1>1, <2>1
  <2>3. alici'.start_r = FALSE
    BY <1>1, <1>11, <2>2, YuksekDususYok, AliciAcik
  <2>4. alici'.state = 0
    BY <1>11, AliciAcik
  <2>5. alici'.counter \in {0, 1}
    BY <1>1, <1>6, <2>1, Sayilar
  <2>6. Hat = 1
    BY <2>1, HatDegeri
  <2>7. HatYuksek'
    BY <2>2, <2>6, AliciDesen DEF HatYuksek
  <2>8. verici'.state = 0 \/ (verici'.state = SON /\ Konum' > 4)
    <3>1. CASE BAUD = 4
      BY <2>1, <3>1, VericiAcik
    <3>2. CASE BAUD # 4
      BY <2>1, <3>2, <1>7, VericiAcik, Sayilar
    <3> QED
      BY <3>1, <3>2
  <2> QED
    BY <2>3, <2>4, <2>5, <2>7, <2>8 DEF Dinlenir, AliciBos
<1>12. ASSUME ~Biter
       PROVE  Izler'
  <2>1. ~(Konum = 4 /\ verici.state = SON)
    BY <1>5, <1>12
  <2>2. alici'.start_r = TRUE
    BY <1>1, <1>12, AliciAcik
  <2>3. CASE Konum = BAUD
    <3>1. Konum' = 0 /\ verici.state # SON
      BY <1>1, <1>7, <2>1, <2>3, Sayilar
    <3>2. verici'.state = verici.state + 1
      BY <1>1, <2>3, <3>1, VericiAcik, Sayilar
    <3>3. alici'.state = verici.state + 1
      <4>1. CASE BAUD = 4
        <5>1. alici.pulse = TRUE /\ alici.state = verici.state
          BY <1>1, <1>2, <2>3, <4>1
        <5>2. alici.state \in 1 .. SON - 1
          BY <1>1, <3>1, <5>1, Sayilar
        <5>3. alici'.state = alici.state + 1
          BY <5>1, <5>2, AliciAcik
        <5> QED
          BY <5>1, <5>3
      <4>2. CASE BAUD # 4
        <5>1. alici.pulse = FALSE /\ alici.state = verici.state + 1
          BY <1>1, <1>2, <1>3, <2>3, <4>2, Sayilar
        <5> QED
          BY <5>1, AliciAcik
      <4> QED
        BY <4>1, <4>2
    <3>4. alici'.state = IF Konum' < 5 THEN verici'.state ELSE verici'.state + 1
      BY <3>1, <3>2, <3>3
    <3>5. verici'.state > 0 /\ verici'.state # 1
      BY <1>1, <3>2
    <3>6. Konum' < 5 /\ ~(Konum' > 0) /\ ~(Konum' > 1)
      BY <3>1
    <3> QED
      BY <1>8, <1>10, <2>2, <3>4, <3>5, <3>6 DEF Izler
  <2>4. CASE Konum # BAUD
    <3>1. Konum' = Konum + 1 /\ verici'.state = verici.state
      BY <1>7, <2>4, VericiAcik
    <3>2. alici'.state = IF Konum' < 5 THEN verici'.state ELSE verici'.state + 1
      <4>1. CASE Konum = 4
        <5>1. alici.pulse = TRUE /\ alici.state = verici.state /\ verici.state # SON
          BY <1>1, <1>2, <2>1, <4>1
        <5>2. alici.state \in 1 .. SON - 1
          BY <1>1, <5>1, Sayilar
        <5>3. alici'.state = alici.state + 1
          BY <5>1, <5>2, AliciAcik
        <5> QED
          BY <3>1, <4>1, <5>1, <5>3
      <4>2. CASE Konum # 4
        <5>1. alici'.state = alici.state
          BY <1>2, <1>3, <4>2, AliciAcik
        <5> QED
          BY <1>1, <3>1, <4>2, <5>1, Sayilar
      <4> QED
        BY <4>1, <4>2
    <3>3. ASSUME verici'.state = SON
          PROVE  /\ Konum' < 5
                 /\ Konum' > 0 => alici'.start_pattern[4] = 1
                 /\ Konum' > 1 => alici'.start_pattern[3] = 1
      <4>1. verici.state = SON /\ Konum < 4
        BY <1>1, <2>1, <3>1, <3>3
      <4>2. alici'.start_pattern[4] = 1 /\ alici'.start_pattern[3] = alici.start_pattern[4]
        BY <4>1, HatDegeri, AliciDesen
      <4> QED
        BY <1>1, <3>1, <4>1, <4>2, Sayilar
    <3>4. verici'.state > 0 /\ (verici'.state = 1 => Konum' > 3)
      BY <1>1, <3>1, Sayilar
    <3> QED
      BY <1>8, <1>10, <2>2, <3>2, <3>3, <3>4 DEF Izler
  <2> QED
    BY <2>3, <2>4
<1>13. Konum = 4 => alici.state = verici.state
  BY <1>1
<1> QED
  BY <1>2, <1>5, <1>11, <1>12, <1>13

-----------------------------------------------------------------------------
Cevrim ==
    \/ IstekGorulur \/ IslemYapilir \/ Yanit
    \/ Surdur \/ Gonder \/ Al \/ Hesapla

LEMMA CtrlAdim ==
    ASSUME TipDogru, SurucuDogru, Denetleyici
    PROVE  /\ ctrl \in {Kapali, Acik} /\ ctrl' \in {Kapali, Acik}
           /\ ctrl = Acik => ctrl' = Acik
           /\ ctrl = Kapali /\ ctrl' = Acik => Cyc
           /\ ctrl' = ctrl \/ (Cyc /\ yazilim = "kur" /\ wb_ack = FALSE)
           /\ Cyc /\ yazilim = "kur" /\ wb_ack = FALSE => ctrl' = Acik
<1>1. ctrl \in {Kapali, Acik}
  BY DEF TipDogru
<1>2. ctrl' = IF Islenir /\ Yazmac = "ctrl" THEN Acik ELSE ctrl
  BY DEF Denetleyici
<1>3. Islenir <=> Cyc /\ wb_ack = FALSE
  BY DEF Islenir
<1>4. Yazmac = "ctrl" <=> yazilim = "kur"
  BY DEF TipDogru, Yazmac
<1>5. Kapali # Acik
  BY CtrlAlanlari
<1> HIDE DEF Islenir, Kapali, Acik, Cyc, Yazmac
<1>6. CASE Islenir /\ Yazmac = "ctrl"
  <2>1. ctrl' = Acik
    BY <1>2, <1>6
  <2>2. Cyc /\ yazilim = "kur" /\ wb_ack = FALSE
    BY <1>3, <1>4, <1>6
  <2> QED
    BY <1>1, <2>1, <2>2
<1>7. CASE ~(Islenir /\ Yazmac = "ctrl")
  <2>1. ctrl' = ctrl
    BY <1>2, <1>7
  <2>2. ~(Cyc /\ yazilim = "kur" /\ wb_ack = FALSE)
    BY <1>3, <1>4, <1>7
  <2> QED
    BY <1>1, <1>5, <2>1, <2>2
<1> QED
  BY <1>6, <1>7

LEMMA VericiTipi ==
    ASSUME TipDogru, HatDogru, Verici
    PROVE  /\ verici' \in [state : 0 .. SON, read_ptr : 0 .. TX_DERINLIK - 1,
                           write_ptr : 0 .. TX_DERINLIK - 1, counter : 0 .. BAUD, pulse : BOOLEAN,
                           queue : [0 .. TX_DERINLIK - 1 -> Bayt]]
           /\ ctrl = Kapali => verici'.counter = 0 /\ verici'.pulse = TRUE
<1> DEFINE s == IF verici.pulse THEN TxSonraki ELSE verici.state
           r == IF verici.pulse /\ verici.state = SON
                THEN (verici.read_ptr + 1) % TX_DERINLIK ELSE verici.read_ptr
           w == IF tx_we THEN (verici.write_ptr + 1) % TX_DERINLIK ELSE verici.write_ptr
           c == IF verici.counter = ctrl.baud_div THEN 0 ELSE verici.counter + 1
           p == verici.counter = ctrl.baud_div
           q == IF tx_we THEN [verici.queue EXCEPT ![verici.write_ptr] = cikan]
                ELSE verici.queue
<1>1. verici' = [state |-> s, read_ptr |-> r, write_ptr |-> w, counter |-> c, pulse |-> p,
                 queue |-> q]
  BY DEF Verici
<1>2. s \in 0 .. SON
  BY Sayilar, SonrakiDurum DEF TipDogru, TxSonraki
<1>3. TX_DERINLIK \in Nat /\ TX_DERINLIK > 1
  BY BoyVarsayimi
<1>4. r \in 0 .. TX_DERINLIK - 1
  <2>1. verici.read_ptr \in 0 .. TX_DERINLIK - 1
    BY DEF TipDogru
  <2> QED
    BY <1>3, <2>1
<1>5. w \in 0 .. TX_DERINLIK - 1
  <2>1. verici.write_ptr \in 0 .. TX_DERINLIK - 1
    BY DEF TipDogru
  <2> QED
    BY <1>3, <2>1
<1>6. p \in BOOLEAN
  OBVIOUS
<1>7. c \in 0 .. BAUD /\ (ctrl = Kapali => c = 0 /\ p = TRUE)
  <2>1. verici.counter \in 0 .. BAUD
    BY DEF TipDogru
  <2>2. CASE ctrl = Acik
    BY <2>1, <2>2, CtrlAlanlari, Sayilar
  <2>3. CASE ctrl = Kapali
    <3>1. verici.counter = 0
      BY <2>3 DEF HatDogru, KapaliDurur
    <3> QED
      BY <2>3, <3>1, CtrlAlanlari, Sayilar
  <2> QED
    BY <2>2, <2>3 DEF TipDogru
<1>8. q \in [0 .. TX_DERINLIK - 1 -> Bayt]
  <2>1. cikan \in Bayt
    BY BoyVarsayimi DEF TipDogru
  <2>2. verici.queue \in [0 .. TX_DERINLIK - 1 -> Bayt]
    BY DEF TipDogru
  <2> HIDE DEF Bayt
  <2> QED
    BY <2>1, <2>2
<1>9. verici'.counter = c /\ verici'.pulse = p
  BY <1>1
<1> HIDE DEF s, r, w, c, p, q
<1> QED
  BY <1>1, <1>2, <1>4, <1>5, <1>6, <1>7, <1>8, <1>9

LEMMA KuyrukTipi ==
    TipDogru => RxKuyruk \in [0 .. RX_DERINLIK - 1 -> Bayt]
<1> SUFFICES ASSUME TipDogru, VERI(alici.state)
             PROVE  [alici.queue EXCEPT ![alici.write_ptr][alici.state - 2] = Hat]
                        \in [0 .. RX_DERINLIK - 1 -> Bayt]
  BY DEF RxKuyruk, TipDogru
<1>1. alici.state - 2 \in 0 .. BIT - 1
  BY Sayilar DEF VERI
<1>2. Hat \in {0, 1}
  BY HatBit
<1>3. alici.queue \in [0 .. RX_DERINLIK - 1 -> Bayt] /\ alici.write_ptr \in 0 .. RX_DERINLIK - 1
  BY DEF TipDogru
<1>4. alici.queue[alici.write_ptr] \in Bayt
  BY <1>3
<1>5. [alici.queue[alici.write_ptr] EXCEPT ![alici.state - 2] = Hat] \in Bayt
  BY <1>1, <1>2, <1>4 DEF Bayt
<1> QED
  BY <1>3, <1>5

LEMMA AliciTipi ==
    ASSUME TipDogru, HatDogru, Alici
    PROVE  /\ alici' \in [state : 0 .. SON, read_ptr : 0 .. RX_DERINLIK - 1,
                          write_ptr : 0 .. RX_DERINLIK - 1, counter : 0 .. BAUD, pulse : BOOLEAN,
                          queue : [0 .. RX_DERINLIK - 1 -> Bayt],
                          start_pattern : [1 .. 4 -> {0, 1}], start_r : BOOLEAN]
           /\ ctrl = Kapali => ~Dusus /\ alici'.counter = 0 /\ alici'.start_r = FALSE
                                /\ alici'.state = 0
<1> DEFINE s == IF alici.pulse THEN RxSonraki ELSE alici.state
           r == IF rx_re THEN (alici.read_ptr + 1) % RX_DERINLIK ELSE alici.read_ptr
           w == IF Biter THEN (alici.write_ptr + 1) % RX_DERINLIK ELSE alici.write_ptr
           c == RxSayac
           p == Baslar \/ alici.counter = ctrl.baud_div
           q == RxKuyruk
           d == Append(Tail(alici.start_pattern), Hat)
           b == Dusus \/ (alici.start_r /\ ~Biter)
<1>1. alici' = [state |-> s, read_ptr |-> r, write_ptr |-> w, counter |-> c, pulse |-> p,
                queue |-> q, start_pattern |-> d, start_r |-> b]
  BY DEF Alici
<1>2. s \in 0 .. SON
  BY Sayilar, SonrakiDurum DEF TipDogru, RxSonraki
<1>3. RX_DERINLIK \in Nat /\ RX_DERINLIK > 1
  BY BoyVarsayimi
<1>4. r \in 0 .. RX_DERINLIK - 1
  <2>1. alici.read_ptr \in 0 .. RX_DERINLIK - 1
    BY DEF TipDogru
  <2> QED
    BY <1>3, <2>1
<1>5. w \in 0 .. RX_DERINLIK - 1
  <2>1. alici.write_ptr \in 0 .. RX_DERINLIK - 1
    BY DEF TipDogru
  <2> QED
    BY <1>3, <2>1
<1>6. p \in BOOLEAN
  OBVIOUS
<1>7. b \in BOOLEAN
  OBVIOUS
<1>8. ASSUME ctrl = Kapali
      PROVE  ~Dusus /\ c = 0 /\ alici'.start_r = FALSE /\ alici'.state = 0
  <2>1. /\ alici.state = 0 /\ alici.start_r = FALSE /\ alici.counter = 0
        /\ alici.start_pattern[4] = 1 \/ alici.start_pattern[1] = 0
    BY <1>8 DEF HatDogru, KapaliDurur
  <2>2. ~Dusus
    <3>1. alici.start_pattern \in [1 .. 4 -> Ikili]
      BY DEF TipDogru, Ikili
    <3> QED
      BY <2>1, <3>1, DususAnlami
  <2>3. c = 0
    BY <1>8, <2>1, <2>2, CtrlAlanlari DEF RxSayac, Baslar
  <2>4. alici'.start_r = FALSE
    BY <2>1, <2>2, AliciAlanlari
  <2>5. alici'.state = 0
    BY <2>1, AliciAlanlari DEF RxSonraki
  <2> QED
    BY <2>2, <2>3, <2>4, <2>5
<1>9. c \in 0 .. BAUD
  <2>1. ctrl = Acik => alici'.counter \in 0 .. BAUD
    BY AliciAcik
  <2>2. alici'.counter = c
    BY AliciAlanlari
  <2>3. ctrl \in {Kapali, Acik} /\ 0 \in 0 .. BAUD
    BY Sayilar DEF TipDogru
  <2> HIDE DEF c
  <2> QED
    BY <1>8, <2>1, <2>2, <2>3
<1>10. q \in [0 .. RX_DERINLIK - 1 -> Bayt]
  BY KuyrukTipi
<1>11. d \in [1 .. 4 -> {0, 1}]
  BY AliciDesen, AliciAlanlari
<1>12. alici'.counter = c
  BY <1>1
<1> HIDE DEF s, r, w, c, p, q, d, b
<1>13. ctrl = Kapali => ~Dusus /\ alici'.counter = 0 /\ alici'.start_r = FALSE
                                /\ alici'.state = 0
  BY <1>8, <1>12
<1>14. alici' \in [state : 0 .. SON, read_ptr : 0 .. RX_DERINLIK - 1,
                   write_ptr : 0 .. RX_DERINLIK - 1, counter : 0 .. BAUD, pulse : BOOLEAN,
                   queue : [0 .. RX_DERINLIK - 1 -> Bayt],
                   start_pattern : [1 .. 4 -> {0, 1}], start_r : BOOLEAN]
  BY <1>1, <1>2, <1>4, <1>5, <1>6, <1>7, <1>9, <1>10, <1>11
<1> QED
  BY <1>13, <1>14

\* A disabled UART does not move.
LEMMA KapaliAdim ==
    ASSUME TipDogru, SurucuDogru, HatDogru, Kenar, ctrl = Kapali
    PROVE  /\ verici'.state = 0 /\ verici'.read_ptr = verici.read_ptr
           /\ verici'.write_ptr = verici.write_ptr
           /\ ~Biter /\ Hat = 1 /\ TxBos
           /\ tx_we = FALSE /\ rx_re = FALSE
<1>1. /\ verici.state = 0 /\ alici.state = 0 /\ TxBos
      /\ wb_ack = FALSE
  BY DEF HatDogru, KapaliDurur, SurucuDogru
<1>2. tx_we = FALSE /\ rx_re = FALSE
  BY <1>1 DEF SurucuDogru
<1>3. TxSonraki = 0
  BY <1>1, CtrlAlanlari DEF TxSonraki
<1>4. verici'.state = 0
  BY <1>1, <1>3, VericiAlanlari DEF Kenar
<1>5. verici'.read_ptr = verici.read_ptr
  <2>1. verici.state # SON
    BY <1>1, Sayilar
  <2> QED
    BY <2>1, VericiAlanlari DEF Kenar
<1>6. verici'.write_ptr = verici.write_ptr
  BY <1>2, VericiAlanlari DEF Kenar
<1>7. ~Biter
  BY <1>1, Sayilar DEF Biter
<1>8. Hat = 1
  BY <1>1, HatDegeri
<1> QED
  BY <1>1, <1>2, <1>4, <1>5, <1>6, <1>7, <1>8

\* The phases are kept by every cycle.
LEMMA HatAdim ==
    ASSUME TipDogru, SurucuDogru, HatDogru, Kenar, erisim' = "veriyolu" => erisim # "ara"
    PROVE  HatDogru'
<1>1. Denetleyici /\ Verici /\ Alici
  BY DEF Kenar
<1>2. Kapali # Acik
  BY CtrlAlanlari
<1>3. CASE ctrl = Acik
  <2>1. ctrl' = Acik
    BY <1>1, <1>3, CtrlAdim
  <2>2. verici'.pulse = (verici'.counter = 0)
    BY <1>1, <1>3, VericiAcik
  <2>3. Dinlenir \/ Fark \/ Farkedildi \/ Izler
    BY <1>3 DEF HatDogru
  <2>4. Dinlenir' \/ Fark' \/ Farkedildi' \/ Izler'
    <3>1. CASE Dinlenir
      BY <1>1, <1>3, <3>1, DinlenirAdim
    <3>2. CASE Fark
      BY <1>1, <1>3, <3>2, FarkAdim
    <3>3. CASE Farkedildi
      BY <1>1, <1>3, <3>3, FarkedildiAdim
    <3>4. CASE Izler
      BY <1>1, <1>3, <3>4, IzlerAdim
    <3> QED
      BY <2>3, <3>1, <3>2, <3>3, <3>4
  <2> HIDE DEF Acik, Kapali
  <2> QED
    BY <1>2, <2>1, <2>2, <2>4 DEF HatDogru
<1>4. CASE ctrl = Kapali
  <2>1. KapaliDurur
    BY <1>4 DEF HatDogru
  <2>2. /\ verici'.state = 0 /\ verici'.read_ptr = verici.read_ptr
        /\ verici'.write_ptr = verici.write_ptr /\ Hat = 1 /\ TxBos
    BY <1>4, KapaliAdim
  <2>3. verici'.counter = 0 /\ verici'.pulse = TRUE
    BY <1>1, <1>4, VericiTipi
  <2>4. alici'.counter = 0 /\ alici'.start_r = FALSE /\ alici'.state = 0
    BY <1>1, <1>4, AliciTipi
  <2>5. alici'.start_pattern[4] = 1 /\ alici'.start_pattern[3] = alici.start_pattern[4]
    BY <1>1, <2>2, AliciDesen
  <2>6. TxBos'
    BY <2>2 DEF TxBos
  <2>7. erisim # "ara" => alici'.start_pattern[3] = 1
    BY <2>1, <2>5 DEF KapaliDurur
  <2>8. KapaliDurur'
    BY <2>2, <2>3, <2>4, <2>5, <2>6, <2>7 DEF KapaliDurur, Cyc
  <2>9. ASSUME ctrl' = Acik
        PROVE  Dinlenir' /\ verici'.pulse = (verici'.counter = 0)
    <3>1. erisim # "ara"
      BY <1>1, <1>4, <2>9, CtrlAdim DEF Cyc
    <3>2. AliciBos' /\ HatYuksek'
      BY <2>4, <2>5, <2>7, <3>1 DEF AliciBos, HatYuksek
    <3>3. verici'.pulse = (verici'.counter = 0)
      BY <2>3
    <3> QED
      BY <2>2, <3>2, <3>3 DEF Dinlenir
  <2> HIDE DEF Acik, Kapali
  <2> QED
    BY <2>8, <2>9 DEF HatDogru
<1> QED
  BY <1>3, <1>4 DEF TipDogru

\* What the phase of the line says of the byte being sent.
LEMMA EvreSonucu ==
    ASSUME TipDogru, HatDogru
    PROVE  /\ Cift <=> ctrl = Acik /\ Dinlenir /\ verici.state = SON
           /\ Biter => Izler /\ ctrl = Acik
<1>1. ctrl \in {Kapali, Acik} /\ Kapali # Acik
  BY CtrlAlanlari DEF TipDogru
<1>2. alici.start_r \in BOOLEAN /\ alici.state \in 0 .. SON
  BY DEF TipDogru
<1>3. CASE ctrl = Kapali
  <2>1. verici.state = 0 /\ alici.state = 0
    BY <1>3 DEF HatDogru, KapaliDurur
  <2> QED
    BY <1>1, <1>3, <2>1, Sayilar DEF Cift, Biter
<1>4. CASE ctrl = Acik
  <2>1. CASE Dinlenir
    BY <1>4, <2>1, Sayilar DEF Dinlenir, AliciBos, Cift, Biter
  <2>2. CASE Fark
    BY <2>2, Sayilar DEF Fark, Dinlenir, AliciBos, Cift, Biter
  <2>3. CASE Farkedildi
    BY <2>3, Sayilar DEF Farkedildi, Dinlenir, AliciBos, Cift, Biter
  <2>4. CASE Izler
    BY <1>4, <2>4, Sayilar DEF Izler, Dinlenir, AliciBos, Cift
  <2> QED
    BY <1>4, <2>1, <2>2, <2>3, <2>4 DEF HatDogru
<1> QED
  BY <1>1, <1>3, <1>4

-----------------------------------------------------------------------------
(* The queues *)

Say(w, r, d) == (w + d - r) % d

LEMMA SayDegeri ==
    ASSUME NEW d \in Nat \ {0}, NEW w \in 0 .. d - 1, NEW r \in 0 .. d - 1
    PROVE  /\ Say(w, r, d) = IF r <= w THEN w - r ELSE w + d - r
           /\ Say(w, r, d) \in 0 .. d - 1
           /\ Say(w, r, d) = 0 <=> r = w
BY DEF Say

LEMMA DoluAnlami ==
    ASSUME NEW d \in Nat \ {0}, NEW w \in 0 .. d - 1, NEW r \in 0 .. d - 1
    PROVE  (r + d - 1) % d = w <=> Say(w, r, d) = d - 1
<1>1. (r + d - 1) % d = IF r = 0 THEN d - 1 ELSE r - 1
  OBVIOUS
<1>2. Say(w, r, d) = IF r <= w THEN w - r ELSE w + d - r
  BY SayDegeri
<1>3. CASE r = 0
  BY <1>1, <1>2, <1>3
<1>4. CASE r # 0
  BY <1>1, <1>2, <1>4
<1> QED
  BY <1>3, <1>4

\* A ring that is not full holds one more after a write.
LEMMA SayYaz ==
    ASSUME NEW d \in Nat \ {0}, NEW w \in 0 .. d - 1, NEW r \in 0 .. d - 1,
           Say(w, r, d) < d - 1
    PROVE  /\ (w + 1) % d \in 0 .. d - 1
           /\ Say((w + 1) % d, r, d) = Say(w, r, d) + 1
<1>1. (w + 1) % d = IF w = d - 1 THEN 0 ELSE w + 1
  BY Artir
<1> DEFINE v == (w + 1) % d
<1>2. v \in 0 .. d - 1 /\ v = IF w = d - 1 THEN 0 ELSE w + 1
  BY <1>1
<1> HIDE DEF v
<1>3. Say(v, r, d) = Say(w, r, d) + 1
  <2>1. Say(v, r, d) = IF r <= v THEN v - r ELSE v + d - r
    BY <1>2, SayDegeri
  <2>2. Say(w, r, d) = IF r <= w THEN w - r ELSE w + d - r
    BY SayDegeri
  <2>3. CASE w = d - 1
    BY <1>2, <2>1, <2>2, <2>3
  <2>4. CASE w # d - 1
    BY <1>2, <2>1, <2>2, <2>4
  <2> QED
    BY <2>3, <2>4
<1> QED
  BY <1>2, <1>3 DEF v

\* A ring that is not empty holds one less after a read.
LEMMA SayOku ==
    ASSUME NEW d \in Nat \ {0}, NEW w \in 0 .. d - 1, NEW r \in 0 .. d - 1,
           Say(w, r, d) > 0
    PROVE  /\ (r + 1) % d \in 0 .. d - 1
           /\ Say(w, (r + 1) % d, d) = Say(w, r, d) - 1
<1>1. (r + 1) % d = IF r = d - 1 THEN 0 ELSE r + 1
  BY Artir
<1> DEFINE v == (r + 1) % d
<1>2. v \in 0 .. d - 1 /\ v = IF r = d - 1 THEN 0 ELSE r + 1
  BY <1>1
<1> HIDE DEF v
<1>3. Say(w, v, d) = Say(w, r, d) - 1
  <2>1. Say(w, v, d) = IF v <= w THEN w - v ELSE w + d - v
    BY <1>2, SayDegeri
  <2>2. Say(w, r, d) = IF r <= w THEN w - r ELSE w + d - r
    BY SayDegeri
  <2>3. CASE r = d - 1
    BY <1>2, <2>1, <2>2, <2>3
  <2>4. CASE r # d - 1
    BY <1>2, <2>1, <2>2, <2>4
  <2> QED
    BY <2>3, <2>4
<1> QED
  BY <1>2, <1>3 DEF v

LEMMA SayAdim ==
    ASSUME NEW d \in Nat \ {0}, NEW w \in 0 .. d - 1, NEW r \in 0 .. d - 1,
           NEW w2, NEW r2,
           \/ w2 = w
           \/ w2 = (w + 1) % d /\ Say(w, r, d) < d - 1,
           \/ r2 = r
           \/ r2 = (r + 1) % d /\ Say(w, r, d) > 0
    PROVE  /\ w2 = w /\ r2 = r => Say(w2, r2, d) = Say(w, r, d)
           /\ w2 # w /\ r2 = r => Say(w2, r2, d) = Say(w, r, d) + 1
           /\ w2 = w /\ r2 # r => Say(w2, r2, d) = Say(w, r, d) - 1
           /\ w2 # w /\ r2 # r => Say(w2, r2, d) = Say(w, r, d)
<1>1. Say(w, r, d) \in 0 .. d - 1
  BY SayDegeri
<1>2. CASE w2 = w
  <2>1. CASE r2 = r
    BY <1>2, <2>1
  <2>2. CASE r2 # r
    <3>1. r2 = (r + 1) % d /\ Say(w, r, d) > 0
      BY <2>2
    <3>2. Say(w, r2, d) = Say(w, r, d) - 1
      BY <3>1, SayOku
    <3> QED
      BY <1>2, <2>2, <3>2
  <2> QED
    BY <2>1, <2>2
<1>3. CASE w2 = (w + 1) % d /\ Say(w, r, d) < d - 1
  <2>1. w2 \in 0 .. d - 1 /\ Say(w2, r, d) = Say(w, r, d) + 1
    BY <1>3, SayYaz
  <2>2. w2 # w
    BY <1>1, <2>1
  <2>3. CASE r2 = r
    BY <2>1, <2>2, <2>3
  <2>4. CASE r2 # r
    <3>1. r2 = (r + 1) % d /\ Say(w2, r, d) > 0
      BY <1>1, <2>1, <2>4
    <3>2. Say(w2, r2, d) = Say(w2, r, d) - 1
      BY <2>1, <3>1, SayOku
    <3> QED
      BY <1>1, <2>1, <2>2, <2>4, <3>2
  <2> QED
    BY <2>3, <2>4
<1> QED
  BY <1>2, <1>3

\* The transmitter is done with a byte.
Cekilir == ctrl = Acik /\ Konum = BAUD /\ verici.state = SON

LEMMA SayTipleri ==
    ASSUME TipDogru
    PROVE  /\ TX_DERINLIK \in Nat \ {0} /\ RX_DERINLIK \in Nat \ {0}
           /\ verici.write_ptr \in 0 .. TX_DERINLIK - 1 /\ verici.read_ptr \in 0 .. TX_DERINLIK - 1
           /\ alici.write_ptr \in 0 .. RX_DERINLIK - 1 /\ alici.read_ptr \in 0 .. RX_DERINLIK - 1
           /\ TxSay = Say(verici.write_ptr, verici.read_ptr, TX_DERINLIK)
           /\ RxSay = Say(alici.write_ptr, alici.read_ptr, RX_DERINLIK)
           /\ TxSay \in 0 .. TX_DERINLIK - 1 /\ RxSay \in 0 .. RX_DERINLIK - 1
           /\ TxBos <=> TxSay = 0
           /\ RxBos <=> RxSay = 0
           /\ TxDolu <=> TxSay = TX_DERINLIK - 1
<1>1. TX_DERINLIK \in Nat \ {0} /\ RX_DERINLIK \in Nat \ {0}
  BY BoyVarsayimi
<1>2. /\ verici.write_ptr \in 0 .. TX_DERINLIK - 1 /\ verici.read_ptr \in 0 .. TX_DERINLIK - 1
      /\ alici.write_ptr \in 0 .. RX_DERINLIK - 1 /\ alici.read_ptr \in 0 .. RX_DERINLIK - 1
  BY DEF TipDogru
<1>3. /\ TxSay = Say(verici.write_ptr, verici.read_ptr, TX_DERINLIK)
      /\ RxSay = Say(alici.write_ptr, alici.read_ptr, RX_DERINLIK)
  BY DEF TxSay, RxSay, Say
<1>4. /\ TxSay \in 0 .. TX_DERINLIK - 1
      /\ TxSay = 0 <=> verici.read_ptr = verici.write_ptr
  BY <1>1, <1>2, <1>3, SayDegeri
<1>5. /\ RxSay \in 0 .. RX_DERINLIK - 1
      /\ RxSay = 0 <=> alici.read_ptr = alici.write_ptr
  BY <1>1, <1>2, <1>3, SayDegeri
<1>6. TxDolu <=> TxSay = TX_DERINLIK - 1
  BY <1>1, <1>2, <1>3, DoluAnlami DEF TxDolu
<1> QED
  BY <1>1, <1>2, <1>3, <1>4, <1>5, <1>6 DEF TxBos, RxBos

\* Nobody writes into a full queue or reads from an empty one.
LEMMA KuyrukSinirlari ==
    ASSUME IInv
    PROVE  /\ tx_we => TxSay < TX_DERINLIK - 1 /\ wb_ack = TRUE /\ yazilim = "gonder_yaz"
           /\ rx_re => RxSay > 0 /\ wb_ack = TRUE /\ yazilim = "al_oku"
           /\ Biter => RxSay < RX_DERINLIK - 1 /\ TxSay > 0 /\ ~Cift
           /\ Cekilir => TxSay > 0
<1>1. TipDogru /\ SurucuDogru /\ HatDogru /\ SayiDogru
  BY DEF IInv
<1>2. /\ TxSay \in 0 .. TX_DERINLIK - 1 /\ RxSay \in 0 .. RX_DERINLIK - 1
      /\ TX_DERINLIK \in Nat \ {0} /\ RX_DERINLIK \in Nat \ {0}
      /\ TxBos <=> TxSay = 0
      /\ RxBos <=> RxSay = 0
      /\ TxDolu <=> TxSay = TX_DERINLIK - 1
  BY <1>1, SayTipleri
<1>3. ASSUME tx_we
      PROVE  TxSay < TX_DERINLIK - 1 /\ wb_ack = TRUE /\ yazilim = "gonder_yaz"
  <2>1. wb_ack /\ yazilim = "gonder_yaz" /\ ~TxDolu
    BY <1>1, <1>3 DEF SurucuDogru
  <2>2. wb_ack = TRUE
    BY <1>1, <2>1 DEF TipDogru
  <2>3. TxSay < TX_DERINLIK - 1
    BY <1>2, <2>1
  <2> QED
    BY <2>1, <2>2, <2>3
<1>4. ASSUME rx_re
      PROVE  RxSay > 0 /\ wb_ack = TRUE /\ yazilim = "al_oku"
  <2>1. wb_ack /\ yazilim = "al_oku" /\ ~RxBos
    BY <1>1, <1>4 DEF SurucuDogru
  <2>2. wb_ack = TRUE
    BY <1>1, <2>1 DEF TipDogru
  <2>3. RxSay > 0
    BY <1>2, <2>1
  <2> QED
    BY <2>1, <2>2, <2>3
<1>5. verici.state # 0 => TxSay > 0
  BY <1>1, <1>2 DEF SayiDogru
<1>6. ASSUME Biter
      PROVE  RxSay < RX_DERINLIK - 1 /\ TxSay > 0 /\ ~Cift
  <2>1. Izler
    BY <1>1, <1>6, EvreSonucu
  <2>2. verici.state > 0 /\ alici.start_r = TRUE /\ verici.state \in 0 .. SON
    BY <1>1, <2>1 DEF Izler, TipDogru
  <2>3. ~Cift
    BY <2>2 DEF Cift
  <2>4. TxSay > 0
    BY <1>5, <2>2, Sayilar
  <2>5. bekleyen = RxSay + TxSay
    BY <1>1, <1>2, <2>3 DEF SayiDogru
  <2>6. bekleyen \in 0 .. SINIR
    BY <1>1 DEF TipDogru
  <2>7. RxSay < RX_DERINLIK - 1
    BY <1>2, <2>4, <2>5, <2>6, KullanimVarsayimi
  <2> QED
    BY <2>3, <2>4, <2>7
<1>7. Cekilir => TxSay > 0
  BY <1>5, Sayilar DEF Cekilir
<1> QED
  BY <1>3, <1>4, <1>6, <1>7

LEMMA KuyrukAdim ==
    ASSUME IInv, Kenar
    PROVE  /\ verici'.read_ptr = IF Cekilir THEN (verici.read_ptr + 1) % TX_DERINLIK
                                 ELSE verici.read_ptr
           /\ TxSay' = TxSay + (IF tx_we THEN 1 ELSE 0) - (IF Cekilir THEN 1 ELSE 0)
           /\ RxSay' = RxSay + (IF Biter THEN 1 ELSE 0) - (IF rx_re THEN 1 ELSE 0)
<1>1. TipDogru /\ SurucuDogru /\ HatDogru /\ SayiDogru
  BY DEF IInv
<1>2. Verici /\ Alici
  BY DEF Kenar
<1> DEFINE t == TX_DERINLIK
           r == RX_DERINLIK
<1>3. /\ t \in Nat \ {0} /\ r \in Nat \ {0}
      /\ verici.write_ptr \in 0 .. t - 1 /\ verici.read_ptr \in 0 .. t - 1
      /\ alici.write_ptr \in 0 .. r - 1 /\ alici.read_ptr \in 0 .. r - 1
      /\ TxSay = Say(verici.write_ptr, verici.read_ptr, t)
      /\ RxSay = Say(alici.write_ptr, alici.read_ptr, r)
      /\ TxSay \in 0 .. t - 1 /\ RxSay \in 0 .. r - 1
  BY <1>1, SayTipleri
<1>4. /\ TxSay' = Say(verici'.write_ptr, verici'.read_ptr, t)
      /\ RxSay' = Say(alici'.write_ptr, alici'.read_ptr, r)
  BY DEF TxSay, RxSay, Say
<1>5. verici'.read_ptr = IF Cekilir THEN (verici.read_ptr + 1) % t ELSE verici.read_ptr
  <2>1. CASE ctrl = Acik
    BY <1>1, <1>2, <2>1, VericiAcik DEF Cekilir
  <2>2. CASE ctrl = Kapali
    BY <1>1, <2>2, KapaliAdim, CtrlAlanlari DEF Cekilir
  <2> QED
    BY <1>1, <2>1, <2>2 DEF TipDogru
<1>6. verici'.write_ptr = IF tx_we THEN (verici.write_ptr + 1) % t ELSE verici.write_ptr
  BY <1>1, <1>2, VericiAlanlari
<1>7. alici'.read_ptr = IF rx_re THEN (alici.read_ptr + 1) % r ELSE alici.read_ptr
  BY <1>1, <1>2, AliciAlanlari
<1>8. alici'.write_ptr = IF Biter THEN (alici.write_ptr + 1) % r ELSE alici.write_ptr
  BY <1>1, <1>2, AliciAlanlari
<1>9. /\ tx_we => TxSay < t - 1
      /\ rx_re => RxSay > 0
      /\ Biter => RxSay < r - 1
      /\ Cekilir => TxSay > 0
  BY KuyrukSinirlari
<1>10. t > 1 /\ r > 1
  BY BoyVarsayimi
<1> HIDE DEF t, r
<1>11. /\ \A x \in 0 .. t - 1 : (x + 1) % t # x
       /\ \A x \in 0 .. r - 1 : (x + 1) % r # x
  BY <1>3, <1>10, Artir
<1>12. TxSay' = TxSay + (IF tx_we THEN 1 ELSE 0) - (IF Cekilir THEN 1 ELSE 0)
  <2> DEFINE w2 == verici'.write_ptr
             r2 == verici'.read_ptr
  <2>1. \/ w2 = verici.write_ptr
        \/ w2 = (verici.write_ptr + 1) % t /\ Say(verici.write_ptr, verici.read_ptr, t) < t - 1
    BY <1>3, <1>6, <1>9
  <2>2. \/ r2 = verici.read_ptr
        \/ r2 = (verici.read_ptr + 1) % t /\ Say(verici.write_ptr, verici.read_ptr, t) > 0
    BY <1>3, <1>5, <1>9
  <2>3. w2 # verici.write_ptr <=> tx_we
    BY <1>3, <1>6, <1>11
  <2>4. r2 # verici.read_ptr <=> Cekilir
    BY <1>3, <1>5, <1>11
  <2> HIDE DEF w2, r2
  <2>5. /\ w2 = verici.write_ptr /\ r2 = verici.read_ptr => Say(w2, r2, t) = TxSay
        /\ w2 # verici.write_ptr /\ r2 = verici.read_ptr => Say(w2, r2, t) = TxSay + 1
        /\ w2 = verici.write_ptr /\ r2 # verici.read_ptr => Say(w2, r2, t) = TxSay - 1
        /\ w2 # verici.write_ptr /\ r2 # verici.read_ptr => Say(w2, r2, t) = TxSay
    BY <1>3, <2>1, <2>2, SayAdim
  <2>6. TxSay' = Say(w2, r2, t)
    BY <1>4 DEF w2, r2
  <2> QED
    BY <1>3, <2>3, <2>4, <2>5, <2>6
<1>13. RxSay' = RxSay + (IF Biter THEN 1 ELSE 0) - (IF rx_re THEN 1 ELSE 0)
  <2> DEFINE w2 == alici'.write_ptr
             r2 == alici'.read_ptr
  <2>1. \/ w2 = alici.write_ptr
        \/ w2 = (alici.write_ptr + 1) % r /\ Say(alici.write_ptr, alici.read_ptr, r) < r - 1
    BY <1>3, <1>8, <1>9
  <2>2. \/ r2 = alici.read_ptr
        \/ r2 = (alici.read_ptr + 1) % r /\ Say(alici.write_ptr, alici.read_ptr, r) > 0
    BY <1>3, <1>7, <1>9
  <2>3. w2 # alici.write_ptr <=> Biter
    BY <1>3, <1>8, <1>11
  <2>4. r2 # alici.read_ptr <=> rx_re
    BY <1>3, <1>7, <1>11
  <2> HIDE DEF w2, r2
  <2>5. /\ w2 = alici.write_ptr /\ r2 = alici.read_ptr => Say(w2, r2, r) = RxSay
        /\ w2 # alici.write_ptr /\ r2 = alici.read_ptr => Say(w2, r2, r) = RxSay + 1
        /\ w2 = alici.write_ptr /\ r2 # alici.read_ptr => Say(w2, r2, r) = RxSay - 1
        /\ w2 # alici.write_ptr /\ r2 # alici.read_ptr => Say(w2, r2, r) = RxSay
    BY <1>3, <2>1, <2>2, SayAdim
  <2>6. RxSay' = Say(w2, r2, r)
    BY <1>4 DEF w2, r2
  <2> QED
    BY <1>3, <2>3, <2>4, <2>5, <2>6
<1> QED
  BY <1>5, <1>12, <1>13 DEF t

\* The receiver is a byte ahead from its stop bit to the transmitter's.
LEMMA CiftAdim ==
    ASSUME IInv, Kenar
    PROVE  /\ Biter /\ Cekilir => ~Cift /\ ~Cift'
           /\ Biter /\ ~Cekilir => ~Cift /\ Cift'
           /\ ~Biter /\ Cekilir => Cift /\ ~Cift'
           /\ ~Biter /\ ~Cekilir => (Cift <=> Cift')
           /\ verici'.state # 0 => ~Cekilir /\ TxSay > 0
<1>1. TipDogru /\ SurucuDogru /\ HatDogru /\ SayiDogru
  BY DEF IInv
<1>2. Verici /\ Alici
  BY DEF Kenar
<1>3. verici.state \in 0 .. SON
  BY <1>1 DEF TipDogru
<1>4. /\ TxSay \in Nat
      /\ ~TxBos => TxSay > 0
  BY <1>1, SayTipleri
<1>5. verici.state # 0 => TxSay > 0
  BY <1>1, <1>4 DEF SayiDogru
<1>6. CASE ctrl = Kapali
  <2>1. verici.state = 0 /\ verici'.state = 0 /\ ~Biter
    BY <1>1, <1>6, KapaliAdim DEF HatDogru, KapaliDurur
  <2> QED
    BY <2>1, Sayilar DEF Cift, Cekilir
<1>7. CASE ctrl = Acik
  <2>1. Cekilir => verici'.state = 0
    BY <1>1, <1>2, <1>7, VericiAcik DEF Cekilir
  <2>2. CASE Dinlenir
    <3>1. /\ ~Biter /\ alici'.start_r = FALSE
          /\ verici'.state # 0 /\ verici.state = 0 => ~TxBos
          /\ verici.state = 0 => verici'.state # SON
      BY <1>1, <1>2, <1>7, <2>2, DinlenirAdim
    <3>2. /\ alici.state = 0 /\ alici.start_r = FALSE
          /\ verici.state = 0 \/ verici.state = SON
      BY <2>2 DEF Dinlenir, AliciBos
    <3>3. alici'.state = 0
      BY <1>1, <1>2, <1>7, <3>2, AliciAcik
    <3>4. CASE verici.state = 0
      <4>1. ~Cift /\ ~Cift' /\ ~Cekilir
        BY <3>1, <3>4, Sayilar DEF Cift, Cekilir
      <4> QED
        BY <1>4, <3>1, <3>4, <4>1
    <3>5. CASE verici.state = SON /\ Konum = BAUD
      <4>1. Cekilir /\ Cift
        BY <1>7, <3>2, <3>5 DEF Cift, Cekilir
      <4>2. ~Cift'
        BY <2>1, <4>1, Sayilar DEF Cift
      <4> QED
        BY <2>1, <3>1, <4>1, <4>2
    <3>6. CASE verici.state = SON /\ Konum # BAUD
      <4>1. verici'.state = SON
        BY <1>1, <1>2, <1>7, <3>6, VericiAcik
      <4>2. Cift /\ Cift' /\ ~Cekilir
        BY <3>1, <3>2, <3>3, <3>6, <4>1 DEF Cift, Cekilir
      <4>3. TxSay > 0
        BY <1>5, <3>6, Sayilar
      <4> QED
        BY <3>1, <4>2, <4>3
    <3> QED
      BY <3>2, <3>4, <3>5, <3>6
  <2>3. CASE Fark \/ Farkedildi
    <3>1. ~Biter /\ verici'.state = 1 /\ verici.state = 1
      BY <1>1, <1>2, <1>7, <2>3, FarkAdim, FarkedildiAdim DEF Fark, Farkedildi
    <3>2. ~Cift /\ ~Cift' /\ ~Cekilir
      BY <3>1, Sayilar DEF Cift, Cekilir
    <3>3. TxSay > 0
      BY <1>5, <3>1
    <3> QED
      BY <3>1, <3>2, <3>3
  <2>4. CASE Izler
    <3>1. verici.state > 0 /\ alici.start_r = TRUE /\ (verici.state = SON => Konum < 5)
      BY <2>4 DEF Izler
    <3>2. ~Cift
      BY <3>1 DEF Cift
    <3>3. TxSay > 0
      BY <1>3, <1>5, <3>1, Sayilar
    <3>4. /\ Biter => Dinlenir' /\ verici.state = SON /\ Konum = 4
          /\ ~Biter => Izler'
          /\ alici.pulse = TRUE <=> Konum = 4
          /\ Konum = 4 => alici.state = verici.state
      BY <1>1, <1>2, <1>7, <2>4, IzlerAdim
    <3>5. CASE Biter
      <4>1. verici.state = SON /\ Konum = 4 /\ Dinlenir'
        BY <3>4, <3>5
      <4>2. CASE BAUD = 4
        <5>1. Cekilir
          BY <1>7, <4>1, <4>2 DEF Cekilir
        <5>2. ~Cift'
          BY <2>1, <5>1, Sayilar DEF Cift
        <5> QED
          BY <2>1, <3>2, <3>5, <5>1, <5>2
      <4>3. CASE BAUD # 4
        <5>1. ~Cekilir
          BY <4>1, <4>3 DEF Cekilir
        <5>2. verici'.state = SON
          BY <1>1, <1>2, <1>7, <4>1, <4>3, VericiAcik
        <5>3. Cift'
          BY <4>1, <5>2 DEF Dinlenir, AliciBos, Cift
        <5> QED
          BY <3>2, <3>3, <3>5, <5>1, <5>3
      <4> QED
        BY <4>2, <4>3
    <3>6. CASE ~Biter
      <4>1. ~Cift'
        BY <3>4, <3>6 DEF Izler, Cift
      <4>2. ~Cekilir
        <5>1. ASSUME Cekilir
              PROVE  FALSE
          <6>1. verici.state = SON /\ Konum = BAUD
            BY <5>1 DEF Cekilir
          <6>2. Konum = 4
            BY <3>1, <6>1, Sayilar
          <6>3. alici.pulse = TRUE /\ alici.state = SON
            BY <3>4, <6>1, <6>2
          <6> QED
            BY <3>6, <6>3 DEF Biter
        <5> QED
          BY <5>1
      <4> QED
        BY <3>2, <3>3, <3>6, <4>1, <4>2
    <3> QED
      BY <3>5, <3>6
  <2> QED
    BY <1>1, <1>7, <2>2, <2>3, <2>4 DEF HatDogru
<1> QED
  BY <1>1, <1>6, <1>7 DEF TipDogru

LEMMA SayiAdim ==
    ASSUME IInv, Kenar, TipDogru',
           bekleyen' = bekleyen + (IF tx_we THEN 1 ELSE 0) - (IF rx_re THEN 1 ELSE 0)
    PROVE  SayiDogru'
<1> DEFINE y == IF tx_we THEN 1 ELSE 0
           o == IF rx_re THEN 1 ELSE 0
           c == IF Cekilir THEN 1 ELSE 0
           b == IF Biter THEN 1 ELSE 0
           f == IF Cift THEN 1 ELSE 0
           g == IF Cift' THEN 1 ELSE 0
<1>1. /\ TxSay \in Nat /\ RxSay \in Nat
      /\ bekleyen = RxSay + TxSay - f
  BY SayTipleri DEF IInv, SayiDogru
<1>2. TxSay' = TxSay + y - c
  BY KuyrukAdim
<1>3. RxSay' = RxSay + b - o
  BY KuyrukAdim
<1>4. bekleyen' = bekleyen + y - o
  OBVIOUS
<1>5. g - f = b - c
  BY CiftAdim
<1>6. y \in 0 .. 1 /\ o \in 0 .. 1 /\ c \in 0 .. 1 /\ b \in 0 .. 1 /\ f \in 0 .. 1 /\ g \in 0 .. 1
  OBVIOUS
<1>7. ASSUME verici'.state # 0
      PROVE  ~TxBos'
  <2>1. TxSay > 0 /\ c = 0
    BY <1>7, CiftAdim
  <2>2. TxSay' > 0
    <3> HIDE DEF y, c
    <3> QED
      BY <1>1, <1>2, <1>6, <2>1
  <2>3. TxSay' = Say(verici'.write_ptr, verici'.read_ptr, TX_DERINLIK)
    BY DEF TxSay, Say
  <2>4. /\ verici'.write_ptr \in 0 .. TX_DERINLIK - 1
        /\ verici'.read_ptr \in 0 .. TX_DERINLIK - 1
    BY DEF TipDogru
  <2>5. TX_DERINLIK \in Nat \ {0}
    BY BoyVarsayimi
  <2>6. Say(verici'.write_ptr, verici'.read_ptr, TX_DERINLIK) = 0
            <=> verici'.read_ptr = verici'.write_ptr
    BY <2>4, <2>5, SayDegeri
  <2>7. verici'.read_ptr # verici'.write_ptr
    BY <2>2, <2>3, <2>6
  <2> QED
    BY <2>7 DEF TxBos
<1> HIDE DEF y, o, c, b, f, g
<1>8. bekleyen' = RxSay' + TxSay' - g
  BY <1>1, <1>2, <1>3, <1>4, <1>5, <1>6
<1> QED
  BY <1>7, <1>8 DEF SayiDogru, g

\* A byte in the transmitter stays as it is until it is out.
LEMMA GonderilenKorunur ==
    ASSUME IInv, Kenar, verici.state # 0, ~Cekilir
    PROVE  /\ verici'.read_ptr = verici.read_ptr
           /\ verici'.queue[verici.read_ptr] = verici.queue[verici.read_ptr]
<1>1. verici'.read_ptr = verici.read_ptr
  BY KuyrukAdim
<1>2. ~TxBos
  BY DEF IInv, SayiDogru
<1>3. verici'.queue = IF tx_we THEN [verici.queue EXCEPT ![verici.write_ptr] = cikan]
                      ELSE verici.queue
  BY VericiAlanlari DEF IInv, Kenar
<1>4. /\ verici.queue \in [0 .. TX_DERINLIK - 1 -> Bayt]
      /\ verici.read_ptr \in 0 .. TX_DERINLIK - 1
  BY DEF IInv, TipDogru
<1>5. verici.read_ptr # verici.write_ptr
  BY <1>2 DEF TxBos
<1> QED
  BY <1>1, <1>3, <1>4, <1>5

\* A data bit is read from the line while the transmitter shows that bit.
LEMMA VeriAdim ==
    ASSUME IInv, Kenar
    PROVE  VeriDogru'
<1>1. TipDogru /\ SurucuDogru /\ HatDogru /\ SayiDogru /\ VeriDogru
  BY DEF IInv
<1>2. Verici /\ Alici
  BY DEF Kenar
<1> SUFFICES ASSUME alici'.start_r, NEW k \in 0 .. BIT - 1, k + 2 < alici'.state
             PROVE  alici'.queue[alici'.write_ptr][k] = verici'.queue[verici'.read_ptr][k]
  BY DEF VeriDogru
<1>3. alici'.start_r = TRUE
  BY <1>1, <1>2, AliciAlanlari
<1>4. ctrl = Acik
  BY <1>1, <1>2, <1>3, AliciTipi DEF TipDogru
<1>5. alici.queue \in [0 .. RX_DERINLIK - 1 -> Bayt] /\ alici.write_ptr \in 0 .. RX_DERINLIK - 1
  BY <1>1 DEF TipDogru
<1>6. alici'.queue = RxKuyruk
  BY <1>1, <1>2, AliciAlanlari
<1>7. CASE Dinlenir
  BY <1>1, <1>2, <1>3, <1>4, <1>7, DinlenirAdim
<1>8. CASE Fark
  <2>1. alici'.state = 0
    BY <1>1, <1>2, <1>4, <1>8, FarkAdim
  <2> QED
    BY <2>1, Sayilar
<1>9. CASE Farkedildi
  <2>1. alici'.state = 1
    BY <1>1, <1>2, <1>4, <1>9, FarkedildiAdim
  <2> QED
    BY <2>1, Sayilar
<1>10. CASE Izler
  <2>1. /\ Biter => Dinlenir'
        /\ alici.pulse = TRUE <=> Konum = 4
        /\ Konum = 4 => alici.state = verici.state
    BY <1>1, <1>2, <1>4, <1>10, IzlerAdim
  <2>2. ~Biter
    BY <1>3, <2>1 DEF Dinlenir, AliciBos
  <2>3. alici'.write_ptr = alici.write_ptr
    BY <1>1, <1>2, <1>4, <2>2, AliciAcik
  <2>4. verici.state # 0 /\ verici.state > 0 /\ alici.start_r = TRUE
    BY <1>1, <1>10 DEF Izler, TipDogru
  <2>5. ~Cekilir
    BY <2>2, <2>4, CiftAdim DEF Cift
  <2>6. /\ verici'.read_ptr = verici.read_ptr
        /\ verici'.queue[verici.read_ptr] = verici.queue[verici.read_ptr]
    BY <2>4, <2>5, GonderilenKorunur
  <2>7. k + 2 < alici.state =>
            alici.queue[alici.write_ptr][k] = verici.queue[verici.read_ptr][k]
    BY <1>1, <2>4 DEF VeriDogru
  <2>8. CASE alici.pulse = TRUE /\ VERI(alici.state)
    <3>1. alici.state = verici.state /\ alici.state \in 2 .. BIT + 1
      BY <2>1, <2>8 DEF VERI
    <3>2. RxKuyruk = [alici.queue EXCEPT ![alici.write_ptr][alici.state - 2] = Hat]
      BY <2>8 DEF RxKuyruk
    <3>3. alici'.queue[alici.write_ptr]
              = [alici.queue[alici.write_ptr] EXCEPT ![alici.state - 2] = Hat]
      BY <1>5, <1>6, <3>2
    <3>4. alici.queue[alici.write_ptr] \in [0 .. BIT - 1 -> {0, 1}]
      BY <1>5 DEF Bayt
    <3>5. alici'.state = alici.state + 1
      <4>1. alici.state \in 1 .. SON - 1
        BY <3>1, Sayilar
      <4> QED
        BY <1>1, <1>2, <1>4, <2>8, <4>1, AliciAcik
    <3>6. Hat = verici.queue[verici.read_ptr][alici.state - 2]
      BY <3>1, Sayilar DEF Hat, VERI
    <3> HIDE DEF Hat
    <3>7. CASE k = alici.state - 2
      <4>1. alici'.queue[alici.write_ptr][k] = Hat
        BY <3>3, <3>4, <3>7
      <4>2. Hat = verici.queue[verici.read_ptr][k]
        BY <3>6, <3>7
      <4> QED
        BY <2>3, <2>6, <4>1, <4>2
    <3>8. CASE k # alici.state - 2
      <4>1. k + 2 < alici.state
        BY <3>1, <3>5, <3>8, Sayilar
      <4>2. alici'.queue[alici.write_ptr][k] = alici.queue[alici.write_ptr][k]
        BY <3>3, <3>4, <3>8
      <4> QED
        BY <2>3, <2>6, <2>7, <4>1, <4>2
    <3> QED
      BY <3>7, <3>8
  <2>9. CASE ~(alici.pulse = TRUE /\ VERI(alici.state))
    <3>1. alici'.queue = alici.queue
      BY <1>6, <2>9 DEF RxKuyruk
    <3>2. k + 2 < alici.state
      <4>1. CASE alici.pulse = FALSE
        BY <1>1, <1>2, <1>4, <4>1, AliciAcik
      <4>2. CASE alici.pulse = TRUE
        <5>1. alici.state = verici.state /\ ~VERI(alici.state) /\ alici.state \in 1 .. SON
          BY <1>1, <2>1, <2>4, <2>9, <4>2, Sayilar DEF TipDogru
        <5>2. alici.state # SON
          BY <2>2, <4>2 DEF Biter
        <5>3. alici.state = 1
          BY <5>1, <5>2, Sayilar DEF VERI
        <5>4. alici'.state = 2
          <6>1. alici.state \in 1 .. SON - 1
            BY <5>3, Sayilar
          <6>2. alici'.state = alici.state + 1
            BY <1>1, <1>2, <1>4, <4>2, <6>1, AliciAcik
          <6> QED
            BY <5>3, <6>2
        <5> QED
          BY <5>4, Sayilar
      <4> QED
        BY <1>1, <4>1, <4>2 DEF TipDogru
    <3> QED
      BY <2>3, <2>6, <2>7, <3>1, <3>2
  <2> QED
    BY <2>8, <2>9
<1> QED
  BY <1>1, <1>4, <1>7, <1>8, <1>9, <1>10 DEF HatDogru

-----------------------------------------------------------------------------
(* The driver *)

\* A byte is read only if one is unread, and sent only while fewer than SINIR are.
LEMMA BekleyenSiniri ==
    ASSUME IInv
    PROVE  /\ rx_re => bekleyen > 0
           /\ tx_we => bekleyen < SINIR
<1>1. /\ TxSay \in Nat /\ RxSay \in Nat
      /\ TxBos <=> TxSay = 0
  BY SayTipleri DEF IInv
<1>2. bekleyen = RxSay + TxSay - (IF Cift THEN 1 ELSE 0)
  BY DEF IInv, SayiDogru
<1>3. Cift => TxSay > 0
  <2>1. Cift => verici.state # 0
    BY Sayilar DEF Cift
  <2> QED
    BY <1>1, <2>1 DEF IInv, SayiDogru
<1>4. rx_re => bekleyen > 0
  <2>1. rx_re => RxSay > 0
    BY KuyrukSinirlari
  <2>2. CASE Cift
    BY <1>1, <1>2, <1>3, <2>1, <2>2
  <2>3. CASE ~Cift
    BY <1>1, <1>2, <2>1, <2>3
  <2> QED
    BY <2>2, <2>3
<1>5. tx_we => bekleyen < SINIR
  BY KuyrukSinirlari DEF IInv, SurucuDogru
<1> QED
  BY <1>4, <1>5

\* When an access is not acknowledged in this cycle, no queue is told of one.
LEMMA OnaysizIs ==
    ASSUME IInv
    PROVE  /\ tx_we \in BOOLEAN /\ rx_re \in BOOLEAN /\ wb_ack \in BOOLEAN
           /\ tx_we = TRUE <=> Cyc /\ wb_ack = TRUE /\ yazilim = "gonder_yaz"
           /\ rx_re = TRUE <=> Cyc /\ wb_ack = TRUE /\ yazilim = "al_oku"
           /\ wb_ack = TRUE => Cyc
<1>1. tx_we \in BOOLEAN /\ rx_re \in BOOLEAN /\ wb_ack \in BOOLEAN
  BY DEF IInv, TipDogru
<1>2. /\ tx_we = (Cyc /\ wb_ack /\ yazilim = "gonder_yaz")
      /\ rx_re = (Cyc /\ wb_ack /\ yazilim = "al_oku")
      /\ ~Cyc => wb_ack = FALSE
  BY DEF IInv, SurucuDogru
<1> HIDE DEF Cyc
<1> QED
  BY <1>1, <1>2

LEMMA CevrimOzeti ==
    ASSUME IInv, Cevrim
    PROVE  /\ Kenar
           /\ erisim' = "veriyolu" => erisim # "ara"
           /\ bekleyen' = bekleyen + (IF tx_we THEN 1 ELSE 0) - (IF rx_re THEN 1 ELSE 0)
           /\ bekleyen' \in 0 .. SINIR
           /\ cikan' \in Baytlar
           /\ yazilim' \in {"kur", "serbest", "gonder_durum", "gonder_yaz", "al_durum", "al_oku"}
           /\ erisim' \in {"ara", "istek", "veriyolu"}
           /\ okunan' = IF rx_re THEN wb_dat.veri ELSE YOK
<1>1. /\ cikan \in Baytlar /\ bekleyen \in 0 .. SINIR
      /\ yazilim \in {"kur", "serbest", "gonder_durum", "gonder_yaz", "al_durum", "al_oku"}
      /\ erisim \in {"ara", "istek", "veriyolu"}
  BY DEF IInv, TipDogru
<1>2. Kenar
  BY DEF Cevrim, IstekGorulur, IslemYapilir, Yanit, Surdur, Gonder, Al, Hesapla
<1>3. SINIR \in Nat
  BY KullanimVarsayimi, BoyVarsayimi
<1>4. CASE IstekGorulur \/ IslemYapilir \/ Surdur \/ Gonder \/ Al \/ Hesapla
  <2>1. ~Cyc \/ wb_ack = FALSE
    BY <1>4 DEF IstekGorulur, IslemYapilir, Surdur, Gonder, Al, Hesapla, Bosta, Cyc, Islenir
  <2>2. tx_we = FALSE /\ rx_re = FALSE
    BY <2>1, OnaysizIs
  <2>3. bekleyen' = bekleyen
    BY <1>4 DEF IstekGorulur, IslemYapilir, Surdur, Gonder, Al, Hesapla
  <2>4. okunan' = YOK /\ cikan' \in Baytlar
    BY <1>1, <1>4 DEF IstekGorulur, IslemYapilir, Surdur, Gonder, Al, Hesapla
  <2>5. /\ erisim' = "veriyolu" => erisim # "ara"
        /\ yazilim' \in {"kur", "serbest", "gonder_durum", "gonder_yaz", "al_durum", "al_oku"}
        /\ erisim' \in {"ara", "istek", "veriyolu"}
    BY <1>1, <1>4 DEF IstekGorulur, IslemYapilir, Surdur, Gonder, Al, Hesapla, Bosta, Islenir,
                      Cyc, BaslatErisim
  <2>6. bekleyen' = bekleyen + (IF tx_we THEN 1 ELSE 0) - (IF rx_re THEN 1 ELSE 0)
    BY <1>1, <1>3, <2>2, <2>3
  <2> QED
    BY <1>1, <1>2, <2>2, <2>3, <2>4, <2>5, <2>6
<1>5. CASE Yanit
  <2>1. Cyc /\ wb_ack = TRUE
    BY <1>5, OnaysizIs DEF Yanit
  <2>2. /\ tx_we = TRUE <=> yazilim = "gonder_yaz"
        /\ rx_re = TRUE <=> yazilim = "al_oku"
        /\ tx_we \in BOOLEAN /\ rx_re \in BOOLEAN
    BY <2>1, OnaysizIs
  <2>3. erisim' = "ara" /\ cikan' = cikan
    BY <1>5 DEF Yanit
  <2>4. yazilim' \in {"kur", "serbest", "gonder_durum", "gonder_yaz", "al_durum", "al_oku"}
    BY <1>5 DEF Yanit
  <2>5. okunan' = IF rx_re THEN wb_dat.veri ELSE YOK
    BY <1>5, <2>2 DEF Yanit
  <2>6. bekleyen' = CASE yazilim = "gonder_yaz" -> bekleyen + 1
                      [] yazilim = "al_oku" -> bekleyen - 1
                      [] OTHER -> bekleyen
    BY <1>5 DEF Yanit
  <2>7. bekleyen' = bekleyen + (IF tx_we THEN 1 ELSE 0) - (IF rx_re THEN 1 ELSE 0)
    <3>1. CASE yazilim = "gonder_yaz"
      BY <1>1, <1>3, <2>2, <2>6, <3>1
    <3>2. CASE yazilim = "al_oku"
      BY <1>1, <1>3, <2>2, <2>6, <3>2
    <3>3. CASE yazilim # "gonder_yaz" /\ yazilim # "al_oku"
      BY <1>1, <1>3, <2>2, <2>6, <3>3
    <3> QED
      BY <3>1, <3>2, <3>3
  <2>8. bekleyen' \in 0 .. SINIR
    <3>1. CASE yazilim = "gonder_yaz"
      <4>1. bekleyen < SINIR
        BY <2>2, <3>1, BekleyenSiniri
      <4> QED
        BY <1>1, <1>3, <2>6, <3>1, <4>1
    <3>2. CASE yazilim = "al_oku"
      <4>1. bekleyen > 0
        BY <2>2, <3>2, BekleyenSiniri
      <4> QED
        BY <1>1, <1>3, <2>6, <3>2, <4>1
    <3>3. CASE yazilim # "gonder_yaz" /\ yazilim # "al_oku"
      BY <1>1, <2>6, <3>3
    <3> QED
      BY <3>1, <3>2, <3>3
  <2> QED
    BY <1>1, <1>2, <2>3, <2>4, <2>5, <2>7, <2>8
<1> QED
  BY <1>4, <1>5 DEF Cevrim

LEMMA DenetleyiciAlanlari ==
    ASSUME IInv, Denetleyici
    PROVE  /\ wb_ack' = TRUE <=> Cyc /\ wb_ack = FALSE
           /\ wb_ack' \in BOOLEAN
           /\ tx_we' = (Cyc /\ wb_ack = FALSE /\ yazilim = "gonder_yaz")
           /\ rx_re' = (Cyc /\ wb_ack = FALSE /\ yazilim = "al_oku")
           /\ wb_dat' \in [tx_full : BOOLEAN, rx_empty : BOOLEAN, veri : Bayt]
           /\ Cyc /\ yazilim = "gonder_durum" => wb_dat'.tx_full = TxDolu
           /\ Cyc /\ yazilim = "al_durum" => wb_dat'.rx_empty = RxBos
           /\ rx_re' => wb_dat'.veri = alici.queue[alici.read_ptr]
<1>1. TipDogru /\ SurucuDogru
  BY DEF IInv
<1>2. wb_ack \in BOOLEAN
  BY <1>1 DEF TipDogru
<1>3. /\ Yazmac = "wdata" <=> yazilim = "gonder_yaz"
      /\ Yazmac = "rdata" <=> yazilim = "al_oku"
      /\ Yazmac = "durum" <=> yazilim \in {"gonder_durum", "al_durum"}
  BY <1>1 DEF TipDogru, Yazmac
<1>4. /\ yazilim = "gonder_yaz" => ~TxDolu
      /\ yazilim = "al_oku" => ~RxBos
      /\ wb_ack = TRUE => Cyc
  BY <1>1, OnaysizIs DEF SurucuDogru
<1>5. Islenir <=> Cyc /\ wb_ack = FALSE
  BY DEF Islenir
<1> HIDE DEF Cyc, Islenir, Yazmac
<1>6. wb_ack' \in BOOLEAN /\ (wb_ack' = TRUE <=> Cyc /\ wb_ack = FALSE)
  BY <1>2, <1>4 DEF Denetleyici
<1>7. tx_we' = (Cyc /\ wb_ack = FALSE /\ yazilim = "gonder_yaz")
  BY <1>3, <1>4, <1>5 DEF Denetleyici
<1>8. rx_re' = (Cyc /\ wb_ack = FALSE /\ yazilim = "al_oku")
  BY <1>3, <1>4, <1>5 DEF Denetleyici
<1>9. wb_dat \in [tx_full : BOOLEAN, rx_empty : BOOLEAN, veri : Bayt]
  BY <1>1 DEF TipDogru
<1>10. TxDolu \in BOOLEAN /\ RxBos \in BOOLEAN
  BY DEF TxDolu, RxBos
<1>11. alici.queue[alici.read_ptr] \in Bayt
  BY <1>1 DEF TipDogru
<1>12. wb_dat' = CASE Cyc /\ Yazmac = "durum" ->
                         [wb_dat EXCEPT !.tx_full = TxDolu, !.rx_empty = RxBos]
                   [] Islenir /\ Yazmac = "rdata" /\ ~RxBos ->
                         [wb_dat EXCEPT !.veri = alici.queue[alici.read_ptr]]
                   [] OTHER -> wb_dat
  BY DEF Denetleyici
<1> DEFINE d == TxDolu
           e == RxBos
           v == alici.queue[alici.read_ptr]
<1> HIDE DEF TxDolu, RxBos
<1>13. CASE Cyc /\ Yazmac = "durum"
  <2>1. wb_dat' = [wb_dat EXCEPT !.tx_full = TxDolu, !.rx_empty = RxBos]
    BY <1>12, <1>13
  <2>2. wb_dat' = [tx_full |-> d, rx_empty |-> e, veri |-> wb_dat.veri]
    BY <1>9, <2>1
  <2>3. wb_dat'.tx_full = TxDolu /\ wb_dat'.rx_empty = RxBos
    BY <2>2
  <2>4. wb_dat.veri \in Bayt
    BY <1>9
  <2>5. wb_dat' \in [tx_full : BOOLEAN, rx_empty : BOOLEAN, veri : Bayt]
    <3>1. d \in BOOLEAN /\ e \in BOOLEAN
      BY <1>10
    <3> HIDE DEF d, e
    <3> QED
      BY <2>2, <2>4, <3>1
  <2>6. rx_re' = FALSE
    BY <1>3, <1>8, <1>13
  <2> QED
    BY <1>6, <1>7, <1>8, <2>3, <2>5, <2>6
<1>14. CASE ~(Cyc /\ Yazmac = "durum") /\ Islenir /\ Yazmac = "rdata" /\ ~RxBos
  <2>1. wb_dat' = [wb_dat EXCEPT !.veri = v]
    BY <1>12, <1>14
  <2>2. wb_dat' \in [tx_full : BOOLEAN, rx_empty : BOOLEAN, veri : Bayt]
    BY <1>9, <1>11, <2>1
  <2>3. wb_dat'.veri = v
    BY <1>9, <2>1
  <2> QED
    BY <1>3, <1>6, <1>7, <1>8, <1>14, <2>2, <2>3
<1>15. CASE ~(Cyc /\ Yazmac = "durum") /\ ~(Islenir /\ Yazmac = "rdata" /\ ~RxBos)
  <2>1. wb_dat' = wb_dat
    BY <1>12, <1>15
  <2>2. rx_re' = FALSE
    BY <1>3, <1>4, <1>5, <1>8, <1>15
  <2>3. ~(Cyc /\ yazilim \in {"gonder_durum", "al_durum"})
    BY <1>3, <1>15
  <2> QED
    BY <1>6, <1>7, <1>8, <1>9, <2>1, <2>2, <2>3
<1> QED
  BY <1>13, <1>14, <1>15

LEMMA TipAdim ==
    ASSUME IInv, Cevrim
    PROVE  TipDogru'
<1>1. TipDogru /\ SurucuDogru /\ HatDogru
  BY DEF IInv
<1>2. Denetleyici /\ Verici /\ Alici
  BY CevrimOzeti DEF Kenar
<1>3. /\ wb_ack' \in BOOLEAN
      /\ wb_dat' \in [tx_full : BOOLEAN, rx_empty : BOOLEAN, veri : Bayt]
  BY <1>2, DenetleyiciAlanlari
<1>4. tx_we' \in BOOLEAN /\ rx_re' \in BOOLEAN
  BY <1>2 DEF Denetleyici
<1>5. ctrl' \in {Kapali, Acik}
  BY <1>1, <1>2, CtrlAdim
<1>6. /\ verici' \in [state : 0 .. SON, read_ptr : 0 .. TX_DERINLIK - 1,
                      write_ptr : 0 .. TX_DERINLIK - 1, counter : 0 .. BAUD, pulse : BOOLEAN,
                      queue : [0 .. TX_DERINLIK - 1 -> Bayt]]
  BY <1>1, <1>2, VericiTipi
<1>7. /\ alici' \in [state : 0 .. SON, read_ptr : 0 .. RX_DERINLIK - 1,
                     write_ptr : 0 .. RX_DERINLIK - 1, counter : 0 .. BAUD, pulse : BOOLEAN,
                     queue : [0 .. RX_DERINLIK - 1 -> Bayt],
                     start_pattern : [1 .. 4 -> {0, 1}], start_r : BOOLEAN]
  BY <1>1, <1>2, AliciTipi
<1>8. /\ cikan' \in Baytlar /\ bekleyen' \in 0 .. SINIR
      /\ yazilim' \in {"kur", "serbest", "gonder_durum", "gonder_yaz", "al_durum", "al_oku"}
      /\ erisim' \in {"ara", "istek", "veriyolu"}
  BY CevrimOzeti
<1> QED
  BY <1>3, <1>4, <1>5, <1>6, <1>7, <1>8 DEF TipDogru

\* What the driver has read of the status is made untrue by nobody but the driver.
LEMMA DurumKorunur ==
    ASSUME IInv, Kenar, TipDogru'
    PROVE  /\ tx_we = FALSE /\ ~TxDolu => ~TxDolu'
           /\ rx_re = FALSE /\ ~RxBos =>
                  /\ ~RxBos'
                  /\ alici'.queue[alici'.read_ptr] = alici.queue[alici.read_ptr]
<1>1. /\ TX_DERINLIK \in Nat \ {0} /\ RX_DERINLIK \in Nat \ {0}
      /\ TxSay \in 0 .. TX_DERINLIK - 1 /\ RxSay \in 0 .. RX_DERINLIK - 1
      /\ RxBos <=> RxSay = 0
      /\ TxDolu <=> TxSay = TX_DERINLIK - 1
  BY SayTipleri DEF IInv
<1>2. /\ TxSay' = TxSay + (IF tx_we THEN 1 ELSE 0) - (IF Cekilir THEN 1 ELSE 0)
      /\ RxSay' = RxSay + (IF Biter THEN 1 ELSE 0) - (IF rx_re THEN 1 ELSE 0)
  BY KuyrukAdim
<1>3. /\ verici'.write_ptr \in 0 .. TX_DERINLIK - 1 /\ verici'.read_ptr \in 0 .. TX_DERINLIK - 1
      /\ alici'.write_ptr \in 0 .. RX_DERINLIK - 1 /\ alici'.read_ptr \in 0 .. RX_DERINLIK - 1
  BY DEF TipDogru
<1>4. /\ TxSay' = Say(verici'.write_ptr, verici'.read_ptr, TX_DERINLIK)
      /\ RxSay' = Say(alici'.write_ptr, alici'.read_ptr, RX_DERINLIK)
  BY DEF TxSay, RxSay, Say
<1>5. TxDolu' <=> TxSay' = TX_DERINLIK - 1
  BY <1>1, <1>3, <1>4, DoluAnlami DEF TxDolu
<1>6. RxBos' <=> RxSay' = 0
  BY <1>1, <1>3, <1>4, SayDegeri DEF RxBos
<1>7. ASSUME tx_we = FALSE, ~TxDolu
      PROVE  ~TxDolu'
  <2>1. TxSay' = TxSay \/ TxSay' = TxSay - 1
    BY <1>1, <1>2, <1>7
  <2> QED
    BY <1>1, <1>5, <1>7, <2>1
<1>8. ASSUME rx_re = FALSE, ~RxBos
      PROVE  /\ ~RxBos'
             /\ alici'.queue[alici'.read_ptr] = alici.queue[alici.read_ptr]
  <2>1. RxSay' = RxSay \/ RxSay' = RxSay + 1
    BY <1>1, <1>2, <1>8
  <2>2. ~RxBos'
    BY <1>1, <1>6, <1>8, <2>1
  <2>3. alici'.read_ptr = alici.read_ptr /\ alici'.queue = RxKuyruk
    BY <1>8, AliciAlanlari DEF IInv, Kenar
  <2>4. alici.queue \in [0 .. RX_DERINLIK - 1 -> Bayt] /\ alici.read_ptr \in 0 .. RX_DERINLIK - 1
    BY DEF IInv, TipDogru
  <2>5. alici.read_ptr # alici.write_ptr
    BY <1>8 DEF RxBos
  <2>6. RxKuyruk[alici.read_ptr] = alici.queue[alici.read_ptr]
    BY <2>4, <2>5 DEF RxKuyruk
  <2> QED
    BY <2>2, <2>3, <2>6
<1> QED
  BY <1>7, <1>8

LEMMA SurucuAdim ==
    ASSUME IInv, Cevrim
    PROVE  SurucuDogru'
<1>1. TipDogru /\ SurucuDogru /\ HatDogru /\ TipDogru'
  BY TipAdim DEF IInv
<1>2. Kenar /\ Denetleyici
  BY CevrimOzeti DEF Kenar
<1>3. /\ wb_ack' = TRUE <=> Cyc /\ wb_ack = FALSE
      /\ wb_ack' \in BOOLEAN
      /\ tx_we' = (Cyc /\ wb_ack = FALSE /\ yazilim = "gonder_yaz")
      /\ rx_re' = (Cyc /\ wb_ack = FALSE /\ yazilim = "al_oku")
      /\ Cyc /\ yazilim = "gonder_durum" => wb_dat'.tx_full = TxDolu
      /\ Cyc /\ yazilim = "al_durum" => wb_dat'.rx_empty = RxBos
      /\ rx_re' => wb_dat'.veri = alici.queue[alici.read_ptr]
  BY <1>2, DenetleyiciAlanlari
<1>4. /\ ctrl' = Kapali => ctrl = Kapali /\ ~(Cyc /\ yazilim = "kur" /\ wb_ack = FALSE)
      /\ ctrl' = Acik => ctrl = Acik \/ (Cyc /\ yazilim = "kur" /\ wb_ack = FALSE)
      /\ Kapali # Acik /\ ctrl \in {Kapali, Acik}
  BY <1>1, <1>2, CtrlAdim, CtrlAlanlari
<1>5. /\ tx_we = FALSE /\ ~TxDolu => ~TxDolu'
      /\ rx_re = FALSE /\ ~RxBos =>
             /\ ~RxBos'
             /\ alici'.queue[alici'.read_ptr] = alici.queue[alici.read_ptr]
  BY <1>1, <1>2, DurumKorunur
<1>6. /\ tx_we \in BOOLEAN /\ rx_re \in BOOLEAN /\ wb_ack \in BOOLEAN
      /\ tx_we = TRUE <=> Cyc /\ wb_ack = TRUE /\ yazilim = "gonder_yaz"
      /\ rx_re = TRUE <=> Cyc /\ wb_ack = TRUE /\ yazilim = "al_oku"
      /\ wb_ack = TRUE => Cyc
  BY OnaysizIs
<1>7. /\ ctrl = Kapali => yazilim = "kur" /\ wb_ack = FALSE
      /\ ctrl = Acik /\ yazilim = "kur" => Cyc /\ wb_ack = TRUE
      /\ yazilim = "serbest" => erisim = "ara"
      /\ yazilim \in {"gonder_durum", "gonder_yaz"} => bekleyen < SINIR
      /\ yazilim = "gonder_yaz" => ~TxDolu
      /\ yazilim = "gonder_durum" /\ Cyc /\ wb_ack /\ ~wb_dat.tx_full => ~TxDolu
      /\ yazilim = "al_oku" => ~RxBos
      /\ yazilim = "al_durum" /\ Cyc /\ wb_ack /\ ~wb_dat.rx_empty => ~RxBos
  BY <1>1 DEF SurucuDogru
<1>8. Cyc <=> erisim = "veriyolu"
  BY DEF Cyc
<1>9. Cyc' <=> erisim' = "veriyolu"
  BY DEF Cyc
<1> HIDE DEF Cyc, TxDolu, RxBos, Kapali, Acik
<1>10. CASE IslemYapilir
  <2>1. /\ Cyc /\ wb_ack = FALSE /\ wb_ack' = TRUE
        /\ yazilim' = yazilim /\ erisim' = erisim /\ bekleyen' = bekleyen
    BY <1>3, <1>10 DEF IslemYapilir, Islenir
  <2>2. Cyc' /\ tx_we = FALSE /\ rx_re = FALSE
    BY <1>6, <1>8, <1>9, <2>1
  <2>3. /\ ctrl' = Kapali => yazilim' = "kur" /\ wb_ack' = FALSE
        /\ ctrl' = Acik /\ yazilim' = "kur" => Cyc' /\ wb_ack' = TRUE
        /\ yazilim' = "serbest" => erisim' = "ara"
        /\ ~Cyc' => wb_ack' = FALSE
    BY <1>4, <1>7, <1>8, <2>1, <2>2
  <2>4. tx_we' = (Cyc' /\ wb_ack' /\ yazilim' = "gonder_yaz")
    BY <1>3, <2>1, <2>2
  <2>5. rx_re' = (Cyc' /\ wb_ack' /\ yazilim' = "al_oku")
    BY <1>3, <2>1, <2>2
  <2>6. /\ yazilim' \in {"gonder_durum", "gonder_yaz"} => bekleyen' < SINIR
        /\ yazilim' = "gonder_yaz" => ~TxDolu'
        /\ yazilim' = "al_oku" => ~RxBos'
    BY <1>5, <1>7, <2>1, <2>2
  <2>7. yazilim' = "gonder_durum" /\ Cyc' /\ wb_ack' /\ ~wb_dat'.tx_full => ~TxDolu'
    BY <1>3, <1>5, <2>1, <2>2
  <2>8. yazilim' = "al_durum" /\ Cyc' /\ wb_ack' /\ ~wb_dat'.rx_empty => ~RxBos'
    BY <1>3, <1>5, <2>1, <2>2
  <2>9. rx_re' => wb_dat'.veri = alici'.queue[alici'.read_ptr]
    BY <1>3, <1>5, <1>7, <2>2
  <2> QED
    BY <2>3, <2>4, <2>5, <2>6, <2>7, <2>8, <2>9 DEF SurucuDogru
<1>11. CASE ~IslemYapilir
  <2>1. ~(Cyc /\ wb_ack = FALSE)
    BY <1>8, <1>11 DEF Cevrim, IstekGorulur, Yanit, Surdur, Gonder, Al, Hesapla, Bosta
  <2>2. wb_ack' = FALSE
    BY <1>3, <2>1
  <2>3. tx_we' = FALSE /\ rx_re' = FALSE
    BY <1>3, <2>1
  <2>4. /\ ctrl' = Kapali => yazilim' = "kur"
        /\ ctrl' = Acik /\ yazilim' = "kur" => FALSE
        /\ yazilim' = "serbest" => erisim' = "ara"
        /\ yazilim' \in {"gonder_durum", "gonder_yaz"} => bekleyen' < SINIR
        /\ yazilim' = "gonder_yaz" => ~TxDolu'
        /\ yazilim' = "al_oku" => ~RxBos'
    <3>1. CASE Yanit
      <4>1. /\ Cyc /\ wb_ack = TRUE /\ erisim' = "ara"
            /\ yazilim' = CASE yazilim = "gonder_durum" ->
                                   IF wb_dat.tx_full THEN "gonder_durum" ELSE "gonder_yaz"
                             [] yazilim = "al_durum" ->
                                   IF wb_dat.rx_empty THEN "al_durum" ELSE "al_oku"
                             [] OTHER -> "serbest"
            /\ yazilim = "gonder_durum" => bekleyen' = bekleyen
        BY <1>6, <3>1 DEF Yanit
      <4>2. /\ yazilim' = "gonder_yaz" => yazilim = "gonder_durum" /\ ~wb_dat.tx_full
            /\ yazilim' = "al_oku" => yazilim = "al_durum" /\ ~wb_dat.rx_empty
            /\ yazilim' = "gonder_durum" => yazilim = "gonder_durum"
            /\ yazilim' # "kur"
        BY <4>1
      <4>3. ctrl' = Acik
        BY <1>1, <1>2, <1>4, <1>7, <4>1, CtrlAdim
      <4>4. yazilim' = "gonder_yaz" => ~TxDolu'
        BY <1>5, <1>6, <1>7, <4>1, <4>2
      <4>5. yazilim' = "al_oku" => ~RxBos'
        BY <1>5, <1>6, <1>7, <4>1, <4>2
      <4> QED
        BY <1>4, <1>7, <4>1, <4>2, <4>3, <4>4, <4>5
    <3>2. CASE IstekGorulur \/ Surdur \/ Gonder \/ Al \/ Hesapla
      <4>1. ~Cyc
        BY <1>8, <3>2 DEF IstekGorulur, Surdur, Gonder, Al, Hesapla, Bosta
      <4>2. tx_we = FALSE /\ rx_re = FALSE
        BY <1>6, <4>1
      <4>3. ctrl' = ctrl
        BY <1>1, <1>2, <4>1, CtrlAdim
      <4>4. yazilim = "kur" => yazilim' = "kur"
        BY <3>2 DEF IstekGorulur, Surdur, Gonder, Al, Hesapla
      <4>5. yazilim' = "kur" => yazilim = "kur"
        BY <3>2 DEF IstekGorulur, Surdur, Gonder, Al, Hesapla
      <4>6. yazilim' = "serbest" => erisim' = "ara"
        BY <1>7, <3>2 DEF IstekGorulur, Surdur, Gonder, Al, Hesapla, Bosta
      <4>7. yazilim' \in {"gonder_durum", "gonder_yaz"} => bekleyen' < SINIR
        BY <1>7, <3>2 DEF IstekGorulur, Surdur, Gonder, Al, Hesapla
      <4>8. /\ yazilim' = "gonder_yaz" => yazilim = "gonder_yaz"
            /\ yazilim' = "al_oku" => yazilim = "al_oku"
        BY <3>2 DEF IstekGorulur, Surdur, Gonder, Al, Hesapla
      <4> QED
        BY <1>4, <1>5, <1>7, <4>1, <4>2, <4>3, <4>4, <4>5, <4>6, <4>7, <4>8
    <3> QED
      BY <1>11, <3>1, <3>2 DEF Cevrim
  <2> QED
    BY <2>2, <2>3, <2>4 DEF SurucuDogru
<1> QED
  BY <1>10, <1>11

-----------------------------------------------------------------------------
(* The invariant *)

\* Nothing is underway: at power-up and after a reset.
Sessiz ==
    /\ \E q \in [0 .. TX_DERINLIK - 1 -> Bayt] : verici = BosVerici(q)
    /\ \E q \in [0 .. RX_DERINLIK - 1 -> Bayt] : alici = BosAlici(q)
    /\ wb_dat \in [tx_full : BOOLEAN, rx_empty : BOOLEAN, veri : Bayt]
    /\ cikan \in Baytlar
    /\ ctrl = Kapali
    /\ wb_ack = FALSE /\ tx_we = FALSE /\ rx_re = FALSE
    /\ yazilim = "kur" /\ erisim = "ara" /\ bekleyen = 0 /\ okunan = YOK

LEMMA SessizTipi == Sessiz => TipDogru
<1> SUFFICES ASSUME Sessiz PROVE TipDogru
  OBVIOUS
<1>1. TX_DERINLIK \in Nat /\ TX_DERINLIK > 1 /\ RX_DERINLIK \in Nat /\ RX_DERINLIK > 1
  BY BoyVarsayimi
<1>2. 0 \in 0 .. SON /\ 0 \in 0 .. BAUD /\ 0 \in 0 .. TX_DERINLIK - 1 /\ 0 \in 0 .. RX_DERINLIK - 1
  BY <1>1, Sayilar
<1>3. 0 \in 0 .. SINIR
  BY <1>1, KullanimVarsayimi
<1>4. PICK q \in [0 .. TX_DERINLIK - 1 -> Bayt] : verici = BosVerici(q)
  BY DEF Sessiz
<1>5. verici \in [state : 0 .. SON, read_ptr : 0 .. TX_DERINLIK - 1,
                  write_ptr : 0 .. TX_DERINLIK - 1, counter : 0 .. BAUD, pulse : BOOLEAN,
                  queue : [0 .. TX_DERINLIK - 1 -> Bayt]]
  BY <1>2, <1>4 DEF BosVerici
<1>6. PICK r \in [0 .. RX_DERINLIK - 1 -> Bayt] : alici = BosAlici(r)
  BY DEF Sessiz
<1>7. <<0, 0, 0, 0>> \in [1 .. 4 -> {0, 1}]
  OBVIOUS
<1>8. alici \in [state : 0 .. SON, read_ptr : 0 .. RX_DERINLIK - 1,
                 write_ptr : 0 .. RX_DERINLIK - 1, counter : 0 .. BAUD, pulse : BOOLEAN,
                 queue : [0 .. RX_DERINLIK - 1 -> Bayt],
                 start_pattern : [1 .. 4 -> {0, 1}], start_r : BOOLEAN]
  <2> DEFINE d == <<0, 0, 0, 0>>
  <2>1. alici = [state |-> 0, read_ptr |-> 0, write_ptr |-> 0, counter |-> 0, pulse |-> FALSE,
                 queue |-> r, start_pattern |-> d, start_r |-> FALSE]
    BY <1>6 DEF BosAlici
  <2>2. d \in [1 .. 4 -> {0, 1}]
    BY <1>7
  <2> HIDE DEF d
  <2> QED
    BY <1>2, <2>1, <2>2
<1> QED
  BY <1>3, <1>5, <1>8 DEF Sessiz, TipDogru

LEMMA SessizIInv == Sessiz => IInv
<1> SUFFICES ASSUME Sessiz PROVE IInv
  OBVIOUS
<1>1. TipDogru
  BY SessizTipi
<1>2. PICK q \in [0 .. TX_DERINLIK - 1 -> Bayt] : verici = BosVerici(q)
  BY DEF Sessiz
<1>3. verici.state = 0 /\ verici.read_ptr = 0 /\ verici.write_ptr = 0 /\ verici.counter = 0
  BY <1>2 DEF BosVerici
<1>4. PICK r \in [0 .. RX_DERINLIK - 1 -> Bayt] : alici = BosAlici(r)
  BY DEF Sessiz
<1>5. /\ alici.state = 0 /\ alici.read_ptr = 0 /\ alici.write_ptr = 0 /\ alici.counter = 0
      /\ alici.start_r = FALSE
  BY <1>4 DEF BosAlici
<1>6. alici.start_pattern[1] = 0
  BY <1>4 DEF BosAlici
<1>7. Kapali # Acik
  BY CtrlAlanlari
<1>8. /\ ctrl = Kapali /\ wb_ack = FALSE /\ tx_we = FALSE /\ rx_re = FALSE
      /\ yazilim = "kur" /\ erisim = "ara" /\ bekleyen = 0
  BY DEF Sessiz
<1>9. SurucuDogru
  <2> HIDE DEF Kapali, Acik
  <2> QED
    BY <1>7, <1>8 DEF SurucuDogru, Cyc
<1>10. HatDogru
  <2>1. TxBos
    BY <1>3 DEF TxBos
  <2>2. KapaliDurur
    BY <1>3, <1>5, <1>6, <1>8, <2>1 DEF KapaliDurur, Cyc
  <2> HIDE DEF Kapali, Acik
  <2> QED
    BY <1>7, <1>8, <2>2 DEF HatDogru
<1>11. VeriDogru
  BY <1>5 DEF VeriDogru
<1>12. SayiDogru
  <2>1. TxSay = 0 /\ RxSay = 0
    <3>1. TxBos /\ RxBos
      BY <1>3, <1>5 DEF TxBos, RxBos
    <3> QED
      BY <1>1, <3>1, SayTipleri
  <2>2. ~Cift
    BY <1>3, Sayilar DEF Cift
  <2> DEFINE f == IF Cift THEN 1 ELSE 0
  <2>3. f = 0
    BY <2>2
  <2> HIDE DEF f
  <2>4. bekleyen = RxSay + TxSay - f
    BY <1>8, <2>1, <2>3
  <2>5. verici.state # 0 => ~TxBos
    BY <1>3
  <2> QED
    BY <2>4, <2>5 DEF SayiDogru, f
<1> QED
  BY <1>1, <1>9, <1>10, <1>11, <1>12 DEF IInv

LEMMA BaslangicSessiz == Init => Sessiz
<1> SUFFICES ASSUME Init PROVE Sessiz
  OBVIOUS
<1>1. PICK b \in Baytlar :
          /\ verici = BosVerici([i \in 0 .. TX_DERINLIK - 1 |-> b])
          /\ alici = BosAlici([i \in 0 .. RX_DERINLIK - 1 |-> b])
          /\ wb_dat = [tx_full |-> FALSE, rx_empty |-> TRUE, veri |-> b]
          /\ cikan = b
  BY DEF Init
<1>2. b \in Bayt
  BY BoyVarsayimi
<1>3. /\ [i \in 0 .. TX_DERINLIK - 1 |-> b] \in [0 .. TX_DERINLIK - 1 -> Bayt]
      /\ [i \in 0 .. RX_DERINLIK - 1 |-> b] \in [0 .. RX_DERINLIK - 1 -> Bayt]
  BY <1>2
<1>4. wb_dat \in [tx_full : BOOLEAN, rx_empty : BOOLEAN, veri : Bayt]
  BY <1>1, <1>2
<1> HIDE DEF Bayt
<1>5. \E q \in [0 .. TX_DERINLIK - 1 -> Bayt] : verici = BosVerici(q)
  BY <1>1, <1>3
<1>6. \E q \in [0 .. RX_DERINLIK - 1 -> Bayt] : alici = BosAlici(q)
  BY <1>1, <1>3
<1> QED
  BY <1>1, <1>4, <1>5, <1>6 DEF Init, Sessiz

LEMMA SifirlaSessiz ==
    ASSUME TipDogru, Sifirla
    PROVE  Sessiz'
<1>1. verici.queue \in [0 .. TX_DERINLIK - 1 -> Bayt]
  BY DEF TipDogru
<1>2. RxKuyruk \in [0 .. RX_DERINLIK - 1 -> Bayt]
  BY KuyrukTipi
<1>3. \E q \in [0 .. TX_DERINLIK - 1 -> Bayt] : verici' = BosVerici(q)
  BY <1>1 DEF Sifirla
<1>4. \E q \in [0 .. RX_DERINLIK - 1 -> Bayt] : alici' = BosAlici(q)
  BY <1>2 DEF Sifirla
<1>5. /\ wb_dat' \in [tx_full : BOOLEAN, rx_empty : BOOLEAN, veri : Bayt]
      /\ cikan' \in Baytlar
  BY DEF Sifirla, TipDogru
<1> QED
  BY <1>3, <1>4, <1>5 DEF Sifirla, Sessiz

\* A clock cycle keeps the invariant.
LEMMA CevrimIInv ==
    ASSUME IInv, Cevrim
    PROVE  IInv'
<1>1. TipDogru'
  BY TipAdim
<1>2. SurucuDogru'
  BY SurucuAdim
<1>3. /\ Kenar
      /\ erisim' = "veriyolu" => erisim # "ara"
      /\ bekleyen' = bekleyen + (IF tx_we THEN 1 ELSE 0) - (IF rx_re THEN 1 ELSE 0)
  BY CevrimOzeti
<1>4. HatDogru'
  BY <1>3, HatAdim DEF IInv
<1>5. VeriDogru'
  BY <1>3, VeriAdim
<1>6. SayiDogru'
  BY <1>1, <1>3, SayiAdim
<1> QED
  BY <1>1, <1>2, <1>4, <1>5, <1>6 DEF IInv

\* Transmitter and receiver stay in step although each counts its own bit times, the bits
\* received are those sent, no queue runs over, and what the driver has read of the status
\* still holds when it acts on it.
THEOREM IInvTeoremi == Spec => []IInv
<1>1. Init => IInv
  BY BaslangicSessiz, SessizIInv
<1>2. IInv /\ [Next]_vars => IInv'
  <2> SUFFICES ASSUME IInv, [Next]_vars PROVE IInv'
    OBVIOUS
  <2>1. CASE Cevrim
    BY <2>1, CevrimIInv
  <2>2. CASE Sifirla
    <3>1. Sessiz'
      BY <2>2, SifirlaSessiz DEF IInv
    <3>2. (Sessiz => IInv)'
      BY SessizIInv, PTL
    <3> QED
      BY <3>1, <3>2
  <2>3. CASE UNCHANGED vars
    BY <2>3 DEF vars, IInv, TipDogru, SurucuDogru, HatDogru, VeriDogru, SayiDogru,
                Dinlenir, Fark, Farkedildi, Izler, KapaliDurur, AliciBos, HatYuksek, Konum,
                TxBos, RxBos, TxDolu, TxSay, RxSay, Cift, Cyc
  <2> QED
    BY <2>1, <2>2, <2>3 DEF Next, Cevrim
<1> QED
  BY <1>1, <1>2, PTL DEF Spec

\* The states, pointers and counters keep their widths.
THEOREM TipTeoremi == Spec => []TipDogru
<1>1. IInv => TipDogru
  BY DEF IInv
<1> QED
  BY <1>1, IInvTeoremi, PTL

-----------------------------------------------------------------------------
(* Sequences *)

LEMMA BastanSona ==
    ASSUME NEW S, NEW a \in Seq(S), NEW t \in Seq(S), t # <<>>
    PROVE  Append(a, Head(t)) \o Tail(t) = a \o t
<1> DEFINE h == Head(t)
           u == Tail(t)
<1>1. /\ h \in S /\ u \in Seq(S) /\ Len(u) = Len(t) - 1
      /\ \A i \in 1 .. Len(u) : u[i] = t[i + 1]
  BY HeadTailProperties
<1>2. h = t[1]
  OBVIOUS
<1>3. Len(t) \in Nat /\ Len(t) > 0 /\ Len(a) \in Nat
  BY EmptySeq, LenProperties
<1> HIDE DEF h, u
<1> DEFINE x == Append(a, h)
<1>4. /\ x \in Seq(S) /\ Len(x) = Len(a) + 1
      /\ \A i \in 1 .. Len(a) : x[i] = a[i]
      /\ x[Len(a) + 1] = h
  BY <1>1, AppendProperties
<1> HIDE DEF x
<1> DEFINE p == x \o u
           q == a \o t
<1>5. /\ p \in Seq(S) /\ Len(p) = Len(x) + Len(u)
      /\ \A i \in 1 .. Len(x) + Len(u) : p[i] = IF i <= Len(x) THEN x[i] ELSE u[i - Len(x)]
  BY <1>1, <1>4, ConcatProperties
<1>6. /\ q \in Seq(S) /\ Len(q) = Len(a) + Len(t)
      /\ \A i \in 1 .. Len(a) + Len(t) : q[i] = IF i <= Len(a) THEN a[i] ELSE t[i - Len(a)]
  BY ConcatProperties
<1> HIDE DEF p, q
<1>7. Len(p) = Len(q)
  BY <1>1, <1>3, <1>4, <1>5, <1>6
<1>8. ASSUME NEW i \in 1 .. Len(p) PROVE p[i] = q[i]
  <2>1. i \in 1 .. Len(x) + Len(u) /\ i \in 1 .. Len(a) + Len(t)
    BY <1>5, <1>6, <1>7
  <2>2. p[i] = (IF i <= Len(x) THEN x[i] ELSE u[i - Len(x)])
    BY <1>5, <2>1
  <2>3. q[i] = (IF i <= Len(a) THEN a[i] ELSE t[i - Len(a)])
    BY <1>6, <2>1
  <2>4. CASE i <= Len(a)
    <3>1. i \in 1 .. Len(a) /\ i <= Len(x)
      BY <1>3, <1>4, <2>1, <2>4
    <3> QED
      BY <1>4, <2>2, <2>3, <2>4, <3>1
  <2>5. CASE i = Len(a) + 1
    <3>1. i <= Len(x) /\ ~(i <= Len(a)) /\ i - Len(a) = 1
      BY <1>3, <1>4, <2>5
    <3>2. p[i] = h
      BY <1>4, <2>2, <2>5, <3>1
    <3>3. q[i] = t[1]
      BY <2>3, <3>1
    <3> QED
      BY <1>2, <3>2, <3>3
  <2>6. CASE i > Len(a) + 1
    <3>1. /\ ~(i <= Len(x)) /\ ~(i <= Len(a))
          /\ i - Len(x) \in 1 .. Len(u) /\ (i - Len(x)) + 1 = i - Len(a)
      BY <1>1, <1>3, <1>4, <2>1, <2>6
    <3>2. p[i] = t[(i - Len(x)) + 1]
      BY <1>1, <2>2, <3>1
    <3> QED
      BY <2>3, <3>1, <3>2
  <2> QED
    BY <1>3, <2>1, <2>4, <2>5, <2>6
<1>9. p = q
  BY <1>5, <1>6, <1>7, <1>8, SeqEqual
<1> QED
  BY <1>9 DEF p, q, x, h, u

LEMMA SonaEkle ==
    ASSUME NEW S, NEW a \in Seq(S), NEW v \in Seq(S), NEW b \in S
    PROVE  a \o Append(v, b) = Append(a \o v, b)
<1>1. <<b>> \in Seq(S)
  OBVIOUS
<1> DEFINE c == <<b>>
           p == a \o v
<1>2. Append(v, b) = v \o c
  BY AppendIsConcat
<1>3. p \in Seq(S)
  BY ConcatProperties
<1>4. Append(p, b) = p \o c
  <2> HIDE DEF p
  <2> QED
    BY <1>3, AppendIsConcat
<1>5. c \in Seq(S)
  BY <1>1
<1> HIDE DEF c
<1>6. (a \o v) \o c = a \o (v \o c)
  BY <1>5, ConcatAssociative
<1> QED
  BY <1>2, <1>4, <1>6 DEF p

LEMMA BastanAl ==
    ASSUME NEW S, NEW a \in Seq(S), NEW v \in Seq(S), a # <<>>
    PROVE  /\ Tail(a) \o v = Tail(a \o v)
           /\ Head(a \o v) = Head(a)
           /\ a \o v # <<>>
<1>1. Len(a) \in Nat \ {0} /\ Len(v) \in Nat
  BY EmptySeq, LenProperties
<1> DEFINE t == Tail(a)
           p == a \o v
<1>2. t \in Seq(S) /\ Len(t) = Len(a) - 1 /\ \A i \in 1 .. Len(t) : t[i] = a[i + 1]
  BY HeadTailProperties
<1>3. /\ p \in Seq(S) /\ Len(p) = Len(a) + Len(v)
      /\ \A i \in 1 .. Len(a) + Len(v) : p[i] = IF i <= Len(a) THEN a[i] ELSE v[i - Len(a)]
  BY ConcatProperties
<1>4. Head(a) = a[1]
  OBVIOUS
<1> HIDE DEF t, p
<1>5. p # <<>>
  BY <1>1, <1>3, EmptySeq
<1>6. Head(p) = p[1]
  BY <1>3, <1>5
<1>7. 1 \in 1 .. Len(a) + Len(v) /\ 1 <= Len(a)
  BY <1>1
<1>8. p[1] = a[1]
  BY <1>3, <1>7
<1> DEFINE x == t \o v
           y == Tail(p)
<1>9. /\ x \in Seq(S) /\ Len(x) = Len(t) + Len(v)
      /\ \A i \in 1 .. Len(t) + Len(v) : x[i] = IF i <= Len(t) THEN t[i] ELSE v[i - Len(t)]
  BY <1>2, ConcatProperties
<1>10. y \in Seq(S) /\ Len(y) = Len(p) - 1 /\ \A i \in 1 .. Len(y) : y[i] = p[i + 1]
  BY <1>3, <1>5, HeadTailProperties
<1> HIDE DEF x, y
<1>11. Len(x) = Len(y)
  BY <1>1, <1>2, <1>3, <1>9, <1>10
<1>12. ASSUME NEW i \in 1 .. Len(x) PROVE x[i] = y[i]
  <2>1. i \in 1 .. Len(t) + Len(v) /\ i \in 1 .. Len(y) /\ i + 1 \in 1 .. Len(a) + Len(v)
    BY <1>1, <1>2, <1>3, <1>9, <1>10, <1>11
  <2>2. x[i] = (IF i <= Len(t) THEN t[i] ELSE v[i - Len(t)])
    BY <1>9, <2>1
  <2>3. y[i] = p[i + 1]
    BY <1>10, <2>1
  <2>4. p[i + 1] = (IF i + 1 <= Len(a) THEN a[i + 1] ELSE v[(i + 1) - Len(a)])
    BY <1>3, <2>1
  <2>5. CASE i <= Len(t)
    <3>1. i \in 1 .. Len(t) /\ i + 1 <= Len(a)
      BY <1>1, <1>2, <2>1, <2>5
    <3> QED
      BY <1>2, <2>2, <2>3, <2>4, <2>5, <3>1
  <2>6. CASE ~(i <= Len(t))
    <3>1. ~(i + 1 <= Len(a)) /\ (i + 1) - Len(a) = i - Len(t)
      BY <1>1, <1>2, <2>1, <2>6
    <3> QED
      BY <2>2, <2>3, <2>4, <2>6, <3>1
  <2> QED
    BY <2>5, <2>6
<1>13. x = y
  BY <1>9, <1>10, <1>11, <1>12, SeqEqual
<1> QED
  BY <1>4, <1>5, <1>6, <1>8, <1>13 DEF x, y, p, t

LEMMA EkleCek ==
    ASSUME NEW S, NEW t \in Seq(S), NEW b \in S, t # <<>>
    PROVE  Tail(Append(t, b)) = Append(Tail(t), b)
BY HeadTailAppend

\* Two queues in a row: what they hold, and what they hold after a step.
Onceki(r, t, f) == r \o (IF f = TRUE THEN Tail(t) ELSE t)
Sonraki(r, t, b, yaz, oku, var, cek, g) ==
    LET r1 == IF var = TRUE THEN Append(r, Head(t)) ELSE r
        t1 == IF yaz = TRUE THEN Append(t, b) ELSE t
    IN (IF oku = TRUE THEN Tail(r1) ELSE r1) \o
         (IF g = TRUE THEN Tail(IF cek = TRUE THEN Tail(t1) ELSE t1)
          ELSE (IF cek = TRUE THEN Tail(t1) ELSE t1))

\* A byte may be put in, move from one queue to the other and be taken out in the same
\* step: f and g tell whether the head of the second queue is already in the first, before
\* and after it.
AkisKosulu(S, r, t, b, yaz, oku, var, cek, f, g) ==
    /\ r \in Seq(S) /\ t \in Seq(S) /\ b \in S
    /\ yaz \in BOOLEAN /\ oku \in BOOLEAN /\ var \in BOOLEAN /\ cek \in BOOLEAN
    /\ f \in BOOLEAN /\ g \in BOOLEAN
    /\ f = TRUE \/ var = TRUE \/ cek = TRUE => t # <<>>
    /\ oku = TRUE => r # <<>>
    /\ ~(yaz = TRUE /\ oku = TRUE)
    /\ var = TRUE => f = FALSE /\ g = (~cek)
    /\ var = FALSE /\ cek = TRUE => f = TRUE /\ g = FALSE
    /\ var = FALSE /\ cek = FALSE => g = f

\* z is y with b put in, with its head taken out, or unchanged.
AkisSonucu(r, b, yaz, oku, y, z) ==
    /\ yaz = TRUE => z = Append(y, b)
    /\ oku = TRUE => y # <<>> /\ Head(r) = Head(y) /\ z = Tail(y)
    /\ yaz = FALSE /\ oku = FALSE => z = y

LEMMA Akis ==
    ASSUME NEW S, NEW r, NEW t, NEW b, NEW yaz, NEW oku, NEW var, NEW cek, NEW f, NEW g,
           AkisKosulu(S, r, t, b, yaz, oku, var, cek, f, g)
    PROVE  AkisSonucu(r, b, yaz, oku, Onceki(r, t, f), Sonraki(r, t, b, yaz, oku, var, cek, g))
<1> /\ r \in Seq(S) /\ t \in Seq(S) /\ b \in S
    /\ yaz \in BOOLEAN /\ oku \in BOOLEAN /\ var \in BOOLEAN /\ cek \in BOOLEAN
    /\ f \in BOOLEAN /\ g \in BOOLEAN
    /\ f = TRUE \/ var = TRUE \/ cek = TRUE => t # <<>>
    /\ oku = TRUE => r # <<>>
    /\ ~(yaz = TRUE /\ oku = TRUE)
    /\ var = TRUE => f = FALSE /\ g = (~cek)
    /\ var = FALSE /\ cek = TRUE => f = TRUE /\ g = FALSE
    /\ var = FALSE /\ cek = FALSE => g = f
  BY DEF AkisKosulu
<1> DEFINE r1 == IF var = TRUE THEN Append(r, Head(t)) ELSE r
           r2 == IF oku = TRUE THEN Tail(r1) ELSE r1
           t1 == IF yaz = TRUE THEN Append(t, b) ELSE t
           t2 == IF cek = TRUE THEN Tail(t1) ELSE t1
           y == r \o (IF f = TRUE THEN Tail(t) ELSE t)
           z == r2 \o (IF g = TRUE THEN Tail(t2) ELSE t2)
<1> /\ r1 = IF var = TRUE THEN Append(r, Head(t)) ELSE r
    /\ r2 = IF oku = TRUE THEN Tail(r1) ELSE r1
    /\ t1 = IF yaz = TRUE THEN Append(t, b) ELSE t
    /\ t2 = IF cek = TRUE THEN Tail(t1) ELSE t1
    /\ y = r \o (IF f = TRUE THEN Tail(t) ELSE t)
    /\ z = r2 \o (IF g = TRUE THEN Tail(t2) ELSE t2)
  OBVIOUS
<1> y = Onceki(r, t, f) /\ z = Sonraki(r, t, b, yaz, oku, var, cek, g)
  BY DEF Onceki, Sonraki
<1> HIDE DEF r1, r2, t1, t2, y, z
<1> SUFFICES /\ yaz = TRUE => z = Append(y, b)
             /\ oku = TRUE => y # <<>> /\ Head(r) = Head(y) /\ z = Tail(y)
             /\ yaz = FALSE /\ oku = FALSE => z = y
  BY DEF AkisSonucu
<1> DEFINE v == IF f = TRUE THEN Tail(t) ELSE t
           v2 == IF g = TRUE THEN Tail(t2) ELSE t2
           w == IF yaz = TRUE THEN Append(y, b) ELSE y
<1>1. t # <<>> => Head(t) \in S /\ Tail(t) \in Seq(S)
  BY HeadTailProperties
<1>2. v \in Seq(S)
  BY <1>1
<1>3. t # <<>> => Tail(t1) = IF yaz = TRUE THEN Append(Tail(t), b) ELSE Tail(t)
  BY EkleCek
<1>4. y = r \o v
  OBVIOUS
<1>5. z = r2 \o v2
  OBVIOUS
<1>6. /\ var = TRUE => v = t /\ v2 = Tail(t1) /\ t # <<>>
      /\ var = FALSE => v2 = IF yaz = TRUE THEN Append(v, b) ELSE v
  <2>1. CASE var = TRUE
    <3>1. v = t /\ t # <<>>
      BY <2>1
    <3>2. CASE cek = TRUE
      <4>1. g = FALSE
        BY <2>1, <3>2
      <4>2. t2 = Tail(t1)
        BY <3>2
      <4> QED
        BY <2>1, <3>1, <4>1, <4>2
    <3>3. CASE cek = FALSE
      <4>1. g = TRUE
        BY <2>1, <3>3
      <4>2. t2 = t1
        BY <3>3
      <4> QED
        BY <2>1, <3>1, <4>1, <4>2
    <3> QED
      BY <3>2, <3>3
  <2>2. CASE var = FALSE /\ cek = TRUE
    <3>1. f = TRUE /\ g = FALSE /\ t # <<>>
      BY <2>2
    <3>2. v = Tail(t) /\ v2 = Tail(t1)
      BY <2>2, <3>1
    <3> QED
      BY <1>3, <2>2, <3>1, <3>2
  <2>3. CASE var = FALSE /\ cek = FALSE
    <3>1. g = f /\ t2 = t1
      BY <2>3
    <3>2. CASE f = TRUE
      BY <1>3, <2>3, <3>1, <3>2
    <3>3. CASE f = FALSE
      BY <2>3, <3>1, <3>3
    <3> QED
      BY <3>2, <3>3
  <2> QED
    BY <2>1, <2>2, <2>3
<1> HIDE DEF v, v2
<1>7. r1 \o v2 = w
  <2>1. CASE var = TRUE
    <3>1. /\ v = t /\ t # <<>> /\ r1 = Append(r, Head(t))
          /\ v2 = IF yaz = TRUE THEN Append(Tail(t), b) ELSE Tail(t)
          /\ Head(t) \in S /\ Tail(t) \in Seq(S)
      BY <1>1, <1>3, <1>6, <2>1
    <3>2. r1 \in Seq(S)
      BY <3>1, AppendProperties
    <3>3. r1 \o Tail(t) = y
      BY <1>4, <3>1, BastanSona
    <3>4. CASE yaz = TRUE
      <4>1. r1 \o Append(Tail(t), b) = Append(r1 \o Tail(t), b)
        BY <3>1, <3>2, SonaEkle
      <4> QED
        BY <3>1, <3>3, <3>4, <4>1
    <3>5. CASE yaz = FALSE
      BY <3>1, <3>3, <3>5
    <3> QED
      BY <3>4, <3>5
  <2>2. CASE var = FALSE
    <3>1. r1 = r /\ v2 = IF yaz = TRUE THEN Append(v, b) ELSE v
      BY <1>6, <2>2
    <3>2. r \o Append(v, b) = Append(r \o v, b)
      BY <1>2, SonaEkle
    <3>3. CASE yaz = TRUE
      BY <1>4, <3>1, <3>2, <3>3
    <3>4. CASE yaz = FALSE
      BY <1>4, <3>1, <3>4
    <3> QED
      BY <3>3, <3>4
  <2> QED
    BY <2>1, <2>2
<1>8. CASE oku = FALSE
  <2>1. z = w
    BY <1>5, <1>7, <1>8
  <2> QED
    BY <1>8, <2>1
<1>9. CASE oku = TRUE
  <2>1. yaz = FALSE /\ r # <<>> /\ w = y /\ r2 = Tail(r1)
    BY <1>9
  <2>2. y # <<>> /\ Head(y) = Head(r)
    BY <1>2, <1>4, <2>1, BastanAl
  <2>3. r1 \in Seq(S) /\ r1 # <<>>
    <3>1. CASE var = TRUE
      <4>1. Head(t) \in S /\ r1 = Append(r, Head(t))
        BY <1>1, <1>6, <3>1
      <4> QED
        BY <4>1, AppendProperties
    <3>2. CASE var = FALSE
      BY <2>1, <3>2
    <3> QED
      BY <3>1, <3>2
  <2>4. v2 \in Seq(S)
    <3>1. CASE var = TRUE
      BY <1>1, <1>3, <1>6, <2>1, <3>1
    <3>2. CASE var = FALSE
      BY <1>2, <1>6, <2>1, <3>2
    <3> QED
      BY <3>1, <3>2
  <2>5. Tail(r1) \o v2 = Tail(r1 \o v2)
    BY <2>3, <2>4, BastanAl
  <2>6. z = Tail(y)
    BY <1>5, <1>7, <2>1, <2>5
  <2> QED
    BY <1>9, <2>1, <2>2, <2>6
<1> QED
  BY <1>8, <1>9

-----------------------------------------------------------------------------
(* What is in a queue *)

\* The contents of d cells, and that two of them differ in one cell at most.
Hucreler(S, d) == [0 .. d - 1 -> S]
Disinda(q, q2, w, d) == \A x \in 0 .. d - 1 : x # w => q2[x] = q[x]

Dolgu(q, w, r, d) == [i \in 1 .. Say(w, r, d) |-> q[(r + i - 1) % d]]

LEMMA DolguTipi ==
    ASSUME NEW S, NEW d \in Nat \ {0}, NEW w \in 0 .. d - 1, NEW r \in 0 .. d - 1,
           NEW q \in Hucreler(S, d)
    PROVE  Dolgu(q, w, r, d) \in Seq(S) /\ Len(Dolgu(q, w, r, d)) = Say(w, r, d)
<1> DEFINE n == Say(w, r, d)
<1>1. n \in Nat
  BY SayDegeri
<1>2. \A i \in 1 .. n : q[(r + i - 1) % d] \in S
  <2> HIDE DEF n
  <2> TAKE i \in 1 .. n
  <2>1. (r + i - 1) % d \in 0 .. d - 1
    BY <1>1
  <2> QED
    BY <2>1 DEF Hucreler
<1>3. Dolgu(q, w, r, d) = [i \in 1 .. n |-> q[(r + i - 1) % d]]
  BY DEF Dolgu
<1> DEFINE g == [i \in 1 .. n |-> q[(r + i - 1) % d]]
<1> HIDE DEF n
<1>4. g \in [1 .. n -> S] /\ \A i \in 1 .. n : g[i] = q[(r + i - 1) % d]
  BY <1>2
<1> HIDE DEF g
<1>5. g \in Seq(S) /\ Len(g) = n
  BY <1>1, <1>4, DiziTipi
<1> QED
  BY <1>3, <1>5 DEF g, n

LEMMA DolguElemani ==
    \A q, w, r, d : \A i \in 1 .. Say(w, r, d) : Dolgu(q, w, r, d)[i] = q[(r + i - 1) % d]
BY DEF Dolgu

\* A counter and once round the ring.
LEMMA TurEkle ==
    ASSUME NEW d \in Nat \ {0}, NEW x \in 0 .. d - 1
    PROVE  (x + d) % d = x % d
OBVIOUS

\* The cells of what is in a queue are not the one that is written next.
LEMMA DoluHucre ==
    ASSUME NEW d \in Nat \ {0}, NEW w \in 0 .. d - 1, NEW r \in 0 .. d - 1,
           NEW i \in 1 .. Say(w, r, d)
    PROVE  /\ (r + i - 1) % d \in 0 .. d - 1
           /\ (r + i - 1) % d # w
<1>1. Say(w, r, d) = (IF r <= w THEN w - r ELSE w + d - r) /\ Say(w, r, d) \in 0 .. d - 1
  BY SayDegeri
<1>2. i \in Nat /\ i >= 1 /\ i <= Say(w, r, d)
  BY <1>1
<1>3. (r + i - 1) % d = IF r + i - 1 < d THEN r + i - 1 ELSE r + i - 1 - d
  <2>1. r + i - 1 \in 0 .. 2 * d - 1
    BY <1>1, <1>2
  <2> DEFINE x == r + i - 1
  <2>2. x \in 0 .. 2 * d - 1
    BY <2>1
  <2> HIDE DEF x
  <2>3. x % d = IF x < d THEN x ELSE x - d
    BY <2>2
  <2> QED
    BY <2>3 DEF x
<1>4. CASE r <= w
  BY <1>1, <1>2, <1>3, <1>4
<1>5. CASE ~(r <= w)
  BY <1>1, <1>2, <1>3, <1>5
<1> QED
  BY <1>4, <1>5

LEMMA SonHucre ==
    ASSUME NEW d \in Nat \ {0}, NEW w \in 0 .. d - 1, NEW r \in 0 .. d - 1
    PROVE  (r + Say(w, r, d)) % d = w
<1>1. Say(w, r, d) = (IF r <= w THEN w - r ELSE w + d - r)
  BY SayDegeri
<1>2. CASE r <= w
  <2>1. r + Say(w, r, d) = w
    BY <1>1, <1>2
  <2> QED
    BY <2>1
<1>3. CASE ~(r <= w)
  <2>1. r + Say(w, r, d) = w + d
    BY <1>1, <1>3
  <2>2. (w + d) % d = w
    OBVIOUS
  <2> QED
    BY <2>1, <2>2
<1> QED
  BY <1>2, <1>3

LEMMA DolguAyni ==
    ASSUME NEW S, NEW d \in Nat \ {0}, NEW w \in 0 .. d - 1, NEW r \in 0 .. d - 1,
           NEW q \in Hucreler(S, d), NEW q2 \in Hucreler(S, d),
           Disinda(q, q2, w, d)
    PROVE  Dolgu(q2, w, r, d) = Dolgu(q, w, r, d)
<1> DEFINE a == Dolgu(q, w, r, d)
           b == Dolgu(q2, w, r, d)
           n == Say(w, r, d)
<1>1. /\ a \in Seq(S) /\ Len(a) = n
      /\ \A i \in 1 .. n : a[i] = q[(r + i - 1) % d]
  <2>1. a \in Seq(S) /\ Len(a) = n
    BY DolguTipi
  <2>2. \A i \in 1 .. n : a[i] = q[(r + i - 1) % d]
    BY DolguElemani
  <2> HIDE DEF a, b, n
  <2> QED
    BY <2>1, <2>2
<1>2. /\ b \in Seq(S) /\ Len(b) = n
      /\ \A i \in 1 .. n : b[i] = q2[(r + i - 1) % d]
  <2>1. b \in Seq(S) /\ Len(b) = n
    BY DolguTipi
  <2>2. \A i \in 1 .. n : b[i] = q2[(r + i - 1) % d]
    BY DolguElemani
  <2> HIDE DEF a, b, n
  <2> QED
    BY <2>1, <2>2
<1> HIDE DEF a, b
<1>3. ASSUME NEW i \in 1 .. Len(b) PROVE b[i] = a[i]
  <2>1. (r + i - 1) % d \in 0 .. d - 1 /\ (r + i - 1) % d # w
    BY <1>2, DoluHucre
  <2>2. i \in 1 .. n
    BY <1>2
  <2> HIDE DEF n
  <2> QED
    BY <1>1, <1>2, <2>1, <2>2 DEF Disinda
<1>4. b = a
  BY <1>1, <1>2, <1>3, SeqEqual
<1> QED
  BY <1>4 DEF a, b

\* A write into a free cell appends.
LEMMA DolguEkle ==
    ASSUME NEW S, NEW d \in Nat \ {0}, NEW w \in 0 .. d - 1, NEW r \in 0 .. d - 1,
           NEW q \in Hucreler(S, d), NEW q2 \in Hucreler(S, d),
           Disinda(q, q2, w, d),
           Say(w, r, d) < d - 1
    PROVE  Dolgu(q2, (w + 1) % d, r, d) = Append(Dolgu(q, w, r, d), q2[w])
<1> DEFINE v == (w + 1) % d
           n == Say(w, r, d)
           a == Dolgu(q, w, r, d)
           b == Dolgu(q2, v, r, d)
           e == q2[w]
           c == Append(a, e)
<1>1. v \in 0 .. d - 1 /\ Say(v, r, d) = n + 1 /\ n \in Nat
  BY SayYaz, SayDegeri
<1>2. /\ a \in Seq(S) /\ Len(a) = n
      /\ \A i \in 1 .. n : a[i] = q[(r + i - 1) % d]
  <2>1. a \in Seq(S) /\ Len(a) = n
    BY DolguTipi
  <2> QED
    BY <2>1, DolguElemani
<1>3. /\ b \in Seq(S) /\ Len(b) = n + 1
      /\ \A i \in 1 .. n + 1 : b[i] = q2[(r + i - 1) % d]
  <2> HIDE DEF v, n
  <2>1. b \in Seq(S) /\ Len(b) = Say(v, r, d)
    BY <1>1, DolguTipi
  <2>2. \A i \in 1 .. Say(v, r, d) : b[i] = q2[(r + i - 1) % d]
    BY DolguElemani
  <2> HIDE DEF b
  <2> QED
    BY <1>1, <2>1, <2>2
<1>4. e \in S
  BY DEF Hucreler
<1> HIDE DEF a, b, e
<1>5. /\ c \in Seq(S) /\ Len(c) = n + 1
      /\ \A i \in 1 .. n : c[i] = a[i]
      /\ c[n + 1] = e
  <2> HIDE DEF n
  <2> QED
    BY <1>2, <1>4, AppendProperties
<1>6. (r + n) % d = w
  BY SonHucre
<1>7. ASSUME NEW i \in 1 .. n PROVE (r + i - 1) % d \in 0 .. d - 1 /\ (r + i - 1) % d # w
  BY DoluHucre
<1> HIDE DEF n, c, v
<1>8. ASSUME NEW i \in 1 .. Len(b) PROVE b[i] = c[i]
  <2>1. i \in 1 .. n + 1
    BY <1>3
  <2>2. b[i] = q2[(r + i - 1) % d]
    BY <1>3, <2>1
  <2>3. CASE i = n + 1
    <3>1. r + i - 1 = r + n
      BY <1>1, <2>3
    <3>2. (r + i - 1) % d = w
      BY <1>6, <3>1
    <3> QED
      BY <1>5, <2>2, <2>3, <3>2 DEF e
  <2>4. CASE i # n + 1
    <3>1. i \in 1 .. n
      BY <1>1, <2>1, <2>4
    <3> QED
      BY <1>2, <1>5, <1>7, <2>2, <3>1 DEF Disinda
  <2> QED
    BY <2>3, <2>4
<1>9. b = c
  BY <1>3, <1>5, <1>8, SeqEqual
<1> QED
  BY <1>9 DEF b, c, a, e, v

\* A step of the read pointer takes the head away.
LEMMA DolguCek ==
    ASSUME NEW S, NEW d \in Nat \ {0}, NEW w \in 0 .. d - 1, NEW r \in 0 .. d - 1,
           NEW q \in Hucreler(S, d), Say(w, r, d) > 0
    PROVE  /\ Dolgu(q, w, (r + 1) % d, d) = Tail(Dolgu(q, w, r, d))
           /\ Head(Dolgu(q, w, r, d)) = q[r]
           /\ Dolgu(q, w, r, d) # <<>>
<1> DEFINE v == (r + 1) % d
           n == Say(w, r, d)
           a == Dolgu(q, w, r, d)
           b == Dolgu(q, w, v, d)
           c == Tail(a)
<1>1. v \in 0 .. d - 1 /\ Say(w, v, d) = n - 1 /\ n \in Nat /\ n > 0 /\ n <= d - 1
  BY SayOku, SayDegeri
<1>2. /\ a \in Seq(S) /\ Len(a) = n
      /\ \A i \in 1 .. n : a[i] = q[(r + i - 1) % d]
  <2>1. a \in Seq(S) /\ Len(a) = n
    BY DolguTipi
  <2> QED
    BY <2>1, DolguElemani
<1>3. /\ b \in Seq(S) /\ Len(b) = n - 1
      /\ \A i \in 1 .. n - 1 : b[i] = q[(v + i - 1) % d]
  <2> HIDE DEF v, n
  <2>1. b \in Seq(S) /\ Len(b) = Say(w, v, d)
    BY <1>1, DolguTipi
  <2>2. \A i \in 1 .. Say(w, v, d) : b[i] = q[(v + i - 1) % d]
    BY DolguElemani
  <2> HIDE DEF b
  <2> QED
    BY <1>1, <2>1, <2>2
<1>4. v = IF r = d - 1 THEN 0 ELSE r + 1
  BY Artir
<1> HIDE DEF a, b, n, v
<1>5. a # <<>>
  BY <1>1, <1>2
<1>6. /\ c \in Seq(S) /\ Len(c) = n - 1
      /\ \A i \in 1 .. n - 1 : c[i] = a[i + 1]
  BY <1>2, <1>5, HeadTailProperties
<1>7. Head(a) = q[r]
  <2>1. Head(a) = a[1]
    BY <1>2, <1>5
  <2>2. a[1] = q[(r + 1 - 1) % d]
    BY <1>1, <1>2
  <2>3. (r + 1 - 1) % d = r
    OBVIOUS
  <2> QED
    BY <2>1, <2>2, <2>3
<1> HIDE DEF c
<1>8. ASSUME NEW i \in 1 .. Len(b) PROVE b[i] = c[i]
  <2>1. i \in 1 .. n - 1 /\ i + 1 \in 1 .. n
    BY <1>1, <1>3
  <2>2. c[i] = q[(r + (i + 1) - 1) % d]
    BY <1>2, <1>6, <2>1
  <2>3. b[i] = q[(v + i - 1) % d]
    BY <1>3, <2>1
  <2>4. (v + i - 1) % d = (r + (i + 1) - 1) % d
    <3>1. CASE r = d - 1
      <4>1. v + i - 1 = i - 1 /\ r + (i + 1) - 1 = (i - 1) + d
        BY <1>4, <2>1, <3>1
      <4>2. i - 1 \in 0 .. d - 1
        BY <1>1, <2>1
      <4>3. ((i - 1) + d) % d = (i - 1) % d
        BY <4>2, TurEkle
      <4> QED
        BY <4>1, <4>3
    <3>2. CASE r # d - 1
      <4>1. v + i - 1 = r + (i + 1) - 1
        BY <1>4, <2>1, <3>2
      <4> QED
        BY <4>1
    <3> QED
      BY <3>1, <3>2
  <2> QED
    BY <2>2, <2>3, <2>4
<1>9. b = c
  BY <1>3, <1>6, <1>8, SeqEqual
<1> QED
  BY <1>5, <1>7, <1>9 DEF b, c, a, v

-----------------------------------------------------------------------------
(* The refinement *)

VericiIcerigi == Dolgu(verici.queue, verici.write_ptr, verici.read_ptr, TX_DERINLIK)
AliciIcerigi == Dolgu(alici.queue, alici.write_ptr, alici.read_ptr, RX_DERINLIK)

LEMMA YoldakiAcilimi ==
    /\ Yoldaki = AliciIcerigi \o (IF Cift THEN Tail(VericiIcerigi) ELSE VericiIcerigi)
    /\ Yoldaki' = AliciIcerigi' \o (IF Cift' THEN Tail(VericiIcerigi') ELSE VericiIcerigi')
<1>1. /\ Icerik(alici, RX_DERINLIK) = AliciIcerigi
      /\ Icerik(verici, TX_DERINLIK) = VericiIcerigi
      /\ Icerik(alici, RX_DERINLIK)' = AliciIcerigi'
      /\ Icerik(verici, TX_DERINLIK)' = VericiIcerigi'
  BY DEF Icerik, AliciIcerigi, VericiIcerigi, Dolgu, Say
<1> QED
  BY <1>1 DEF Yoldaki

LEMMA IcerikTipleri ==
    ASSUME TipDogru
    PROVE  /\ VericiIcerigi \in Seq(Bayt) /\ Len(VericiIcerigi) = TxSay
           /\ AliciIcerigi \in Seq(Bayt) /\ Len(AliciIcerigi) = RxSay
<1>1. /\ TX_DERINLIK \in Nat \ {0} /\ RX_DERINLIK \in Nat \ {0}
      /\ verici.write_ptr \in 0 .. TX_DERINLIK - 1 /\ verici.read_ptr \in 0 .. TX_DERINLIK - 1
      /\ alici.write_ptr \in 0 .. RX_DERINLIK - 1 /\ alici.read_ptr \in 0 .. RX_DERINLIK - 1
      /\ TxSay = Say(verici.write_ptr, verici.read_ptr, TX_DERINLIK)
      /\ RxSay = Say(alici.write_ptr, alici.read_ptr, RX_DERINLIK)
  BY SayTipleri
<1>2. /\ verici.queue \in Hucreler(Bayt, TX_DERINLIK)
      /\ alici.queue \in Hucreler(Bayt, RX_DERINLIK)
  BY DEF TipDogru, Hucreler
<1> HIDE DEF Bayt
<1>3. VericiIcerigi \in Seq(Bayt) /\ Len(VericiIcerigi) = TxSay
  BY <1>1, <1>2, DolguTipi DEF VericiIcerigi
<1>4. AliciIcerigi \in Seq(Bayt) /\ Len(AliciIcerigi) = RxSay
  BY <1>1, <1>2, DolguTipi DEF AliciIcerigi
<1> QED
  BY <1>3, <1>4

LEMMA VericiIcerigiAdim ==
    ASSUME IInv, Kenar, TipDogru'
    PROVE  VericiIcerigi' =
             LET t1 == IF tx_we = TRUE THEN Append(VericiIcerigi, cikan) ELSE VericiIcerigi
             IN IF Cekilir THEN Tail(t1) ELSE t1
<1> DEFINE t1 == IF tx_we = TRUE THEN Append(VericiIcerigi, cikan) ELSE VericiIcerigi
<1> t1 = IF tx_we = TRUE THEN Append(VericiIcerigi, cikan) ELSE VericiIcerigi
  OBVIOUS
<1> HIDE DEF t1
<1> SUFFICES VericiIcerigi' = IF Cekilir THEN Tail(t1) ELSE t1
  BY DEF t1
<1> DEFINE d == TX_DERINLIK
           w == verici.write_ptr
           r == verici.read_ptr
           q == verici.queue
           w2 == verici'.write_ptr
           q2 == verici'.queue
<1>1. /\ d \in Nat \ {0} /\ w \in 0 .. d - 1 /\ r \in 0 .. d - 1 /\ TxSay = Say(w, r, d)
  BY SayTipleri DEF IInv
<1>2. q \in Hucreler(Bayt, d) /\ q2 \in Hucreler(Bayt, d) /\ w2 \in 0 .. d - 1
  BY DEF IInv, TipDogru, Hucreler
<1>3. /\ w2 = IF tx_we = TRUE THEN (w + 1) % d ELSE w
      /\ q2 = IF tx_we = TRUE THEN [q EXCEPT ![w] = cikan] ELSE q
  <2>1. tx_we \in BOOLEAN
    BY DEF IInv, TipDogru
  <2> QED
    BY <2>1, VericiAlanlari DEF IInv, Kenar
<1>4. verici'.read_ptr = IF Cekilir THEN (r + 1) % d ELSE r
  BY KuyrukAdim
<1>5. /\ tx_we = TRUE => TxSay < d - 1
      /\ Cekilir => TxSay > 0
  BY KuyrukSinirlari
<1>6. VericiIcerigi = Dolgu(q, w, r, d)
  BY DEF VericiIcerigi
<1>7. VericiIcerigi' = Dolgu(q2, w2, verici'.read_ptr, d)
  BY DEF VericiIcerigi
<1> HIDE DEF d, w, r, q, w2, q2, Bayt
<1>8. t1 = Dolgu(q2, w2, r, d)
  <2>1. CASE tx_we = TRUE
    <3>1. Disinda(q, q2, w, d) /\ q2[w] = cikan /\ w2 = (w + 1) % d
      BY <1>1, <1>2, <1>3, <2>1 DEF Disinda, Hucreler
    <3>2. Say(w, r, d) < d - 1
      BY <1>1, <1>5, <2>1
    <3>3. Dolgu(q2, (w + 1) % d, r, d) = Append(Dolgu(q, w, r, d), q2[w])
      BY <1>1, <1>2, <3>1, <3>2, DolguEkle
    <3> QED
      BY <1>6, <2>1, <3>1, <3>3
  <2>2. CASE tx_we # TRUE
    BY <1>3, <1>6, <2>2
  <2> QED
    BY <2>1, <2>2
<1>9. CASE Cekilir
  <2>1. Say(w2, r, d) > 0
    <3>1. CASE tx_we = TRUE
      <4>1. Say((w + 1) % d, r, d) = Say(w, r, d) + 1 /\ Say(w, r, d) > 0
        BY <1>1, <1>5, <1>9, <3>1, SayYaz
      <4>2. Say(w, r, d) \in Nat
        BY <1>1, SayDegeri
      <4>3. w2 = (w + 1) % d
        BY <1>3, <3>1
      <4> QED
        BY <4>1, <4>2, <4>3
    <3>2. CASE tx_we # TRUE
      BY <1>1, <1>3, <1>5, <1>9, <3>2
    <3> QED
      BY <3>1, <3>2
  <2>2. Dolgu(q2, w2, (r + 1) % d, d) = Tail(Dolgu(q2, w2, r, d))
    BY <1>1, <1>2, <2>1, DolguCek
  <2> QED
    BY <1>4, <1>7, <1>8, <1>9, <2>2
<1>10. CASE ~Cekilir
  BY <1>4, <1>7, <1>8, <1>10
<1> QED
  BY <1>9, <1>10

LEMMA AliciIcerigiAdim ==
    ASSUME IInv, Kenar, TipDogru'
    PROVE  AliciIcerigi' =
             LET r1 == IF Biter THEN Append(AliciIcerigi, Head(VericiIcerigi)) ELSE AliciIcerigi
             IN IF rx_re = TRUE THEN Tail(r1) ELSE r1
<1> DEFINE r1 == IF Biter THEN Append(AliciIcerigi, Head(VericiIcerigi)) ELSE AliciIcerigi
<1> r1 = IF Biter THEN Append(AliciIcerigi, Head(VericiIcerigi)) ELSE AliciIcerigi
  OBVIOUS
<1> HIDE DEF r1
<1> SUFFICES AliciIcerigi' = IF rx_re = TRUE THEN Tail(r1) ELSE r1
  BY DEF r1
<1> DEFINE d == RX_DERINLIK
           w == alici.write_ptr
           r == alici.read_ptr
           q == alici.queue
           w2 == alici'.write_ptr
           q2 == alici'.queue
           h == Head(VericiIcerigi)
<1>1. /\ d \in Nat \ {0} /\ w \in 0 .. d - 1 /\ r \in 0 .. d - 1 /\ RxSay = Say(w, r, d)
  BY SayTipleri DEF IInv
<1>2. q \in Hucreler(Bayt, d) /\ q2 \in Hucreler(Bayt, d) /\ w2 \in 0 .. d - 1
  BY DEF IInv, TipDogru, Hucreler
<1>3. /\ w2 = IF Biter THEN (w + 1) % d ELSE w
      /\ q2 = RxKuyruk
      /\ alici'.read_ptr = IF rx_re = TRUE THEN (r + 1) % d ELSE r
  <2>1. rx_re \in BOOLEAN
    BY DEF IInv, TipDogru
  <2> QED
    BY <2>1, AliciAlanlari DEF IInv, Kenar
<1>4. Disinda(q, q2, w, d)
  BY <1>2, <1>3 DEF RxKuyruk, Disinda, Hucreler
<1>5. Biter => q2 = q
  BY <1>3, Sayilar DEF Biter, RxKuyruk, VERI
<1>6. /\ Biter => RxSay < d - 1
      /\ rx_re = TRUE => RxSay > 0
  BY KuyrukSinirlari
<1>7. Biter => q2[w] = h
  <2> SUFFICES ASSUME Biter PROVE q[w] = h
    BY <1>5
  <2>1. Izler /\ TxSay > 0
    BY EvreSonucu, KuyrukSinirlari DEF IInv
  <2>2. alici.start_r = TRUE /\ alici.state = SON
    BY <2>1 DEF Izler, Biter
  <2>3. ASSUME NEW k \in 0 .. BIT - 1 PROVE q[w][k] = verici.queue[verici.read_ptr][k]
    <3>1. k + 2 < alici.state
      BY <2>2, Sayilar
    <3> QED
      BY <2>2, <3>1 DEF IInv, VeriDogru
  <2>4. q[w] \in [0 .. BIT - 1 -> {0, 1}]
    BY <1>1, <1>2 DEF Bayt, Hucreler
  <2>5. verici.queue[verici.read_ptr] \in [0 .. BIT - 1 -> {0, 1}]
    BY DEF IInv, TipDogru, Bayt
  <2>6. q[w] = verici.queue[verici.read_ptr]
    <3> DEFINE x == q[w]
               y == verici.queue[verici.read_ptr]
               D == 0 .. BIT - 1
               R == {0, 1}
    <3>1. x \in [D -> R] /\ y \in [D -> R] /\ \A k \in D : x[k] = y[k]
      BY <2>3, <2>4, <2>5
    <3> HIDE DEF x, y, D, R
    <3>2. x = y
      BY <3>1
    <3> QED
      BY <3>2 DEF x, y
  <2>7. h = verici.queue[verici.read_ptr]
    <3>1. /\ TX_DERINLIK \in Nat \ {0}
          /\ verici.write_ptr \in 0 .. TX_DERINLIK - 1 /\ verici.read_ptr \in 0 .. TX_DERINLIK - 1
          /\ TxSay = Say(verici.write_ptr, verici.read_ptr, TX_DERINLIK)
      BY SayTipleri DEF IInv
    <3>2. verici.queue \in Hucreler(Bayt, TX_DERINLIK)
      BY DEF IInv, TipDogru, Hucreler
    <3>3. Say(verici.write_ptr, verici.read_ptr, TX_DERINLIK) > 0
      BY <2>1, <3>1
    <3> HIDE DEF Bayt
    <3> QED
      BY <3>1, <3>2, <3>3, DolguCek DEF VericiIcerigi
  <2> QED
    BY <2>6, <2>7
<1>8. AliciIcerigi = Dolgu(q, w, r, d)
  BY DEF AliciIcerigi
<1>9. AliciIcerigi' = Dolgu(q2, w2, alici'.read_ptr, d)
  BY DEF AliciIcerigi
<1> HIDE DEF d, w, r, q, w2, q2, h, Bayt
<1>10. r1 = Dolgu(q2, w2, r, d)
  <2>1. CASE Biter
    <3>1. Say(w, r, d) < d - 1
      BY <1>1, <1>6, <2>1
    <3>2. Dolgu(q2, (w + 1) % d, r, d) = Append(Dolgu(q, w, r, d), q2[w])
      BY <1>1, <1>2, <1>4, <3>1, DolguEkle
    <3> QED
      BY <1>3, <1>7, <1>8, <2>1, <3>2 DEF h
  <2>2. CASE ~Biter
    <3>1. Dolgu(q2, w, r, d) = Dolgu(q, w, r, d)
      BY <1>1, <1>2, <1>4, DolguAyni
    <3> QED
      BY <1>3, <1>8, <2>2, <3>1
  <2> QED
    BY <2>1, <2>2
<1>11. CASE rx_re = TRUE
  <2>1. Say(w2, r, d) > 0
    <3>1. CASE Biter
      <4>1. Say((w + 1) % d, r, d) = Say(w, r, d) + 1 /\ Say(w, r, d) > 0
        BY <1>1, <1>6, <1>11, <3>1, SayYaz
      <4>2. Say(w, r, d) \in Nat
        BY <1>1, SayDegeri
      <4>3. w2 = (w + 1) % d
        BY <1>3, <3>1
      <4> QED
        BY <4>1, <4>2, <4>3
    <3>2. CASE ~Biter
      BY <1>1, <1>3, <1>6, <1>11, <3>2
    <3> QED
      BY <3>1, <3>2
  <2>2. Dolgu(q2, w2, (r + 1) % d, d) = Tail(Dolgu(q2, w2, r, d))
    BY <1>1, <1>2, <2>1, DolguCek
  <2> QED
    BY <1>3, <1>9, <1>10, <1>11, <2>2
<1>12. CASE rx_re # TRUE
  BY <1>3, <1>9, <1>10, <1>12
<1> QED
  BY <1>11, <1>12

\* What is on its way changes only by what the driver sends and reads.
LEMMA YoldakiAdim ==
    ASSUME IInv, Kenar, TipDogru'
    PROVE  /\ tx_we = TRUE => Yoldaki' = Append(Yoldaki, cikan)
           /\ rx_re = TRUE => /\ Yoldaki # <<>>
                              /\ wb_dat.veri = Head(Yoldaki)
                              /\ Yoldaki' = Tail(Yoldaki)
           /\ tx_we = FALSE /\ rx_re = FALSE => Yoldaki' = Yoldaki
<1> DEFINE S == Bayt
           r == AliciIcerigi
           t == VericiIcerigi
           b == cikan
           yaz == tx_we
           oku == rx_re
           var == IF Biter THEN TRUE ELSE FALSE
           cek == IF Cekilir THEN TRUE ELSE FALSE
           f == IF Cift THEN TRUE ELSE FALSE
           g == IF Cift' THEN TRUE ELSE FALSE
           r1 == IF var = TRUE THEN Append(r, Head(t)) ELSE r
           r2 == IF oku = TRUE THEN Tail(r1) ELSE r1
           t1 == IF yaz = TRUE THEN Append(t, b) ELSE t
           t2 == IF cek = TRUE THEN Tail(t1) ELSE t1
           y == r \o (IF f = TRUE THEN Tail(t) ELSE t)
           z == r2 \o (IF g = TRUE THEN Tail(t2) ELSE t2)
<1>1. r \in Seq(S) /\ t \in Seq(S) /\ Len(t) = TxSay /\ Len(r) = RxSay
  BY IcerikTipleri DEF IInv
<1>2. /\ b \in S /\ yaz \in BOOLEAN /\ oku \in BOOLEAN /\ var \in BOOLEAN /\ cek \in BOOLEAN
      /\ f \in BOOLEAN /\ g \in BOOLEAN
  BY BoyVarsayimi DEF IInv, TipDogru
<1>3. /\ TxSay > 0 => t # <<>>
      /\ RxSay > 0 => r # <<>>
  BY <1>1
<1>4. f = TRUE \/ var = TRUE \/ cek = TRUE => t # <<>>
  <2>1. Cift => TxSay > 0
    <3>1. Cift => verici.state # 0
      BY Sayilar DEF Cift
    <3>2. TxSay \in Nat /\ (TxBos <=> TxSay = 0)
      BY SayTipleri DEF IInv
    <3> QED
      BY <3>1, <3>2 DEF IInv, SayiDogru
  <2> QED
    BY <1>3, <2>1, KuyrukSinirlari
<1>5. oku = TRUE => r # <<>>
  BY <1>3, KuyrukSinirlari
<1>6. ~(yaz = TRUE /\ oku = TRUE)
  BY OnaysizIs
<1>7. /\ Biter /\ Cekilir => ~Cift /\ ~Cift'
      /\ Biter /\ ~Cekilir => ~Cift /\ Cift'
      /\ ~Biter /\ Cekilir => Cift /\ ~Cift'
      /\ ~Biter /\ ~Cekilir => (Cift <=> Cift')
  BY CiftAdim
<1>8. /\ var = TRUE <=> Biter
      /\ cek = TRUE <=> Cekilir
      /\ f = TRUE <=> Cift
      /\ g = TRUE <=> Cift'
  OBVIOUS
<1>9. Yoldaki = y
  BY YoldakiAcilimi
<1>10. Yoldaki' = z
  <2>1. AliciIcerigi' = r2
    BY AliciIcerigiAdim
  <2>2. VericiIcerigi' = t2
    BY VericiIcerigiAdim
  <2>3. Yoldaki' = AliciIcerigi' \o (IF Cift' THEN Tail(VericiIcerigi') ELSE VericiIcerigi')
    BY YoldakiAcilimi
  <2> HIDE DEF r2, t2, r1, t1
  <2> QED
    BY <2>1, <2>2, <2>3
<1>11. wb_dat.veri = Head(r) \/ oku # TRUE
  <2> SUFFICES ASSUME rx_re = TRUE PROVE wb_dat.veri = Head(r)
    OBVIOUS
  <2>1. wb_dat.veri = alici.queue[alici.read_ptr]
    BY DEF IInv, SurucuDogru
  <2>2. /\ RX_DERINLIK \in Nat \ {0}
        /\ alici.write_ptr \in 0 .. RX_DERINLIK - 1 /\ alici.read_ptr \in 0 .. RX_DERINLIK - 1
        /\ RxSay = Say(alici.write_ptr, alici.read_ptr, RX_DERINLIK)
    BY SayTipleri DEF IInv
  <2>3. alici.queue \in Hucreler(Bayt, RX_DERINLIK)
    BY DEF IInv, TipDogru, Hucreler
  <2>4. Say(alici.write_ptr, alici.read_ptr, RX_DERINLIK) > 0
    BY <2>2, KuyrukSinirlari
  <2> HIDE DEF Bayt
  <2>5. Head(AliciIcerigi) = alici.queue[alici.read_ptr]
    BY <2>2, <2>3, <2>4, DolguCek DEF AliciIcerigi
  <2> QED
    BY <2>1, <2>5
<1>12. y = Onceki(r, t, f) /\ z = Sonraki(r, t, b, yaz, oku, var, cek, g)
  BY DEF Onceki, Sonraki
<1> HIDE DEF S, r, t, b, yaz, oku, var, cek, f, g, r1, r2, t1, t2, y, z
<1>13. /\ var = TRUE => f = FALSE /\ g = (~cek)
       /\ var = FALSE /\ cek = TRUE => f = TRUE /\ g = FALSE
       /\ var = FALSE /\ cek = FALSE => g = f
  BY <1>2, <1>7, <1>8
<1>14. AkisKosulu(S, r, t, b, yaz, oku, var, cek, f, g)
  BY <1>1, <1>2, <1>4, <1>5, <1>6, <1>13 DEF AkisKosulu
<1>15. AkisSonucu(r, b, yaz, oku, y, z)
  BY <1>12, <1>14, Akis
<1> QED
  BY <1>9, <1>10, <1>11, <1>15 DEF AkisSonucu, yaz, oku, b

\* After a reset nothing is on its way.
LEMMA SessizBos == Sessiz => Yoldaki = <<>> /\ okunan = YOK
<1> SUFFICES ASSUME Sessiz PROVE Yoldaki = <<>>
  BY DEF Sessiz
<1>1. IInv /\ bekleyen = 0
  BY SessizIInv DEF Sessiz
<1>2. verici.state = 0
  BY DEF Sessiz, BosVerici
<1>3. ~Cift
  BY <1>2, Sayilar DEF Cift
<1>4. Yoldaki = AliciIcerigi \o VericiIcerigi
  BY <1>3, YoldakiAcilimi
<1>5. TxSay = 0 /\ RxSay = 0
  <2>1. TxSay \in Nat /\ RxSay \in Nat
    BY <1>1, SayTipleri DEF IInv
  <2>2. bekleyen = RxSay + TxSay
    BY <1>1, <1>3, <2>1 DEF IInv, SayiDogru
  <2> QED
    BY <1>1, <2>1, <2>2
<1>6. /\ AliciIcerigi \in Seq(Bayt) /\ Len(AliciIcerigi) = 0
      /\ VericiIcerigi \in Seq(Bayt) /\ Len(VericiIcerigi) = 0
  BY <1>1, <1>5, IcerikTipleri DEF IInv
<1>7. AliciIcerigi = <<>> /\ VericiIcerigi = <<>>
  BY <1>6, EmptySeq
<1> QED
  BY <1>4, <1>7

\* The way of a byte from zputchar to zgetchar is a queue: none is lost, doubled, reordered
\* or changed, with any interleaving of sends, reads, bit times and resets.
THEOREM KuyrukTeoremi == Spec => KuyrukUygular
<1>1. Init => Kuyruk!Baslangic
  BY BaslangicSessiz, SessizBos DEF Kuyruk!Baslangic
<1>2. IInv /\ [Next]_vars => [~Sifirla => Kuyruk!Aktar]_(Kuyruk!kuyruk_vars)
  <2> SUFFICES ASSUME IInv, [Next]_vars, ~Sifirla
               PROVE  Kuyruk!Aktar \/ UNCHANGED Kuyruk!kuyruk_vars
    OBVIOUS
  <2>1. CASE Cevrim
    <3>1. Kenar /\ TipDogru' /\ okunan' = IF rx_re THEN wb_dat.veri ELSE YOK
      BY <2>1, CevrimOzeti, TipAdim
    <3>2. tx_we \in BOOLEAN /\ rx_re \in BOOLEAN /\ ~(tx_we = TRUE /\ rx_re = TRUE)
      BY OnaysizIs
    <3>3. CASE tx_we = TRUE
      <4>1. Yoldaki' = Append(Yoldaki, cikan)
        BY <3>1, <3>3, YoldakiAdim
      <4>2. okunan' = YOK
        BY <3>1, <3>2, <3>3
      <4>3. cikan \in Baytlar
        BY DEF IInv, TipDogru
      <4> QED
        BY <4>1, <4>2, <4>3 DEF Kuyruk!Aktar, Kuyruk!Yaz
    <3>4. CASE rx_re = TRUE
      <4>1. Yoldaki # <<>> /\ wb_dat.veri = Head(Yoldaki) /\ Yoldaki' = Tail(Yoldaki)
        BY <3>1, <3>4, YoldakiAdim
      <4>2. okunan' = wb_dat.veri
        BY <3>1, <3>4
      <4> QED
        BY <4>1, <4>2 DEF Kuyruk!Aktar, Kuyruk!Oku
    <3>5. CASE tx_we = FALSE /\ rx_re = FALSE
      <4>1. Yoldaki' = Yoldaki
        BY <3>1, <3>5, YoldakiAdim
      <4>2. okunan' = YOK
        BY <3>1, <3>5
      <4> QED
        BY <4>1, <4>2 DEF Kuyruk!Aktar, Kuyruk!Bekle
    <3> QED
      BY <3>2, <3>3, <3>4, <3>5
  <2>2. CASE UNCHANGED vars
    BY <2>2 DEF vars, Kuyruk!kuyruk_vars, Yoldaki, Icerik, Cift
  <2> QED
    BY <2>1, <2>2 DEF Next, Cevrim
<1>3. IInv /\ Sifirla => Kuyruk!Bosalt
  <2> SUFFICES ASSUME IInv, Sifirla PROVE Kuyruk!Bosalt
    OBVIOUS
  <2>1. Sessiz'
    BY SifirlaSessiz DEF IInv
  <2>2. (Sessiz => Yoldaki = <<>> /\ okunan = YOK)'
    BY SessizBos, PTL
  <2> QED
    BY <2>1, <2>2 DEF Kuyruk!Bosalt
<1>4. IInv /\ [Next]_vars => [Kuyruk!Adim]_(Kuyruk!kuyruk_vars)
  BY <1>2, <1>3 DEF Kuyruk!Adim
<1> QED
  BY <1>1, <1>2, <1>4, IInvTeoremi, PTL DEF Spec, KuyrukUygular, Kuyruk!KuyrukSpec

=============================================================================
