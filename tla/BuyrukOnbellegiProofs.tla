----------------------- MODULE BuyrukOnbellegiProofs -----------------------
(***************************************************************************)
(* Theorems about BuyrukOnbellegi, for every number of tags and rows.      *)
(***************************************************************************)
EXTENDS BuyrukOnbellegi, TLAPS

USE DEF BSatirlar, BTaglar, Banka

\* data_addr0: the same row, or the next one with the last row wrapping to row 0.
LEMMA DataAddr0Lemma ==
    ASSUME TipDogru
    PROVE  /\ DataAddr0 \in BSatirlar
           /\ ps.yarim = 0 => DataAddr0 = ps.adr
           /\ ps.yarim = 1 /\ ps.adr < BSatirSayisi - 1 => DataAddr0 = ps.adr + 1
           /\ ps.yarim = 1 /\ ps.adr = BSatirSayisi - 1 => DataAddr0 = 0
<1>1. /\ ps.adr \in 0 .. BSatirSayisi - 1
      /\ ps.yarim \in {0, 1}
      /\ BSatirSayisi \in Nat \ {0}
  BY BuyrukVarsayimi DEF TipDogru, PsTipi
<1>2. \A n \in Nat \ {0} : /\ \A k \in 0 .. n - 1 : k % n = k
                           /\ n % n = 0
  OBVIOUS
<1>3. CASE ps.adr + ps.yarim < BSatirSayisi
  <2>1. ps.adr + ps.yarim \in 0 .. BSatirSayisi - 1
    BY <1>1, <1>3
  <2>2. DataAddr0 = ps.adr + ps.yarim
    BY <1>1, <1>2, <2>1 DEF DataAddr0
  <2> QED
    BY <1>1, <2>1, <2>2
<1>4. CASE ps.adr + ps.yarim = BSatirSayisi
  <2>1. DataAddr0 = 0
    BY <1>1, <1>2, <1>4 DEF DataAddr0
  <2> QED
    BY <1>1, <1>4, <2>1
<1> QED
  BY <1>1, <1>3, <1>4

\* Every row has its bank entry.
LEMMA BankaLemma ==
    ASSUME NEW s \in BSatirlar
    PROVE  s \div 2 \in Banka
  BY BuyrukVarsayimi

\* Two rows of one parity with one bank entry are one row.
LEMMA BankaTekil ==
    ASSUME NEW s \in BSatirlar, NEW r \in BSatirlar,
           s \div 2 = r \div 2, Cift(s) <=> Cift(r)
    PROVE  s = r
  BY BuyrukVarsayimi DEF Cift

\* The argument of tag_denetleyici.v's closing comment, for every fetch address: each
\* bank is addressed by the port that asks for a row of its parity.
LEMMA TagSecimiLemma ==
    ASSUME TipDogru
    PROVE  TagSecimi
<1>1. /\ ps.adr \in 0 .. BSatirSayisi - 1
      /\ ps.yarim \in {0, 1}
      /\ BSatirSayisi \in Nat \ {0} /\ BSatirSayisi % 2 = 0
  BY BuyrukVarsayimi DEF TipDogru, PsTipi
<1>2. CASE DataAddr0 = ps.adr
  BY <1>2 DEF TagSecimi, Tag0, Tag1, TagCift, TagTek, SatirTagi, DataAddr1
<1>3. CASE DataAddr0 # ps.adr
  <2>1. \/ DataAddr0 = ps.adr + 1
        \/ DataAddr0 = 0 /\ ps.adr = BSatirSayisi - 1
    BY <1>1, <1>3, DataAddr0Lemma
  <2>2. Cift(DataAddr0) <=> ~Cift(ps.adr)
    BY <1>1, <2>1 DEF Cift
  <2>3. ~Cift(DataAddr0) => DataAddr0 \div 2 = ps.adr \div 2
    BY <1>1, <2>1, <2>2 DEF Cift
  <2> QED
    BY <1>3, <2>2, <2>3 DEF TagSecimi, Tag0, Tag1, TagCift, TagTek, SatirTagi, DataAddr1
<1> QED
  BY <1>2, <1>3

-----------------------------------------------------------------------------
(* Type correctness *)

\* A fill keeps the widths.
LEMMA DoldurTip ==
    ASSUME TipDogru, NEW r \in BSatirlar, Doldur(r)
    PROVE  TipDogru'
<1>1. r \div 2 \in Banka
  BY BankaLemma
<1>2. ps.tag \in BTaglar /\ bellek[<<ps.tag, r>>] \in BKelime
  BY DEF TipDogru, PsTipi, BAdres
<1>3. bellek[<<ps.tag, r>>][0] \in Yarim /\ bellek[<<ps.tag, r>>][1] \in Yarim
  BY <1>2 DEF BKelime
<1> QED
  BY <1>1, <1>2, <1>3 DEF TipDogru, Doldur, TagYaz

LEMMA TipIlk == Init => TipDogru
  BY BuyrukVarsayimi DEF Init, TipDogru, PsTipi, BasPs

LEMMA TipAdim == TipDogru /\ [Next]_vars => TipDogru'
<1> SUFFICES ASSUME TipDogru, [Next]_vars PROVE TipDogru'
  OBVIOUS
<1>1. DataAddr0 \in BSatirlar /\ DataAddr1 \in BSatirlar
  BY DataAddr0Lemma DEF TipDogru, PsTipi, DataAddr1
<1>2. CASE Doldur0
  BY <1>1, <1>2, DoldurTip DEF Doldur0
<1>3. CASE Doldur1
  BY <1>1, <1>3, DoldurTip DEF Doldur1
<1>4. CASE Iska
  BY <1>4 DEF TipDogru, Iska
<1>5. CASE Getir
  BY <1>5 DEF TipDogru, Getir
<1>6. CASE Sifirla
  BY <1>6, BuyrukVarsayimi DEF TipDogru, Sifirla, PsTipi, BasPs
<1>7. CASE UNCHANGED vars
  BY <1>7 DEF TipDogru, vars
<1> QED
  BY <1>2, <1>3, <1>4, <1>5, <1>6, <1>7 DEF Next, Saat

\* Registers and RAMs keep their widths.
THEOREM TipTeoremi == Spec => []TipDogru
  BY TipIlk, TipAdim, PTL DEF Spec

\* On every reachable state the two tag outputs belong to the rows asked for.
THEOREM TagSecimiTeoremi == Spec => []TagSecimi
  BY TipTeoremi, TagSecimiLemma, PTL

-----------------------------------------------------------------------------
(* The inductive invariant *)

\* The state right after Init and after a reset.
LEMMA BosOnbellek ==
    ASSUME TipDogru, state = "READMEM0", valid = [s \in BSatirlar |-> FALSE]
    PROVE  SatirDogru /\ IlkOkuma /\ IkinciOkuma
  BY DataAddr0Lemma DEF SatirDogru, IlkOkuma, IkinciOkuma, Data0Ready

\* A fill puts the word of <<ps.tag, r>> into row r and leaves the other rows alone.
LEMMA DoldurEtki ==
    ASSUME TipDogru, NEW r \in BSatirlar, Doldur(r)
    PROVE  /\ valid'[r] /\ SatirTagi(r)' = ps.tag
           /\ ram512d0'[r] = bellek[<<ps.tag, r>>][0]
           /\ ram512d1'[r] = bellek[<<ps.tag, r>>][1]
           /\ \A s \in BSatirlar \ {r} :
                 /\ valid'[s] = valid[s] /\ SatirTagi(s)' = SatirTagi(s)
                 /\ ram512d0'[s] = ram512d0[s] /\ ram512d1'[s] = ram512d1[s]
<1>1. r \div 2 \in Banka
  BY BankaLemma
<1>2. /\ valid'[r] /\ SatirTagi(r)' = ps.tag
      /\ ram512d0'[r] = bellek[<<ps.tag, r>>][0]
      /\ ram512d1'[r] = bellek[<<ps.tag, r>>][1]
  BY <1>1 DEF TipDogru, Doldur, TagYaz, SatirTagi
<1>3. ASSUME NEW s \in BSatirlar \ {r}
      PROVE  /\ valid'[s] = valid[s] /\ SatirTagi(s)' = SatirTagi(s)
             /\ ram512d0'[s] = ram512d0[s] /\ ram512d1'[s] = ram512d1[s]
  <2>1. valid'[s] = valid[s] /\ ram512d0'[s] = ram512d0[s] /\ ram512d1'[s] = ram512d1[s]
    BY DEF TipDogru, Doldur
  <2>2. s \div 2 \in Banka
    BY BankaLemma
  <2>3. (Cift(s) <=> Cift(r)) => s \div 2 # r \div 2
    BY BankaTekil
  <2>4. CASE Cift(r)
    BY <1>1, <2>2, <2>3, <2>4 DEF TipDogru, Doldur, TagYaz, SatirTagi
  <2>5. CASE ~Cift(r)
    BY <1>1, <2>2, <2>3, <2>5 DEF TipDogru, Doldur, TagYaz, SatirTagi
  <2> QED
    BY <2>1, <2>4, <2>5
<1> QED
  BY <1>2, <1>3

\* The rows hold the program after a fill as well.
LEMMA DoldurDogru ==
    ASSUME TipDogru, SatirDogru, NEW r \in BSatirlar, Doldur(r)
    PROVE  SatirDogru'
<1> SUFFICES ASSUME NEW s \in BSatirlar, valid'[s]
             PROVE  /\ ram512d0'[s] = bellek'[<<SatirTagi(s)', s>>][0]
                    /\ ram512d1'[s] = bellek'[<<SatirTagi(s)', s>>][1]
  BY DEF SatirDogru
<1>1. bellek' = bellek
  BY DEF Doldur
<1>2. CASE s = r
  BY <1>1, <1>2, DoldurEtki
<1>3. CASE s # r
  <2>1. /\ valid[s] /\ SatirTagi(s)' = SatirTagi(s)
        /\ ram512d0'[s] = ram512d0[s] /\ ram512d1'[s] = ram512d1[s]
    BY <1>3, DoldurEtki
  <2> QED
    BY <1>1, <2>1 DEF SatirDogru
<1> QED
  BY <1>2, <1>3

\* The row filled hits, and rows with another number hit as they did.
LEMMA DoldurIsabet ==
    ASSUME TipDogru, TipDogru', NEW r \in BSatirlar, Doldur(r)
    PROVE  /\ DataAddr0 = r => Data0Ready'
           /\ DataAddr1 = r => Data1Ready'
           /\ DataAddr0 # r => (Data0Ready' <=> Data0Ready)
           /\ DataAddr1 # r => (Data1Ready' <=> Data1Ready)
<1>1. ps' = ps
  BY DEF Doldur
<1>2. DataAddr0' = DataAddr0 /\ DataAddr1' = DataAddr1
  BY <1>1 DEF DataAddr0, DataAddr1
<1>3. TagSecimi /\ TagSecimi'
  <2>1. TagSecimi
    BY TagSecimiLemma
  <2>2. (TipDogru => TagSecimi)'
    BY TagSecimiLemma, PTL
  <2> QED
    BY <2>1, <2>2
<1>4. DataAddr0 \in BSatirlar /\ DataAddr1 \in BSatirlar
  BY DataAddr0Lemma DEF TipDogru, PsTipi, DataAddr1
<1>5. /\ Data0Ready <=> valid[DataAddr0] /\ SatirTagi(DataAddr0) = ps.tag
      /\ Data1Ready <=> valid[DataAddr1] /\ SatirTagi(DataAddr1) = ps.tag
  BY <1>3 DEF Data0Ready, Data1Ready, TagSecimi
<1>6. ASSUME NEW s \in BSatirlar, s = DataAddr0
      PROVE  Data0Ready' <=> valid'[s] /\ SatirTagi(s)' = ps.tag
  BY <1>1, <1>2, <1>3, <1>6 DEF Data0Ready, TagSecimi, SatirTagi
<1>7. ASSUME NEW s \in BSatirlar, s = DataAddr1
      PROVE  Data1Ready' <=> valid'[s] /\ SatirTagi(s)' = ps.tag
  BY <1>1, <1>2, <1>3, <1>7 DEF Data1Ready, TagSecimi, SatirTagi
<1>8. PICK s0 \in BSatirlar : s0 = DataAddr0
  BY <1>4
<1>9. PICK s1 \in BSatirlar : s1 = DataAddr1
  BY <1>4
<1>10. /\ s0 = r => Data0Ready'
       /\ s0 # r => (Data0Ready' <=> Data0Ready)
  <2>1. Data0Ready' <=> valid'[s0] /\ SatirTagi(s0)' = ps.tag
    BY <1>6, <1>8
  <2>2. Data0Ready <=> valid[s0] /\ SatirTagi(s0) = ps.tag
    BY <1>5, <1>8
  <2>3. CASE s0 = r
    <3>1. valid'[s0] /\ SatirTagi(s0)' = ps.tag
      BY <2>3, DoldurEtki
    <3> QED
      BY <2>1, <2>3, <3>1
  <2>4. CASE s0 # r
    <3>1. valid'[s0] = valid[s0] /\ SatirTagi(s0)' = SatirTagi(s0)
      BY <2>4, DoldurEtki
    <3> QED
      BY <2>1, <2>2, <2>4, <3>1
  <2> QED
    BY <2>3, <2>4
<1>11. /\ s1 = r => Data1Ready'
       /\ s1 # r => (Data1Ready' <=> Data1Ready)
  <2>1. Data1Ready' <=> valid'[s1] /\ SatirTagi(s1)' = ps.tag
    BY <1>7, <1>9
  <2>2. Data1Ready <=> valid[s1] /\ SatirTagi(s1) = ps.tag
    BY <1>5, <1>9
  <2>3. CASE s1 = r
    <3>1. valid'[s1] /\ SatirTagi(s1)' = ps.tag
      BY <2>3, DoldurEtki
    <3> QED
      BY <2>1, <2>3, <3>1
  <2>4. CASE s1 # r
    <3>1. valid'[s1] = valid[s1] /\ SatirTagi(s1)' = SatirTagi(s1)
      BY <2>4, DoldurEtki
    <3> QED
      BY <2>1, <2>2, <2>4, <3>1
  <2> QED
    BY <2>3, <2>4
<1> QED
  BY <1>8, <1>9, <1>10, <1>11

LEMMA IInvIlk == Init => IInv
  BY TipIlk, BosOnbellek DEF Init, IInv

LEMMA IInvAdim == IInv /\ [Next]_vars => IInv'
<1> SUFFICES ASSUME IInv, [Next]_vars PROVE IInv'
  OBVIOUS
<1>1. TipDogru /\ SatirDogru /\ IlkOkuma /\ IkinciOkuma
  BY DEF IInv
<1>2. TipDogru'
  BY <1>1, TipAdim
<1>3. DataAddr0 \in BSatirlar /\ DataAddr1 \in BSatirlar
  BY <1>1, DataAddr0Lemma DEF TipDogru, PsTipi, DataAddr1
<1>4. CASE Doldur0
  <2>1. SatirDogru'
    BY <1>1, <1>3, <1>4, DoldurDogru DEF Doldur0
  <2>2. IlkOkuma' /\ IkinciOkuma'
    BY <1>4 DEF Doldur0, Doldur, IlkOkuma, IkinciOkuma
  <2> QED
    BY <1>2, <2>1, <2>2 DEF IInv
<1>5. CASE Doldur1
  <2>1. SatirDogru'
    BY <1>1, <1>3, <1>5, DoldurDogru DEF Doldur1
  <2>2. IlkOkuma' /\ IkinciOkuma'
    BY <1>5 DEF Doldur1, Doldur, IlkOkuma, IkinciOkuma
  <2> QED
    BY <1>2, <2>1, <2>2 DEF IInv
<1>6. CASE Iska
  <2>1. SatirDogru'
    BY <1>1, <1>6 DEF Iska, SatirDogru, SatirTagi
  <2>2. Data0Ready' = Data0Ready /\ Data1Ready' = Data1Ready
    BY <1>6 DEF Iska, Data0Ready, Data1Ready, DataAddr0, DataAddr1, Tag0, Tag1, TagCift, TagTek
  <2>3. IlkOkuma' /\ IkinciOkuma'
    BY <1>6, <2>2 DEF Iska, IlkOkuma, IkinciOkuma
  <2> QED
    BY <1>2, <2>1, <2>3 DEF IInv
<1>7. CASE Getir
  BY <1>1, <1>2, <1>7 DEF Getir, Hazir, IInv, SatirDogru, SatirTagi, IlkOkuma, IkinciOkuma
<1>8. CASE Sifirla
  <2>1. (state = "READMEM0" /\ valid = [s \in BSatirlar |-> FALSE])'
    BY <1>8 DEF Sifirla
  <2>2. (TipDogru /\ state = "READMEM0" /\ valid = [s \in BSatirlar |-> FALSE]
            => SatirDogru /\ IlkOkuma /\ IkinciOkuma)'
    BY BosOnbellek, PTL
  <2> QED
    BY <1>2, <2>1, <2>2 DEF IInv
<1>9. CASE UNCHANGED vars
  BY <1>1, <1>2, <1>9
     DEF vars, IInv, SatirDogru, SatirTagi, IlkOkuma, IkinciOkuma, Data0Ready, Data1Ready, DataAddr0,
         DataAddr1, Tag0, Tag1, TagCift, TagTek
<1> QED
  BY <1>4, <1>5, <1>6, <1>7, <1>8, <1>9 DEF Next, Saat

\* The inductive invariant: rows hold the program, and READMEM1 is the second half.
THEOREM IInvTeoremi == Spec => []IInv
  BY IInvIlk, IInvAdim, PTL DEF Spec

-----------------------------------------------------------------------------
(* What the core gets *)

\* On a hit each half comes from the word of the memory the fetch asks for, the rows
\* being the ones DataAddr0 and DataAddr1 name under the one tag of the fetch.
LEMMA IsabetVerisi ==
    ASSUME IInv, Hazir
    PROVE  /\ ram512d0[DataAddr0] = bellek[<<ps.tag, DataAddr0>>][0]
           /\ ram512d1[DataAddr1] = bellek[<<ps.tag, DataAddr1>>][1]
<1>1. TipDogru /\ SatirDogru /\ TagSecimi
  BY TagSecimiLemma DEF IInv
<1>2. DataAddr0 \in BSatirlar /\ DataAddr1 \in BSatirlar
  BY <1>1, DataAddr0Lemma DEF TipDogru, PsTipi, DataAddr1
<1>3. /\ valid[DataAddr0] /\ SatirTagi(DataAddr0) = ps.tag
      /\ valid[DataAddr1] /\ SatirTagi(DataAddr1) = ps.tag
  BY <1>1 DEF Hazir, Data0Ready, Data1Ready, TagSecimi
<1> QED
  BY <1>1, <1>2, <1>3 DEF SatirDogru

LEMMA DogruBuyrukLemma == IInv => DogruBuyruk
<1> SUFFICES ASSUME IInv, Hazir, ~SatirSonundaHizasiz PROVE Deger = Beklenen
  BY DEF DogruBuyruk
<1>1. TipDogru
  BY DEF IInv
<1>2. ps.yarim \in {0, 1} /\ ps.adr \in 0 .. BSatirSayisi - 1 /\ BSatirSayisi \in Nat
  BY <1>1, BuyrukVarsayimi DEF TipDogru, PsTipi
<1>3. CASE ps.yarim = 0
  <2>1. DataAddr0 = ps.adr
    BY <1>1, <1>3, DataAddr0Lemma
  <2> QED
    BY <1>3, <2>1, IsabetVerisi DEF Deger, Beklenen, DataAddr1
<1>4. CASE ps.yarim = 1
  <2>1. ps.adr < BSatirSayisi - 1
    BY <1>2, <1>4 DEF SatirSonundaHizasiz
  <2>2. DataAddr0 = ps.adr + 1
    BY <1>1, <1>4, <2>1, DataAddr0Lemma
  <2> QED
    BY <1>4, <2>1, <2>2, IsabetVerisi DEF Deger, Beklenen, SonrakiKelime, DataAddr1
<1> QED
  BY <1>2, <1>3, <1>4

\* Away from the end of the last row, the core gets the program it asked for.
THEOREM DogruBuyrukTeoremi == Spec => []DogruBuyruk
  BY IInvTeoremi, DogruBuyrukLemma, PTL

LEMMA DogruIlkYariLemma == IInv => DogruIlkYari
<1> SUFFICES ASSUME IInv, Hazir PROVE Deger[1] = Beklenen[1]
  BY DEF DogruIlkYari
<1>1. TipDogru
  BY DEF IInv
<1>2. ps.yarim \in {0, 1}
  BY <1>1 DEF TipDogru, PsTipi
<1>3. CASE ps.yarim = 0
  <2>1. DataAddr0 = ps.adr
    BY <1>1, <1>3, DataAddr0Lemma
  <2> QED
    BY <1>3, <2>1, IsabetVerisi DEF Deger, Beklenen
<1>4. CASE ps.yarim = 1
  BY <1>4, IsabetVerisi DEF Deger, Beklenen, DataAddr1
<1> QED
  BY <1>2, <1>3, <1>4

\* The first half-word of a fetch is right at every address.
THEOREM DogruIlkYariTeoremi == Spec => []DogruIlkYari
  BY IInvTeoremi, DogruIlkYariLemma, PTL

LEMMA DolumIsabetAdim ==
    ASSUME IInv, [Next]_vars, state' = "READCACHE"
    PROVE  /\ state = "READMEM0" => Data0Ready'
           /\ state = "READMEM1" => Hazir'
<1>1. TipDogru /\ IkinciOkuma
  BY DEF IInv
<1>2. TipDogru'
  BY <1>1, TipAdim
<1>3. DataAddr0 \in BSatirlar /\ DataAddr1 \in BSatirlar
  BY <1>1, DataAddr0Lemma DEF TipDogru, PsTipi, DataAddr1
<1>4. CASE state = "READMEM0"
  <2>1. Doldur(DataAddr0)
    BY <1>4 DEF Next, Saat, Doldur0, Doldur1, Iska, Getir, Hazir, Sifirla, vars
  <2>2. Data0Ready'
    BY <1>1, <1>2, <1>3, <2>1, DoldurIsabet
  <2> QED
    BY <1>4, <2>2
<1>5. CASE state = "READMEM1"
  <2>1. Doldur(DataAddr1)
    BY <1>5 DEF Next, Saat, Doldur0, Doldur1, Iska, Getir, Hazir, Sifirla, vars
  <2>2. Data1Ready'
    BY <1>1, <1>2, <1>3, <2>1, DoldurIsabet
  <2>3. Data0Ready'
    BY <1>1, <1>2, <1>3, <1>5, <2>1, DoldurIsabet DEF IkinciOkuma
  <2> QED
    BY <1>5, <2>2, <2>3 DEF Hazir
<1> QED
  BY <1>1, <1>4, <1>5

\* A fill makes its half hit, and after the second fill the fetch is served.
THEOREM DolumIsabetTeoremi == Spec => DolumIsabet
<1>1. IInv /\ [Next]_vars =>
         /\ state = "READMEM0" /\ state' = "READCACHE" => Data0Ready'
         /\ state = "READMEM1" /\ state' = "READCACHE" => Hazir'
  BY DolumIsabetAdim
<1>2. Spec => [][/\ state = "READMEM0" /\ state' = "READCACHE" => Data0Ready'
                 /\ state = "READMEM1" /\ state' = "READCACHE" => Hazir']_vars
  BY <1>1, IInvTeoremi, PTL DEF Spec
<1> QED
  BY <1>2 DEF DolumIsabet

-----------------------------------------------------------------------------
(* Refinement: on the memory port the cache is GetirmeKapisi *)

\* One row serves an aligned fetch, two different ones an unaligned one.
LEMMA SatirAyri ==
    ASSUME TipDogru
    PROVE  /\ ps.yarim = 0 => DataAddr0 = DataAddr1 /\ (Data0Ready <=> Data1Ready)
           /\ ps.yarim = 1 => DataAddr0 # DataAddr1
<1>1. /\ ps.adr \in 0 .. BSatirSayisi - 1 /\ ps.yarim \in {0, 1}
      /\ BSatirSayisi \in Nat \ {0} /\ BSatirSayisi % 2 = 0
  BY BuyrukVarsayimi DEF TipDogru, PsTipi
<1>2. ASSUME ps.yarim = 0
      PROVE  DataAddr0 = DataAddr1 /\ (Data0Ready <=> Data1Ready)
  <2>1. DataAddr0 = DataAddr1
    BY <1>2, DataAddr0Lemma DEF DataAddr1
  <2>2. TagSecimi
    BY TagSecimiLemma
  <2>. QED BY <2>1, <2>2 DEF TagSecimi, Data0Ready, Data1Ready
<1>3. ASSUME ps.yarim = 1
      PROVE  DataAddr0 # DataAddr1
  <2>1. ps.adr < BSatirSayisi - 1 \/ ps.adr = BSatirSayisi - 1
    BY <1>1
  <2>2. BSatirSayisi - 1 # 0
    BY <1>1
  <2>. QED BY <1>1, <1>3, <2>1, <2>2, DataAddr0Lemma DEF DataAddr1
<1>. QED BY <1>2, <1>3

\* The halves a fetch misses.
LEMMA EksikLemma ==
    ASSUME TipDogru
    PROVE  /\ Eksik \in SUBSET {0, 1}
           /\ 0 \in Eksik <=> ~Data0Ready
           /\ 1 \in Eksik <=> ~Data1Ready /\ ps.yarim = 1
           /\ Eksik = {} <=> Data0Ready /\ Data1Ready
           /\ Eksik = {1} <=> Data0Ready /\ ~Data1Ready
<1>1. ps.yarim \in {0, 1}
  BY DEF TipDogru, PsTipi
<1>2. /\ Eksik \in SUBSET {0, 1}
      /\ 0 \in Eksik <=> ~Data0Ready
      /\ 1 \in Eksik <=> ~Data1Ready /\ ps.yarim = 1
  BY DEF Eksik
<1>3. Data0Ready /\ ~Data1Ready => ps.yarim = 1
  BY <1>1, SatirAyri
<1>4. Eksik = {} <=> 0 \notin Eksik /\ 1 \notin Eksik
  BY <1>2
<1>5. Eksik = {1} <=> 0 \notin Eksik /\ 1 \in Eksik
  <2>1. ASSUME 0 \notin Eksik, 1 \in Eksik PROVE \A h : h \in Eksik <=> h \in {1}
    <3> HIDE DEF Eksik
    <3>. QED BY <1>2, <2>1
  <2>. QED BY <2>1
<1>. QED BY <1>2, <1>3, <1>4, <1>5

\* Every fetch is one of the interface.
LEMMA KapiGetirmeTip == TipDogru => KapiGetirmesi \in Kapi!Getirmeler
<1> SUFFICES ASSUME TipDogru PROVE KapiGetirmesi \in Kapi!Getirmeler
  OBVIOUS
<1>1. /\ DataAddr0 \in BSatirlar /\ DataAddr1 \in BSatirlar /\ ps.tag \in BTaglar
      /\ 0 \in BSatirlar /\ 0 \in BTaglar
  BY DataAddr0Lemma, BuyrukVarsayimi DEF TipDogru, PsTipi, DataAddr1
<1>2. /\ <<ps.tag, DataAddr0>> \in BAdres /\ <<ps.tag, DataAddr1>> \in BAdres
      /\ <<0, 0>> \in BAdres
  BY <1>1 DEF BAdres
<1>3. Eksik \in SUBSET {0, 1}
  BY EksikLemma
<1>4. KapiGetirmesi \in Kapi!GetirmeTipi
  <2> HIDE DEF BSatirlar, BTaglar
  <2>. QED BY <1>2, <1>3 DEF KapiGetirmesi, Kapi!GetirmeTipi
<1>5. ASSUME Eksik = {0, 1} PROVE <<ps.tag, DataAddr0>> # <<ps.tag, DataAddr1>>
  <2>1. ps.yarim = 1
    BY <1>5, EksikLemma
  <2>. QED BY <2>1, SatirAyri
<1>6. /\ KapiGetirmesi.eksik = Eksik
      /\ 0 \notin Eksik => KapiGetirmesi.adr0 = <<0, 0>>
      /\ 1 \notin Eksik => KapiGetirmesi.adr1 = <<0, 0>>
      /\ Eksik = {0, 1} => KapiGetirmesi.adr0 # KapiGetirmesi.adr1
  BY <1>5 DEF KapiGetirmesi
<1>. QED BY <1>4, <1>6 DEF Kapi!Getirmeler

\* After a reset the first row is missing, and one word is enough.
LEMMA KapiIlk ==
    ASSUME TipDogru, valid = [s \in BSatirlar |-> FALSE], ps = BasPs
    PROVE  KapiGetirmesi = Kapi!Ilk
<1>1. DataAddr0 \in BSatirlar
  BY DataAddr0Lemma
<1>2. ps.yarim = 0 /\ ps.tag = 0 /\ DataAddr0 = 0 /\ ~Data0Ready
  BY <1>1, DataAddr0Lemma DEF BasPs, Data0Ready
<1>3. Eksik = {0}
  BY <1>2, EksikLemma
<1>4. KapiGetirmesi = [adr0 |-> <<0, 0>>, adr1 |-> <<0, 0>>, eksik |-> {0}]
  BY <1>2, <1>3 DEF KapiGetirmesi
<1>. QED BY <1>4 DEF Kapi!Ilk

\* A fill takes the half away that it is for, and no other.
LEMMA KapiDoldur ==
    ASSUME TipDogru, TipDogru', NEW h \in {0, 1},
           Doldur(IF h = 0 THEN DataAddr0 ELSE DataAddr1),
           h = 1 => ps.yarim = 1
    PROVE  Eksik' = Eksik \ {h} /\ ps' = ps /\ DataAddr0' = DataAddr0 /\ DataAddr1' = DataAddr1
<1>1. ps' = ps /\ DataAddr0' = DataAddr0 /\ DataAddr1' = DataAddr1
  BY DEF Doldur, DataAddr0, DataAddr1
<1>2. DataAddr0 \in BSatirlar /\ DataAddr1 \in BSatirlar /\ ps.yarim \in {0, 1}
  BY DataAddr0Lemma DEF TipDogru, PsTipi, DataAddr1
<1>3. ps.yarim = 1 => DataAddr0 # DataAddr1
  BY SatirAyri
<1>4. /\ Eksik' \in SUBSET {0, 1}
      /\ 0 \in Eksik' <=> ~Data0Ready'
      /\ 1 \in Eksik' <=> ~Data1Ready' /\ ps.yarim = 1
  <2>1. (TipDogru => /\ Eksik \in SUBSET {0, 1}
                     /\ 0 \in Eksik <=> ~Data0Ready
                     /\ 1 \in Eksik <=> ~Data1Ready /\ ps.yarim = 1)'
    BY EksikLemma, PTL
  <2>. QED BY <1>1, <2>1
<1>5. /\ Eksik \in SUBSET {0, 1}
      /\ 0 \in Eksik <=> ~Data0Ready
      /\ 1 \in Eksik <=> ~Data1Ready /\ ps.yarim = 1
  BY EksikLemma
<1>6. CASE h = 0
  <2>1. Data0Ready' /\ (ps.yarim = 1 => (Data1Ready' <=> Data1Ready))
    BY <1>2, <1>3, <1>6, DoldurIsabet
  <2>2. 0 \notin Eksik' /\ (1 \in Eksik' <=> 1 \in Eksik)
    BY <1>4, <1>5, <2>1
  <2>3. Eksik' = Eksik \ {0}
    BY <1>4, <1>5, <2>2
  <2>. QED BY <1>1, <1>6, <2>3
<1>7. CASE h = 1
  <2>1. Data1Ready' /\ (Data0Ready' <=> Data0Ready)
    BY <1>2, <1>3, <1>7, DoldurIsabet
  <2>2. 1 \notin Eksik' /\ (0 \in Eksik' <=> 0 \in Eksik)
    BY <1>4, <1>5, <2>1
  <2>3. Eksik' = Eksik \ {1}
    BY <1>4, <1>5, <2>2
  <2>. QED BY <1>1, <1>7, <2>3
<1>. QED BY <1>6, <1>7

\* The record of a fetch after a fill.
LEMMA KayitDoldur ==
    ASSUME NEW k \in Kapi!GetirmeTipi, NEW m \in Kapi!GetirmeTipi
    PROVE  /\ m.eksik = k.eksik \ {0} /\ m.adr0 = <<0, 0>> /\ m.adr1 = k.adr1
                => m = [k EXCEPT !.eksik = @ \ {0}, !.adr0 = <<0, 0>>]
           /\ m.eksik = {} /\ m.adr1 = <<0, 0>> /\ m.adr0 = k.adr0
                => m = [k EXCEPT !.eksik = {}, !.adr1 = <<0, 0>>]
  BY DEF Kapi!GetirmeTipi

LEMMA KapiInit == Init => Kapi!Init
BY TipIlk, KapiIlk DEF Init, Kapi!Init

\* Every clock edge out of reset is a step of the interface or a stutter.
LEMMA KapiAdim == IInv /\ IInv' /\ [Next]_vars => [~Sifirla => Kapi!Calis]_(Kapi!vars)
<1> SUFFICES ASSUME IInv, IInv', [Next]_vars, ~Sifirla
             PROVE  Kapi!Calis \/ UNCHANGED Kapi!vars
  OBVIOUS
<1>1. TipDogru /\ TipDogru' /\ IlkOkuma /\ IkinciOkuma
  BY DEF IInv
<1>2. KapiGetirmesi.eksik = Eksik
  BY DEF KapiGetirmesi
<1>3. KapiGetirmesi \in Kapi!GetirmeTipi /\ KapiGetirmesi' \in Kapi!GetirmeTipi
  <2>1. (TipDogru => KapiGetirmesi \in Kapi!Getirmeler)'
    BY KapiGetirmeTip, PTL
  <2>2. Kapi!Getirmeler \subseteq Kapi!GetirmeTipi
    BY DEF Kapi!Getirmeler
  <2>. QED BY <1>1, <2>1, <2>2, KapiGetirmeTip
<1>4. CASE Doldur0
  <2>1. Doldur(IF 0 = 0 THEN DataAddr0 ELSE DataAddr1) /\ state = "READMEM0" /\ state' = "READCACHE"
    BY <1>4 DEF Doldur0, Doldur
  <2>2. 0 \in Eksik
    BY <1>1, <2>1, EksikLemma DEF IlkOkuma
  <2>3. Eksik' = Eksik \ {0} /\ ps' = ps /\ DataAddr0' = DataAddr0 /\ DataAddr1' = DataAddr1
    BY <1>1, <2>1, KapiDoldur
  <2>4. KapiGetirmesi' = [KapiGetirmesi EXCEPT !.eksik = @ \ {0}, !.adr0 = <<0, 0>>]
    <3>1. 0 \notin Eksik' /\ (1 \in Eksik' <=> 1 \in Eksik)
      BY <2>3
    <3>2. /\ KapiGetirmesi'.eksik = KapiGetirmesi.eksik \ {0}
          /\ KapiGetirmesi'.adr0 = <<0, 0>>
          /\ KapiGetirmesi'.adr1 = KapiGetirmesi.adr1
      BY <2>3, <3>1 DEF KapiGetirmesi
    <3>. QED BY <1>3, <3>2, KayitDoldur
  <2>. QED BY <1>2, <2>1, <2>2, <2>4 DEF Kapi!Doldur0, Kapi!Calis
<1>5. CASE Doldur1
  <2>1. Doldur(IF 1 = 0 THEN DataAddr0 ELSE DataAddr1) /\ state = "READMEM1" /\ state' = "READCACHE"
    BY <1>5 DEF Doldur1, Doldur
  <2>2. Eksik = {1} /\ ps.yarim = 1
    BY <1>1, <2>1, EksikLemma DEF IkinciOkuma
  <2>3. Eksik' = Eksik \ {1} /\ ps' = ps /\ DataAddr0' = DataAddr0 /\ DataAddr1' = DataAddr1
    BY <1>1, <2>1, <2>2, KapiDoldur
  <2>4. Eksik' = {}
    BY <2>2, <2>3
  <2>5. KapiGetirmesi' = [KapiGetirmesi EXCEPT !.eksik = {}, !.adr1 = <<0, 0>>]
    <3>1. 1 \notin Eksik' /\ 0 \notin Eksik' /\ 0 \notin Eksik
      BY <2>2, <2>4
    <3>2. /\ KapiGetirmesi'.eksik = {}
          /\ KapiGetirmesi'.adr1 = <<0, 0>>
          /\ KapiGetirmesi'.adr0 = KapiGetirmesi.adr0
      BY <2>4, <3>1 DEF KapiGetirmesi
    <3>. QED BY <1>3, <3>2, KayitDoldur
  <2>. QED BY <1>2, <2>1, <2>2, <2>5 DEF Kapi!Doldur1, Kapi!Calis
<1>6. CASE Iska
  <2>1. KapiGetirmesi' = KapiGetirmesi
    BY <1>6 DEF Iska, KapiGetirmesi, Eksik, Data0Ready, Data1Ready, DataAddr0, DataAddr1, Tag0, Tag1,
                TagCift, TagTek
  <2>2. CASE ~Data0Ready
    <3>1. 0 \in Eksik
      BY <1>1, <2>2, EksikLemma
    <3>. QED BY <1>2, <1>6, <2>1, <2>2, <3>1 DEF Iska, Kapi!Oku0, Kapi!Calis
  <2>3. CASE Data0Ready
    <3>1. Eksik = {1}
      BY <1>1, <1>6, <2>3, EksikLemma DEF Iska
    <3>. QED BY <1>2, <1>6, <2>1, <2>3, <3>1 DEF Iska, Kapi!Oku1, Kapi!Calis
  <2>. QED BY <2>2, <2>3
<1>7. CASE Getir
  <2>1. Eksik = {}
    BY <1>1, <1>7, EksikLemma DEF Getir, Hazir
  <2>2. (TipDogru => KapiGetirmesi \in Kapi!Getirmeler)'
    BY KapiGetirmeTip, PTL
  <2>. QED BY <1>1, <1>2, <1>7, <2>1, <2>2 DEF Getir, Hazir, Kapi!Getir, Kapi!Calis
<1>8. CASE UNCHANGED vars
  BY <1>8 DEF vars, Kapi!vars, KapiGetirmesi, Eksik, Data0Ready, Data1Ready, DataAddr0, DataAddr1,
              Tag0, Tag1, TagCift, TagTek
<1>. QED BY <1>4, <1>5, <1>6, <1>7, <1>8 DEF Next, Saat

\* A reset of the cache is one of the interface.
LEMMA KapiSifirla == ASSUME IInv', Sifirla PROVE Kapi!Sifirla
<1>1. (TipDogru /\ valid = [s \in BSatirlar |-> FALSE] /\ ps = BasPs => KapiGetirmesi = Kapi!Ilk)'
  BY KapiIlk, PTL
<1>2. valid' = [s \in BSatirlar |-> FALSE] /\ ps' = BasPs
  BY DEF Sifirla
<1>3. KapiGetirmesi' = Kapi!Ilk
  BY <1>1, <1>2 DEF IInv, Kapi!Ilk, BasPs
<1>. QED BY <1>3 DEF Sifirla, Kapi!Sifirla

\* The cache implements its interface to the memory, for every even number of rows and
\* every number of tags: what BellekSistemi takes a fetch to miss is what its rows miss.
THEOREM KapiTeoremi == Spec => KapiSpec
<1>1. IInv /\ IInv' /\ [Next]_vars => [Kapi!Next]_(Kapi!vars)
  BY KapiAdim, KapiSifirla DEF Kapi!Next
<1>. QED
  BY <1>1, KapiInit, KapiAdim, IInvTeoremi, PTL DEF Spec, Kapi!Spec, KapiSpec

=============================================================================
