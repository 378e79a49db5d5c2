------------------------------- MODULE Bellek -------------------------------
(***************************************************************************)
(* What the data side of the memory system promises the core: a plain      *)
(* memory with one request at a time.  A store is in the memory from the   *)
(* moment the core presents it (the core is in order and waits for it), a  *)
(* load retires with the contents at its address.  A reset promises        *)
(* nothing: dirty lines are dropped and the program loader may rewrite the *)
(* RAM meanwhile.                                                          *)
(***************************************************************************)
EXTENDS BellekTanimlari

VARIABLES
    icerik,   \* the memory the program sees
    istek,    \* the request being served
    okunan    \* value the last load retired with

vars == <<icerik, istek, okunan>>

Init ==
    /\ icerik \in [Adres -> Kelime]
    /\ istek = Bos
    /\ okunan \in Kelime

Uygula(i) ==
    [a \in Adres |-> IF SaklamaMi(i) /\ i.adr = a THEN Birlestir(icerik[a], i) ELSE icerik[a]]

\* The request ends, and with it the next one is presented.
Tamamla ==
    /\ okunan' = IF YuklemeMi(istek) THEN icerik[istek.adr] ELSE okunan
    /\ istek' \in Istekler
    /\ icerik' = Uygula(istek')

Sifirla ==
    /\ icerik' \in [Adres -> Kelime]
    /\ istek' = Bos
    /\ UNCHANGED okunan

Next == Tamamla \/ Sifirla

Spec == Init /\ [][Next]_vars

=============================================================================
