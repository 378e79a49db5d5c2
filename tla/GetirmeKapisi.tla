--------------------------- MODULE GetirmeKapisi ---------------------------
(***************************************************************************)
(* What the instruction cache does at the memory port, for a core that     *)
(* holds the fetch address.  Of what the cache holds only the words are    *)
(* left that the fetch still misses: the one at READMEM0, the one at       *)
(* READMEM1 (the row after it, in an unaligned fetch), or both.  Every     *)
(* answer takes one away, and a fetch that misses none is served.          *)
(***************************************************************************)
CONSTANTS
    Adresler,
    IlkAdres    \* of the first fetch; stands for the address of a word not needed as well

VARIABLES
    state,      \* FSM of the cache
    getirme     \* the fetch and what it misses

vars == <<state, getirme>>

GetirmeTipi == [adr0 : Adresler, adr1 : Adresler, eksik : SUBSET {0, 1}]

Getirmeler ==
    {g \in GetirmeTipi : /\ 0 \notin g.eksik => g.adr0 = IlkAdres
                         /\ 1 \notin g.eksik => g.adr1 = IlkAdres
                         /\ g.eksik = {0, 1} => g.adr0 # g.adr1}

Ilk == [adr0 |-> IlkAdres, adr1 |-> IlkAdres, eksik |-> {0}]

Init == state = "READMEM0" /\ getirme = Ilk

Oku0 ==
    /\ state = "READCACHE" /\ 0 \in getirme.eksik
    /\ state' = "READMEM0"
    /\ UNCHANGED getirme

Oku1 ==
    /\ state = "READCACHE" /\ getirme.eksik = {1}
    /\ state' = "READMEM1"
    /\ UNCHANGED getirme

Doldur0 ==
    /\ state = "READMEM0" /\ 0 \in getirme.eksik
    /\ state' = "READCACHE"
    /\ getirme' = [getirme EXCEPT !.eksik = @ \ {0}, !.adr0 = IlkAdres]

Doldur1 ==
    /\ state = "READMEM1" /\ getirme.eksik = {1}
    /\ state' = "READCACHE"
    /\ getirme' = [getirme EXCEPT !.eksik = {}, !.adr1 = IlkAdres]

\* Only a fetch that misses nothing is let go.
Getir ==
    /\ state = "READCACHE" /\ getirme.eksik = {}
    /\ getirme' \in Getirmeler
    /\ UNCHANGED state

Sifirla == state' = "READMEM0" /\ getirme' = Ilk

\* Every step but a reset.
Calis == Oku0 \/ Oku1 \/ Doldur0 \/ Doldur1 \/ Getir

Next == Calis \/ Sifirla

Spec == Init /\ [][Next]_vars

=============================================================================
