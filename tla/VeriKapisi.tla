----------------------------- MODULE VeriKapisi -----------------------------
(***************************************************************************)
(* What the data cache does at the memory port, for a core that holds its  *)
(* request.  Of what the cache holds only the accesses are left that the   *)
(* request still needs: none, a read of its word, or a write of the dirty  *)
(* victim first.  Every answer takes one away, and one with none left is   *)
(* served.                                                                 *)
(***************************************************************************)
CONSTANTS
    Adresler,
    Deger,      \* values of a word
    BosAdres,   \* stands in a request for the address of an access it does not need
    BosDeger

VARIABLES
    durum,      \* FSM of the cache
    adres,      \* iomem_addr_o
    veri,       \* iomem_wdata_o
    istek       \* the request and what it needs

vars == <<durum, adres, veri, istek>>

IstekTipi == [tur : {"yok", "isabet", "oku", "yazoku", "yaz"},
              adr : Adresler, kurban : Adresler, veri : Deger]

Sade(t) == [tur |-> t, adr |-> BosAdres, kurban |-> BosAdres, veri |-> BosDeger]

Okuma(a) == [Sade("oku") EXCEPT !.adr = a]

\* The victim is another word of the row.
Istekler ==
    {Sade("yok"), Sade("isabet")} \cup {Okuma(a) : a \in Adresler}
        \cup {i \in IstekTipi : i.tur \in {"yazoku", "yaz"} /\ i.adr # i.kurban}

Init == durum = "RESET" /\ adres \in Adresler /\ veri \in Deger /\ istek = Sade("yok")

\* The reset loop ends; until then the core presents nothing.
Basla ==
    /\ durum = "RESET" /\ istek = Sade("yok")
    /\ durum' = "BOY" /\ istek' \in Istekler
    /\ UNCHANGED <<adres, veri>>

\* Only a request that needs nothing is let go.
Birak ==
    /\ durum = "BOY" /\ istek.tur \in {"yok", "isabet"}
    /\ istek' \in Istekler
    /\ UNCHANGED <<durum, adres, veri>>

Oku ==
    /\ durum = "BOY" /\ istek.tur = "oku"
    /\ durum' = "BELLEK_OKU" /\ adres' = istek.adr
    /\ UNCHANGED <<veri, istek>>

GeriYaz ==
    /\ durum = "BOY" /\ istek.tur \in {"yazoku", "yaz"}
    /\ durum' = "BELLEK_YAZ" /\ adres' = istek.kurban /\ veri' = istek.veri
    /\ UNCHANGED istek

Okundu ==
    /\ durum = "BELLEK_OKU" /\ istek = Okuma(adres)
    /\ durum' = "BOY" /\ istek' = Sade("isabet")
    /\ UNCHANGED <<adres, veri>>

\* The port goes on to the word of the request, without a cycle in between.
YazildiOku ==
    /\ durum = "BELLEK_YAZ" /\ istek.tur = "yazoku" /\ <<adres, veri>> = <<istek.kurban, istek.veri>>
    /\ durum' = "BELLEK_OKU" /\ istek' = Okuma(istek.adr) /\ adres' = istek.adr
    /\ UNCHANGED veri

Yazildi ==
    /\ durum = "BELLEK_YAZ" /\ istek.tur = "yaz" /\ <<adres, veri>> = <<istek.kurban, istek.veri>>
    /\ durum' = "BOY" /\ istek' = Sade("isabet")
    /\ UNCHANGED <<adres, veri>>

Sifirla == durum' = "RESET" /\ istek' = Sade("yok") /\ UNCHANGED <<adres, veri>>

\* Every step but a reset.
Calis == Basla \/ Birak \/ Oku \/ GeriYaz \/ Okundu \/ YazildiOku \/ Yazildi

Next == Calis \/ Sifirla

Spec == Init /\ [][Next]_vars

=============================================================================
