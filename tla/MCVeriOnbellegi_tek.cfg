\* One row, more tags than ways, two lanes: every miss, merge and write-back.
CONSTANTS
    Taglar = {1, 2, 3}
    SatirSayisi = 1
    Serit = {0, 1}
    Bayt = {0, 1}
    Maskeler = {{0}, {0, 1}}
    BaslangicSatirlari <- MCSatirlar
    BaslangicBellek <- MCBellek
SPECIFICATION Spec
INVARIANTS
    IInv
    TemizTutarli
PROPERTIES
    KirliKaybolmaz
    SoyutSpec
VIEW Gorus
