\* Two rows of words without data, from RAMs full of valid, dirty garbage: the reset
\* loop, requests moving between rows, and progress under fairness.
CONSTANTS
    Taglar = {1, 2, 3}
    SatirSayisi = 2
    Serit = {0, 1}
    Bayt = {0}
    Maskeler = {{0}, {0, 1}}
    BaslangicSatirlari <- MCSatirlar
    BaslangicBellek <- MCBellek
SPECIFICATION AdilSpec
INVARIANTS
    TekIsabet
PROPERTIES
    IstekBiter
    KapiSpec
