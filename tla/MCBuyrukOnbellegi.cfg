\* Four rows, two tags, two programs: every alignment, both tag banks, reloads.
CONSTANTS
    BTagSayisi = 2
    BSatirSayisi = 4
    Yarim <- MCYarim
    BaslangicBanka <- MCBanka
    BaslangicVeri <- MCVeri
    Programlar <- MCProgramlar
SPECIFICATION AdilSpec
INVARIANTS
    IInv
    TagSecimi
    DogruBuyruk
    DogruIlkYari
PROPERTIES
    KapiSpec
    GetirmeBiter
