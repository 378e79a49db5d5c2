\* A 32-bit fetch across the end of the last row.
CONSTANTS
    BTagSayisi = 2
    BSatirSayisi = 4
    Yarim <- MCYarim
    BaslangicBanka <- MCBanka
    BaslangicVeri <- MCVeri
    Programlar <- MCProgramlar
SPECIFICATION Spec
INVARIANT
    HizasizOkunur
