\* Words of four bits, bytes of two, two data registers.
CONSTANTS
    KomutBit = 2
    AdresBit = 2
    BaytBit = 2
    DrSayisi = 2
    SayacGen = 16
    KelimeGen = 4
    PrescaleGen = 4
    BoyGen = 5
    DummyGen = 2
    Komutlar <- MCKomutlar
SPECIFICATION AdilSpec
INVARIANTS
    IInv
    ErisimTam
    KomutGonderildi
    OkunanDogru
PROPERTIES
    ErisimBiter
