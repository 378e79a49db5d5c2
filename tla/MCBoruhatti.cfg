CONSTANTS
    Yazmac = {0, 1, 2}
    Deger = {0, 1}
    Sifir = 0
    Belirsiz = Belirsiz
    PsSayisi = 6
    Anlik = {0, 1, 3}
    Buyruklar <- MCBuyruklar
    Program <- MCProgram
    Nop <- MCNop
    Hesap <- MCHesap
    Kosul <- MCKosul
    Hedef <- MCHedef
    Baglanti <- MCBaglanti
    YOK = YOK
    ACILIS = 1
SPECIFICATION AdilSpec
INVARIANTS
    IInv
    YazmacDogru
PROPERTIES
    MimariUygular
    Ilerler
