CONSTANTS
    GENISLIK = 4
    DIGER = DIGER
SPECIFICATION AdilSpec
INVARIANTS
    SonucDogru
PROPERTIES
    BolmeBiter
