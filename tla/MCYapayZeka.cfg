CONSTANTS
    KAYIT = 16
    Deger = {0}
    DIGER = DIGER
SPECIFICATION AdilSpec
PROPERTIES
    KosuBiter
