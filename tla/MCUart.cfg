CONSTANTS
    BIT = 2
    TX_DERINLIK = 2
    RX_DERINLIK = 3
    BAUD = 4
    Baytlar <- MCBaytlar
    SINIR = 2
    YOK = YOK
SPECIFICATION AdilSpec
INVARIANTS
    IInv
PROPERTIES
    KuyrukUygular
    CagriBiter
