\* Software that accesses the SPI controller in consecutive instructions.
CONSTANTS
    Programlar <- MCYalnizSpi
    ArdArdaErisim = TRUE
SPECIFICATION Spec
INVARIANT
    TamIslenir
