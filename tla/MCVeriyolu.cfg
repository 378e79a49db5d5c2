\* Two programs: the UART and the PWM controller; the SPI controller with them.
CONSTANTS
    Programlar <- MCProgramlar
    ArdArdaErisim = FALSE
SPECIFICATION AdilSpec
INVARIANTS
    IInv
    TamIslenir
    YalnizErisim
    KomutBitmis
PROPERTIES
    ErisimBiter
