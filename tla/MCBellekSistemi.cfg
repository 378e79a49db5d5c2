\* Two words of RAM, a delay line of two stages, start-up counters that outlast a fill.
CONSTANTS
    RAM_DELAY = 2
    SayacSon = 7
    BoyRam = 2
    Deger = {0, 1}
SPECIFICATION AdilSpec
INVARIANTS
    IInv
    TekErisim
    OkunanDogru
    SifirlamadaBos
PROPERTIES
    PortSabit
    YazmaIslendi
    KapilarUygun
    ErisimBiter
