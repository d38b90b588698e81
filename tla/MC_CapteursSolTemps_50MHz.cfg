\* The clock the block was written for: 25 ns; the clock it is given: 20 ns.
CONSTANTS
    NbCanaux = 8
    Attente = 64
    Mesures <- MesuresReelles
    Periode = 20
    TempsMax = 1700
SPECIFICATION TSpec
INVARIANT
    ConversionFinie
