\* The clock the block was written for: 25 ns.
CONSTANTS
    NbCanaux = 8
    Attente = 64
    DemiPeriode = 12500
    Ecritures = {110}
    Mesures <- MesuresReelles
    Periode = 25
    TempsMax = 1700
SPECIFICATION RSpec
INVARIANTS
    ConversionFinie
    PublicationALHeure
