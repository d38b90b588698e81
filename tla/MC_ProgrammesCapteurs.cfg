CONSTANTS
    NbCanaux = 3
    Attente = 0
    DemiPeriode = 64
    Niveau = 110
    Ecritures = {0, 1, 110}
    Mesures <- MesuresFixes
SPECIFICATION MCSpec
INVARIANTS
    PTypeOK
    ModeDemande
PROPERTIES
    OctetsEntiers
    SeuillageFidele
