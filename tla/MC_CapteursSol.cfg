CONSTANTS
    NbCanaux = 3
    Attente = 2
    Mesures <- MesuresPetites
SPECIFICATION MCSpec
INVARIANTS
    TypeOK
    Alignement
    VecteurPublie
PROPERTIES
    Acquiert
    BalayageAboutit
CHECK_DEADLOCK TRUE
