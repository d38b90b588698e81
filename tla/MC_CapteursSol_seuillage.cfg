\* The thresholds are taken while a register shifts.
CONSTANTS
    NbCanaux = 3
    Attente = 2
    Mesures <- MesuresPetites
SPECIFICATION MCSpec
INVARIANT SeuillageDesMesures
