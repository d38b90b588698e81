\* A 2 kHz clock scaled to the scan of 3 channels: 61 cycles with Attente = 0.
CONSTANTS
    NbCanaux = 3
    Attente = 0
    DemiPeriode = 64
    Ecritures = {0, 1, 110}
    Mesures <- MesuresFixes
SPECIFICATION MCSpec
INVARIANTS
    CaptureJamaisPerdue
    ReposAvantCapture
PROPERTY ScansRecurrents
