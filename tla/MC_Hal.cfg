\* Rings of 2 usable slots, FIFOs of 2, calls of up to 2 bytes.
CONSTANTS
    BUF_LEN = 3
    ProfW = 2
    ProfR = 2
    SeuilW = 1
    SeuilR = 0
    K = 6
    CompteMax = 2
    DEFAULT_TIMEOUT = 2
    INT_MAX = 4
    Delais = {0, 2}
    N = 5
    Alarme = {a1, a2}
SPECIFICATION MCSpec
INVARIANTS
    TypeOK
    EmissionArmee
    ReceptionRearmee
    ATypeOK
    Echeance
PROPERTIES
    EmissionFidele
    ReceptionFidele
    Ponctualite
