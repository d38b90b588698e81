\* Rings of 2 usable slots, bytes all alike.
CONSTANTS
    BUF_LEN = 3
    ProfW = 1
    ProfR = 2
    SeuilW = 0
    SeuilR = 0
    K = 1
    CompteMax = 2
    DEFAULT_TIMEOUT = 2
    INT_MAX = 4
    Delais = {0}
    N = 2
    Alarme = {a1}
SPECIFICATION MCSpec
PROPERTIES
    RetourEcriture
    RetourLecture
    Livraison
