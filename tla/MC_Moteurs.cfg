\* The constants of the programs, except the step of the bench, 10 there.
CONSTANTS
    PWM_MAX = 3125
    DEADZONE = 1950
    TRIM_DROIT = 118
    NbCapteurs = 7
    VITESSE_BASE = 300
    Elan = 200
    Kp0 = 40
    Kp_enerve = 120
    KiNum = 1
    KiDen = 5
    Kd = 1200
    IntegraleMax = 500
    Vecteurs <- VecteursLigne
    Depart = 1600
    step = 125
    Restes <- Laisses
    Base_TP = 250
    TrimNum = 1173
    TrimDen = 1000
    Kp_TP = 150
    Kd_TP = 1000
    KiNum_TP = 1
    KiDen_TP = 20
    Integrale_TP = 500
    Vecteurs_TP <- LigneTP
    Restes_TP <- Laisses
SPECIFICATION MCSpec
INVARIANTS
    TypeOK
    VirageEnerve
    Frein
    TraductionFidele
    Mixage
    AffichageVrai
    TPTypeOK
    VirageTP
    FreinTP
    TraductionTP
PROPERTIES
    RechercheDuBonCote
    EquilibreGarde
