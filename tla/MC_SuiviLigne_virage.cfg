\* The constants of the program.
CONSTANTS
    PWM_MAX = 3125
    DEADZONE = 1950
    TRIM_DROIT = 118
    NbCapteurs = 7
    VITESSE_BASE = 300
    Elan = 200
    Kp0 = 40
    Kp_enerve = 120
    KiNum = 1
    KiDen = 5
    Kd = 1200
    IntegraleMax = 500
    Vecteurs <- VecteursLigne
SPECIFICATION Spec
INVARIANT VirageVersLaLigne
