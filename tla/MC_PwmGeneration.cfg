\* A period of 5 + 1 cycles.
CONSTANTS
    total_dur = 5
    Commandes <- CommandesLimites
SPECIFICATION FairSpec
INVARIANTS
    TypeOK
    DureeEncadree
PROPERTY Impulsions
