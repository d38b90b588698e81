CONSTANTS
    total_dur = 5
    Commandes <- CommandesLimites
SPECIFICATION Spec
INVARIANT DureeEtatHaut
