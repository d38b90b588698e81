-------------------------- MODULE MC_PwmGeneration --------------------------
EXTENDS PwmGeneration

\* Stopped, and both directions, at the limits of the period.
CommandesLimites ==
    {Zero} \cup {[go |-> 1, arriere |-> 0, vitesse |-> v] :
                    v \in {0, total_dur - 2}}
           \cup {[go |-> 1, arriere |-> 1, vitesse |-> v] :
                    v \in {2, total_dur - 1}}
============================================================================
