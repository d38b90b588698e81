--------------------------- MODULE MC_SuiviLigne ---------------------------
EXTENDS SuiviLigne

\* Bound: a line of one sensor's width at the ends of the bar and under the
\* middle ones, of two sensors' width between them, or no line: the errors 0,
\* those up to 3 where the gains and the speed change, and the largest one.
VecteursLigne ==
    {{}} \cup {{k} : k \in {0, 2, 3, 4, 6}}
         \cup {{k, k + 1} : k \in {1, 2, 3, 4}}

\* The gains of the program meet the conditions of the theorems.
ASSUME GainsDominent ==
    /\ EnerveDomine
    /\ Kp0 >= 1 /\ Kp_enerve >= 1
    /\ FreinDomine
    /\ DEADZONE < PWM_MAX
    /\ TRIM_DROIT >= 100
    /\ MargeVitesse
============================================================================
