------------------------ MODULE MC_CapteursSolTemps ------------------------
(* The block at its real size: 8 channels, 64 cycles of wait, a different   *)
(* word on every channel, and a line coming and going under sensor 3.       *)
EXTENDS CapteursSolTemps

MotDe(s) == [j \in 0 .. DataBits - 1 |-> s[DataBits - j]]

MesuresReelles ==
    [c \in 0 .. 7 |->
        CASE c = 0 -> {MotDe(<<1,0,0,0,0,0,1,1,0,1,0,1>>)}
          [] c = 1 -> {MotDe(<<0,0,1,0,1,1,0,1,0,0,1,0>>)}
          [] c = 2 -> {MotDe(<<1,1,1,0,0,1,0,0,1,0,0,0>>)}
          [] c = 3 -> {MotDe(<<0,1,0,1,1,1,0,1,0,1,1,0>>),
                       MotDe(<<1,1,0,1,0,0,0,1,0,0,0,1>>)}
          [] c = 4 -> {MotDe(<<0,1,1,0,1,1,1,1,0,1,0,0>>)}
          [] c = 5 -> {MotDe(<<1,0,1,1,0,0,1,0,1,1,1,1>>)}
          [] c = 6 -> {MotDe(<<0,0,0,1,1,0,1,0,1,0,1,1>>)}
          [] c = 7 -> {MotDe(<<1,1,1,1,1,0,0,1,1,0,0,1>>)}]
============================================================================
