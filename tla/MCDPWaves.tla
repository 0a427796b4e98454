----------------------------- MODULE MCDPWaves -----------------------------
(***************************************************************************)
(* Two engines; requests that end within a synchronisation interval and    *)
(* requests that last into the next one.                                   *)
(***************************************************************************)
EXTENDS DPWaves

CONSTANTS r1, r2, c1, c2

MCClient == {c1, c2}
MCRequest == {r1, r2}
MCSteps == [r \in Request |-> IF r = r1 THEN 1 ELSE 2]
MCScenarios ==
    {[clients |-> {c1}, may |-> {"publish"}],
     [clients |-> {c1, c2}, may |-> {}],
     [clients |-> {c1}, may |-> {"abort"}],
     [clients |-> {c1}, may |-> {"lag"}]}
=============================================================================
