------------------------------ MODULE MCWeather ------------------------------
(* Three weather commands for the same city: two may fetch at once, and the *)
(* third is told what the slower of them has stored.                       *)
EXTENDS Weather, TLC

CONSTANTS r1, r2, r3, moscow

ThreeRequests == {r1, r2, r3}
ThreeCities == (r1 :> moscow @@ r2 :> moscow @@ r3 :> moscow)
AllCached == (r1 :> TRUE @@ r2 :> TRUE @@ r3 :> TRUE)

OneRequest == {r1}
OneCity == (r1 :> moscow)
Cached == (r1 :> TRUE)
=============================================================================
