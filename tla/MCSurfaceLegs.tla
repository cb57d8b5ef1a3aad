----------------------------- MODULE MCSurfaceLegs -----------------------------
(* An instance of SurfaceLegs for TLC: a cart that keeps every rule.        *)
EXTENDS SurfaceLegs

Two == {0, 1}
SizesOne == {1}
AllRules == {"inPhase", "release", "drawFirst", "budget", "lockOnce", "gfxFree", "drawEach",
             "stopEarly"}

=============================================================================
