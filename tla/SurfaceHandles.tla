----------------------------- MODULE SurfaceHandles ----------------------------
(***************************************************************************)
(* Surfaces with a history variable: `kept` is a surface handle or a lock  *)
(* token the cart held on to after what it named was gone.                 *)
(***************************************************************************)
EXTENDS Surfaces

VARIABLE kept

\* The handles and tokens that go stale in this step.
GoneStale ==
    {<<"surface", i, gen[i]>> : i \in {j \in Slots : inUse[j] /\ ~inUse'[j]}}
    \cup {<<"token", i, lockGen[i]>> : i \in {j \in Slots : Locked(j) /\ lock'[j] = "none"}}

\* blyt_resolve_surface, blyt_resolve_lockview
Resolves(h) ==
    \/ h[1] = "surface" /\ inUse[h[2]] /\ gen[h[2]] = h[3]
    \/ h[1] = "token" /\ Locked(h[2]) /\ lockGen[h[2]] = h[3]

HandlesInit == Init /\ kept = {}

\* A generation that comes round names its old occupants again (after 65536
\* reuses of one slot in the code), so a handle is followed until then.
Wrapped(h) == IF h[1] = "surface" THEN gen'[h[2]] < gen[h[2]] ELSE lockGen'[h[2]] < lockGen[h[2]]

HandlesNext ==
    /\ Next
    /\ kept' \in {kept} \cup {{h} : h \in GoneStale}
    /\ \A h \in kept' : ~Wrapped(h)

HandlesSpec == HandlesInit /\ [][HandlesNext]_<<vars, kept>>

\* A handle to a destroyed or reaped surface, and the token of a released lock,
\* never name a later surface or lock in the same slot: "a stale handle to that
\* occupant does not alias this new surface" (blyt_surface_create_slot).
StaleNeverResolves == \A h \in kept : ~Resolves(h)

=============================================================================
