----------------------------- MODULE MCDelivery -----------------------------
(* Constants for model-checking Delivery. *)
EXTENDS Delivery, TLC

CONSTANTS r1, r2, c1, c2

Runs    == {r1, r2}
Clients == {c1, c2}

\* c1 follows everything that comes, or one run from its start; c2 has that
\* run replayed and then follows everything.
Wishes == (c1 :> {<<Nobody, Global>>, <<r1, r1>>}) @@ (c2 :> {<<r1, Global>>})
Lengths   == (r1 :> 3) @@ (r2 :> 2)
OneRun    == {r1}
OneLine   == (r1 :> {<<r1, 2>>}) @@ (r2 :> {})
OneClient == {c1}
=============================================================================
