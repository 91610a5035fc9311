------------------------------ MODULE MCHogFeatures ------------------------------
(***************************************************************************)
(* Two images of 24 rows and columns, 6 rows and columns of cells of which *)
(* 4 are inside, and all 18 orientations.  In the first all gradients have *)
(* the same orientation, so that every pixel adds to the words the one     *)
(* before it added to; in the second they follow from the pixels.          *)
(***************************************************************************)
EXTENDS HogFeatures

Key(g) == g[1] + 2 * g[2] + 3 * g[3] + 5 * g[4]
SecondImage(g) == \E k \in 1 .. 4 : g[k] >= W * W

MCBin(g) == IF SecondImage(g) THEN Key(g) % (2 * H) ELSE 4
MCMod(g) == IF \A k \in 1 .. 4 : g[k] = Nothing THEN 0 ELSE 1 + (Key(g) % 5)
MCHamming == [a \in 0 .. GROUP - 1 |-> a]
=============================================================================
