----------------------------- MODULE MCHandlers -----------------------------
(* Instances of Handlers for TLC: three clients and two resources, of which *)
(* each can be replaced while the pool has an object left.                  *)
EXTENDS Handlers, TLC

CONSTANTS h1, h2, h3

TypesWanted == h1 :> "trigger" @@ h2 :> "numeric" @@ h3 :> "string"
ObjectSymmetry == Permutations(Objects)
=============================================================================
