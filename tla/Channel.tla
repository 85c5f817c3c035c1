------------------------------ MODULE Channel ------------------------------
(***************************************************************************)
(* What the slave-to-master queue of the MT7697 promises to the drivers    *)
(* above it: messages arrive whole, once, and in the order they were sent, *)
(* until the channel breaks; from then on anything may arrive, and what    *)
(* has arrived stays as it is.                                             *)
(***************************************************************************)
EXTENDS Naturals, Sequences

CONSTANT Message
VARIABLES sent, got, broken

Init == sent = <<>> /\ got = <<>> /\ broken = FALSE

Send == /\ \E m \in Message : sent' = Append(sent, m)
        /\ UNCHANGED <<got, broken>>

Receive == /\ ~broken
           /\ Len(got) < Len(sent)
           /\ got' = Append(got, sent[Len(got) + 1])
           /\ UNCHANGED <<sent, broken>>

Break == /\ broken' = TRUE
         /\ UNCHANGED <<sent, got>>

Garble == /\ broken
          /\ Len(got') = Len(got) + 1
          /\ \A i \in 1 .. Len(got) : got'[i] = got[i]
          /\ UNCHANGED <<sent, broken>>

Next == Send \/ Receive \/ Break \/ Garble

Spec == Init /\ [][Next]_<<sent, got, broken>>

=============================================================================
