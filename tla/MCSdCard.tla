------------------------------ MODULE MCSdCard ------------------------------
(* The instance of SdCard that TLC checks: a slow and a fast way to test.   *)
EXTENDS SdCard

MCModes == {[w |-> 1, hs |-> FALSE, auto |-> FALSE],
            [w |-> 4, hs |-> TRUE, auto |-> TRUE]}
=============================================================================
