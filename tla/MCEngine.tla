------------------------------ MODULE MCEngine ------------------------------
EXTENDS EngineProperties

CONSTANTS g, h, j

HomeOf == <<g, g, h, j>>

(* Two of the three things that happen, in small accounts; less in a large *)
(* one, where the cap leaves a folder to the poller; accounts that come    *)
(* and go beside each other.                                               *)
Pairs == kSubset(2, {"edit", "change", "mishap"})
Plenty == [users : {{h}, {j}}, events : Pairs]
             \cup [users : {{g}}, events : {{"edit"}, {"change", "mishap"}}]
             \cup [users : {{h, j}}, events : {{"edit"}}]
=============================================================================
