---------------------------- MODULE MCEntityRecord ----------------------------
(* Small instances of EntityRecord for TLC, by name: the region, its alias   *)
(* and the code that is derived from either.                                 *)
EXTENDS EntityRecord

CONSTANTS w1, w2, g1, g2, region, subdivision, regionCode

MCWorkers    == {w1, w2}
MCGeometries == {g1, g2}
MCFields     == {region, subdivision, regionCode}
MCCodes      == {regionCode}
MCGroups     == {{region, subdivision}, {regionCode}}
MCKeepers    == [f \in MCFields |->
                   IF f = region THEN {subdivision}
                   ELSE IF f = subdivision THEN {region}
                   ELSE {region, subdivision}]

=============================================================================
