------------------------------- MODULE MCBoot -------------------------------
(* The image from the cable, one that works and knows a newer file format, *)
(* and one that crashes in its last step before it could confirm itself.   *)
EXTENDS Boot

CONSTANTS factory, newer, broken, v1, v2, bad

MCImages    == {factory, newer, broken}
MCCrashesAt == [i \in MCImages |-> IF i = broken THEN "status" ELSE "never"]
MCDocs      == {v1, v2, bad}
MCFailsIn   == [i \in MCImages |-> [d \in MCDocs |->
                  CASE d = bad -> "mqtt"
                    [] d = v2 /\ i = factory -> "top"
                    [] OTHER -> "none"]]
MCWithPassword == {v1, v2}
MCFirstFiles   == {v1, bad, NoFile}
=============================================================================
