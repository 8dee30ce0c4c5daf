------------------------------ MODULE MCMembers ------------------------------
(* Small instances of the customer estate: 1 is DE, 2 is US. *)
EXTENDS Members
MCAllocated == [c \in Countries |-> IF c = 2 THEN 3 ELSE 1]
MCRegime == [c \in Countries |-> IF c = 2 THEN "ccpa" ELSE "gdpr"]
MCEarliestSignup == [c \in Countries |-> IF c = 2 THEN 5 ELSE 12]
MCEras == <<<<0, 1>>, <<2, 4>>>>
MCStampYears == <<1, 1>>
MCCardYears == <<2, 3>>
==============================================================================
