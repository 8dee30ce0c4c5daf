------------------------------- MODULE MCStaff -------------------------------
(* A small company: four shops and a short-lived one, the named cast, one   *)
(* hire at head office, two senior leaders.  A year is four days.           *)
EXTENDS Wages
MCCountries == <<"US", "GB">>
MCShares == <<55, 45>>
MCAlphabetical == <<2, 1>>
MCMarketEntry == [c \in {"US", "GB"} |-> IF c = "US" THEN 0 ELSE 6]
MCClosureYears == <<5, 8, 9>>
MCClosureWeights == <<1, 2, 4>>

Cast(from, to, why, g) == [started |-> from, ended |-> to, reason |-> why, grade |-> g]
MCFounders == <<Cast(1, 38, "liquidation_2016", 10), Cast(1, 9, "retirement", 10)>>
MCExecs == <<Cast(6, 12, "resignation", 10), Cast(13, 18, "resignation", 10), Cast(8, 38, "liquidation_2016", 4)>>
MCHeadCurve == [y \in 0..9 |-> IF y < 9 THEN 1 ELSE 2]
MCLeaders == <<[count |-> 1, grade |-> 8], [count |-> 1, grade |-> 10]>>
MCShiftTimes == {[start |-> 1, length |-> 5], [start |-> 3, length |-> 2]}
MCPayPeriod == <<2, 3>>
==============================================================================
