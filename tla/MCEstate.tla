------------------------------ MODULE MCEstate -------------------------------
(* Small instances of the estate, on their own. *)
EXTENDS Estate
MCCountries == <<"US", "GB", "FR">>
MCShares == <<55, 30, 15>>
MCAlphabetical == <<3, 2, 1>>
MCMarketEntry == [c \in {"US", "GB", "FR"} |-> CASE c = "US" -> 0 [] c = "GB" -> 7 [] c = "FR" -> 8]
MCClosureYears == <<5, 8, 9>>
MCClosureWeights == <<1, 2, 4>>
==============================================================================
