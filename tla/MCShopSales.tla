----------------------------- MODULE MCShopSales -----------------------------
(* Small instances of a shop's receipts: a game, a console, an accessory. *)
EXTENDS ShopSales

MCPrice == [u \in {"game", "console", "pad"} |->
    CASE u = "game" -> 2 [] u = "console" -> 6 [] u = "pad" -> 1]

\* A game, two copies of it, a console with a game attached, an accessory.
MCBaskets == {<<"game">>, <<"game", "game">>, <<"console", "game">>, <<"pad">>}

\* What credit is earned and spent on.
ConsoleDeals == {<<"game">>, <<"console", "game">>}

\* One small sale: enough for the dates and for the refunds.
OneGame == {<<"game">>}
==============================================================================
