----------------------------- MODULE ShopsPhase -----------------------------
(* loadShops: every shop with its address, one bulk insert per table.      *)
EXTENDS ResumablePhase

ShopTables == {"shops", "shop_addresses"}

ShopFlushOrder == <<"shops", "shop_addresses">>

ShopDeletions == <<[table |-> "shop_addresses", above |-> Batched],
                   [table |-> "shops", above |-> Batched]>>

ShopReferences == {<<"shop_addresses", "shops">>}

\* Each shop has an address.
ShopDatasets == LayoutsWithSparse({})

\* Staff, shifts, stock and sales refer to shops.
ShopsExposed == {"shops"}
=============================================================================
