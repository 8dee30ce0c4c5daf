------------------------------ MODULE MCWebLoad ------------------------------
(* A small web load: three shops, six sales, two reviewers, three days.    *)
EXTENDS WebLoad

SixShopOf == <<1, 2, 3, 1, 2, 3>>

\* Customer 0 is nobody; sale 2 is a line of a refund.
SixCustomerOf == <<1, 1, 1, 1, 2, 0>>

ThreeHolders == <<2, 1, 3>>

ThreeThreads == <<<<2>>, <<>>, <<1, 1>>, <<>>, <<>>, <<>>>>

ThreeBallots == <<<<2>>, <<2>>, <<1>>, <<>>, <<>>, <<>>>>

\* The last day's visitor is the holder of the last account.
ThreeDays == <<<<0, 0>>, <<0>>, <<3>>>>
==============================================================================
