--------------------------- MODULE CustomersPhase ---------------------------
(* loadCustomers: eight tables anchored on customer_id.                    *)
EXTENDS ResumablePhase

\* The tables whose rows every customer has, and the ones only some have.
EveryCustomer == <<"customers", "customer_addresses", "customer_lifecycle_events">>
SomeCustomers == <<"customer_emails", "communication_preferences", "consent_events",
                   "loyalty_memberships", "saved_payment_methods">>

\* A bug to catch: the children first, as the cleanup goes.
CustomerFlushOrderChildrenFirst == SomeCustomers \o EveryCustomer

\* The order of the bulk copies of a flush.
CustomerFlushOrder == EveryCustomer \o SomeCustomers

CustomerTables == {CustomerFlushOrder[k] : k \in 1..Len(CustomerFlushOrder)}

\* A bug to catch: a cleanup that walks the list forwards.
CustomerDeletionsForwards ==
    [k \in 1..Len(CustomerFlushOrder) |->
        [table |-> CustomerFlushOrder[k], above |-> Batched]]

\* A bug to catch: a cleanup whose loop stops before the first table.
CustomerDeletionsButFirst ==
    LET n == Len(CustomerFlushOrder) IN
    [k \in 1..(n - 1) |-> [table |-> CustomerFlushOrder[n + 1 - k], above |-> Batched]]

\* cleanupAbove walks the phase's table list backwards.
CustomerDeletions ==
    LET n == Len(CustomerFlushOrder) IN
    [k \in 1..n |-> [table |-> CustomerFlushOrder[n + 1 - k], above |-> Batched]]

CustomerReferences == (CustomerTables \ {"customers"}) \X {"customers"}

\* Only a customer with an e-mail address has preferences, only an opt-in has
\* consent events; loyalty and saved cards depend on the sign-up year.
CustomerDatasets ==
    {d \in LayoutsWithSparse({SomeCustomers[k] : k \in 1..Len(SomeCustomers)}) :
        /\ d["communication_preferences"] = d["customer_emails"]
        /\ d["consent_events"] \subseteq d["communication_preferences"]}

\* Sales, payments, trade-ins and web accounts refer to customers.
CustomersExposed == {"customers", "customer_addresses", "saved_payment_methods"}
=============================================================================
