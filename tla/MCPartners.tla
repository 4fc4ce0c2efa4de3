------------------------------ MODULE MCPartners ------------------------------
(* Three orders of two customers, who may be the same person, for themselves or *)
(* for a company.                                                              *)
EXTENDS Partners, TLC

CONSTANTS o1, o2, o3

At(name, street, country, company) ==
    [name |-> name, street |-> street, country |-> country, company |-> company]

Says(external, email, home, billing, shipping, same) ==
    [external |-> external, name |-> IF external = None THEN None ELSE "ann", email |-> email,
     home |-> home, billing |-> billing, shipping |-> shipping, same |-> same]

Home == At("ann", "s1", "FR", None)

\* An order for herself, one for a company and one for another; one of the other
\* customer, who is the same to a search, one of hers without an e-mail, with the invoice
\* sent to somebody else without a country and the goods to a company; one without a
\* customer; one of a customer without an address, whose invoice says no more than the
\* name of a company.
Alone == Says("c1", "e", NoAddress, Home, NoAddress, TRUE)
ForAcme == Says("c1", "e", NoAddress, At("ann", "s1", "FR", "acme"), NoAddress, TRUE)
ForZeta == Says("c1", "e", Home, At(None, "s2", None, "zeta"), NoAddress, FALSE)
Other == Says("c2", "e", NoAddress, Home, NoAddress, TRUE)
NoEmail == Says("c2", None, NoAddress, At("bob", "s2", None, "acme"), At("zeta", "s1", "FR", "zeta"), FALSE)
NoCustomer == Says(None, None, NoAddress, NoAddress, NoAddress, TRUE)
Nowhere == Says("c1", None, NoAddress, At("acme", None, None, "acme"), NoAddress, FALSE)

Cases == {Alone, ForAcme, ForZeta, Other, NoEmail, NoCustomer, Nowhere}

Set(skip, way) ==
    [skip |-> skip, manual |-> way = "manual", search |-> IF way = "email" THEN way ELSE "all",
     default |-> IF way = "manual" \/ skip = (way = "all") THEN 1 ELSE 0]

Settings == {Set(skip, way) : skip \in BOOLEAN, way \in {"all", "email"}} \cup {Set(TRUE, "manual")}

\* A bound: when users map the customers, as they may choose any contact, fewer cases.
\* An order without an address is created with those that can give it one.
MCInit ==
    /\ PartnersInit
    /\ setting.manual => \A o \in Order : data[o] \in {Alone, NoEmail, NoCustomer}
    /\ (\E o \in Order : data[o] = Nowhere) =>
          \A o \in Order : data[o] \in {Nowhere, IF setting.skip THEN NoEmail ELSE ForAcme}
MCSpec == MCInit /\ [][PartnersNext]_partnersVars

Symmetry == Permutations(Order)
=============================================================================
