------------------------------- MODULE Partners -------------------------------
(***************************************************************************)
(* The contacts that an order gets: the customer, the address of its       *)
(* invoice and that of its delivery, which IntegrationResPartnerFactory    *)
(* looks for among the contacts of Odoo and creates when it finds none.    *)
(* The mapping of the external customer remembers the contact it had.      *)
(*                                                                         *)
(* Each order is created by a job of its own, in one REPEATABLE READ       *)
(* transaction: what it looks for it looks for in its snapshot.  When      *)
(* customers are mapped by hand, a job that finds no contact commits an    *)
(* open mapping with a new cursor and fails.                               *)
(*                                                                         *)
(* Abstracted: a name, an e-mail, a street is one value, and of the fields *)
(* of an address the street stands for those that are also compared when   *)
(* an order lacks them, the country for those that are not.  One company   *)
(* of Odoo, which copies no address to another contact; no VAT numbers,    *)
(* personal numbers, telephones, languages, price lists or tags.           *)
(***************************************************************************)
EXTENDS Naturals, Sequences, FiniteSets, FiniteSetsExt

CONSTANTS
    Order,    \* orders, each with the job that creates it
    External, \* customers of the store
    Data,     \* what an order may say of its customer and its addresses
    Setting,  \* what an integration may be set to
    MaxActs   \* bound of the model: acts of the users

ASSUME ActsAssumption == MaxActs \in Nat
ASSUME SettingAssumption ==
    Setting \subseteq [skip : BOOLEAN, manual : BOOLEAN, search : {"all", "email"}, default : 0..1]

VARIABLES
    setting,  \* of the integration: skip_individual_contacts, use_manual_customer_mapping,
              \* search_customer_fields_ids ("all", "email"), default_customer
    data,     \* what each order says
    contact,  \* the records of res.partner, in the order of their creation
    mapping,  \* integration.res.partner.mapping of each external customer
    job,      \* the job of each order
    failure,  \* what the failure of a job is about: the model and the key
    snap,     \* what its transaction has seen
    changed,  \* the rows that others have written since
    result,   \* the contacts of each order
    acts,     \* bound of the model
    apart,    \* history: contacts created at the same time, by orders that did not see each other's
    chosen    \* history: customers whose contact a user has chosen

orders == <<setting, data>>
tables == <<contact, mapping>>
partnersVars == <<orders, tables, job, failure, snap, changed, result, acts, apart, chosen>>

-----------------------------------------------------------------------------
(* Types *)

None == ""
Nobody == 0
Unmapped == 0 - 1   \* there is no external record of the customer
Open == 0           \* a mapping without a contact

Fields == [name : STRING, street : STRING, country : STRING, company : STRING]
NoAddress == [name |-> None, street |-> None, country |-> None, company |-> None]

NoSnapshot == [contact |-> <<>>, mapping |-> [e \in External |-> Unmapped]]
NoResult == [customer |-> Nobody, invoice |-> Nobody, delivery |-> Nobody]

Active == {"doing", "notified"}

ContactRow(i) == <<"contact", i>>
MappingRow(e) == <<"mapping", e>>

PartnersTypeOK ==
    /\ setting \in Setting
    /\ data \in [Order -> Data]
    /\ \A i \in DOMAIN contact :
          /\ contact[i].parent \in 0..(i - 1)
          /\ contact[i].is_company => contact[i].parent = Nobody
    /\ mapping \in [External -> Unmapped..Len(contact)]
    /\ job \in [Order -> {"waiting", "failed", "done"} \cup Active]
    /\ \A o \in Order : job[o] \notin Active => snap[o] = NoSnapshot
    /\ changed \in [Order -> SUBSET ({MappingRow(e) : e \in External} \cup {ContactRow(i) : i \in DOMAIN contact})]
    /\ \A o \in Order : (result[o] = NoResult) <=> job[o] # "done"
    /\ acts \in 0..MaxActs /\ apart \subseteq ((1..Len(contact)) \X (1..Len(contact)))
    /\ chosen \in SUBSET External

-----------------------------------------------------------------------------
(* What the order says *)

\* Order.parse_customer_data: an address that is missing is the default one of the
\* customer, and a name that is missing is that of the customer.
Given(d, a) ==
    LET address == IF a = NoAddress THEN d.home ELSE a
    IN  [name |-> IF address.name = None THEN d.name ELSE address.name,
         email |-> d.email, street |-> address.street,
         country |-> address.country, company |-> address.company]

Billing(d) == Given(d, d.billing)
Shipping(d) == IF d.same THEN Billing(d) ELSE Given(d, d.shipping)

\* _update_customer_data
Customer(d) ==
    LET b == Billing(d)
    IN  IF b.name = d.name THEN b
        ELSE [name |-> d.name, email |-> d.email, street |-> None,
              country |-> IF b.company = None THEN None ELSE b.country,
              company |-> b.company]

\* A customer has a name; what else an order lacks it lacks.
ASSUME DataAssumption ==
    /\ None \notin External
    /\ Data \subseteq [external : External \cup {None}, name : STRING, email : STRING,
                      home : Fields, billing : Fields, shipping : Fields, same : BOOLEAN]
    /\ \A d \in Data : d.external # None => d.name # None

-----------------------------------------------------------------------------
(* Searching and creating, in the contacts c that a transaction sees *)

Among(c, Test(_)) == {i \in DOMAIN c : c[i].active /\ Test(c[i])}

\* The contacts, and one of them.
Found(c, i) == [contact |-> c, id |-> i]

\* _write_address_fields_if_empty
Filled(f, p) ==
    LET r == f.contact[f.id]
    IN  IF r.street = None /\ r.email = None /\ r.country = None
        THEN Found([f.contact EXCEPT ![f.id] =
                       [@ EXCEPT !.street = p.street, !.email = p.email, !.country = p.country]], f.id)
        ELSE f

Record(p, name, is_company, parent, type) ==
    [name |-> name, email |-> IF is_company THEN None ELSE p.email,
     street |-> IF is_company THEN None ELSE p.street,
     country |-> IF is_company THEN None ELSE p.country,
     is_company |-> is_company, parent |-> parent, type |-> type,
     active |-> TRUE, known_as |-> {}]

Created(c, r) == Found(Append(c, r), Len(c) + 1)

\* _get_or_create_company_contact.  res.partner is sorted by name, the last one first.
Company(c, p) ==
    LET Same(r) == r.is_company /\ r.name = p.company
        LastOf(there) == IF there # {} THEN Found(c, Max(there))
                         ELSE Created(c, Record(p, p.company, TRUE, Nobody, "contact"))
    IN  IF p.company = None THEN Found(c, Nobody) ELSE Filled(LastOf(Among(c, Same)), p)

\* _is_mapping_compatible
Compatible(r, i, company) ==
    /\ r.active
    /\ r.is_company = setting.skip
    /\ company # Nobody =>
          IF setting.skip THEN i = company ELSE r.parent = company

\* _collect_partner_search_domain
SameCustomer(p, parent, r) ==
    /\ r.parent = parent /\ ~r.is_company /\ r.type = "contact"
    /\ setting.search = "email" => p.email # None /\ r.email = p.email
    /\ setting.search = "all" =>
          (p.name # None => r.name = p.name) /\ (p.email # None => r.email = p.email)

\* _search_or_create_partner: the oldest one
SearchOrCreate(c, p, parent) ==
    LET Same(r) == SameCustomer(p, parent, r)
        FirstOf(there) == IF there # {} THEN Filled(Found(c, Min(there)), p)
                          ELSE Created(c, Record(p, p.name, FALSE, parent, "contact"))
    IN  FirstOf(Among(c, Same))

\* get_or_create_partner
PartnerOf(company, mapped, p) ==
    IF mapped # Nobody /\ Compatible(company.contact[mapped], mapped, company.id)
    THEN Found(company.contact, mapped)
    ELSE IF setting.skip /\ p.company # None THEN company
    ELSE SearchOrCreate(company.contact, p, company.id)

Partner(c, mapped, p) == PartnerOf(Company(c, p), mapped, p)

\* Mutant: only the name and the e-mail are compared.
IgnoreStreet(r, p) == r.name # p.name \/ r.email # p.email

\* _has_address_changes: a country that the order lacks is not compared.
HasChanges(r, p) ==
    \/ r.name # p.name \/ r.email # p.email \/ r.street # p.street
    \/ p.country # None /\ r.country # p.country

\* Mutant: addresses of deliveries are not looked for.
OnlyInvoices(p, parent, r) ==
    /\ r.name = p.name /\ r.parent = parent /\ r.street = p.street /\ r.country = p.country
    /\ r.type \in {"other", "invoice"}

\* _collect_address_search_domain
SameAddress(p, parent, r) ==
    /\ r.name = p.name /\ r.parent = parent
    /\ p.email # None => r.email = p.email
    /\ r.street = p.street /\ r.country = p.country
    /\ r.type \in {"other", "invoice", "delivery"}

\* _get_or_create_address: the contact that the address is compared with, then the
\* address, of this type or of another.
AddressOrOwn(own, p, parent, type) ==
    LET Same(r) == SameAddress(p, parent, r)
        Typed(r) == r.type = type /\ Same(r)
        LastOf(typed, there) ==
            IF typed \cup there # {}
            THEN Found(own.contact, Max(IF typed # {} THEN typed ELSE there))
            ELSE Created(own.contact, Record(p, p.name, FALSE, parent, type))
    IN  IF HasChanges(own.contact[own.id], p)
        THEN LastOf(Among(own.contact, Typed), Among(own.contact, Same)) ELSE own

AddressUnder(company, customer, p, type) ==
    AddressOrOwn(
        IF setting.skip /\ p.company # None THEN Company(company.contact, p) ELSE Found(company.contact, customer),
        p, IF company.id = Nobody THEN customer ELSE company.id, type)

AddressOf(c, customer, p, type) ==
    AddressUnder(IF setting.manual THEN Found(c, Nobody) ELSE Company(c, p), customer, p, type)

-----------------------------------------------------------------------------
(* Transactions *)

Guest(o) == data[o].external = None
Ext(o) == data[o].external

\* from_external, in a snapshot
MappedTo(s, e) == IF e # None /\ s.mapping[e] > Open THEN s.mapping[e] ELSE Nobody

\* get_partner_and_addresses: the contacts of the transaction, and those of the order.
Shipped(customer, billing, shipping) ==
    [contact |-> shipping.contact, customer |-> customer, invoice |-> billing.id, delivery |-> shipping.id]

Billed(d, customer, billing) ==
    Shipped(customer, billing, AddressOf(billing.contact, customer, Shipping(d), "delivery"))

Addressed(d, customer) ==
    Billed(d, customer.id, AddressOf(customer.contact, customer.id, Billing(d), "invoice"))

KnownAs(e, customer) == Found([customer.contact EXCEPT ![customer.id].known_as = @ \cup {e}], customer.id)

Outcome(o) ==
    LET c == snap[o].contact
        mapped == MappedTo(snap[o], Ext(o))
        d == data[o]
    IN  IF Guest(o) THEN Shipped(setting.default, Found(c, setting.default), Found(c, setting.default))
        ELSE IF setting.manual THEN Addressed(d, Found(c, mapped))
        ELSE Addressed(d, KnownAs(Ext(o), Partner(c, mapped, Customer(d))))

\* validate_data
MissingCustomer(o) == Guest(o) /\ setting.default = Nobody
MissingMapping(o) == ~Guest(o) /\ setting.manual /\ MappedTo(snap[o], Ext(o)) = Nobody

\* The order writes the mapping of its customer.
Maps(o) == ~Guest(o) /\ ~setting.manual

\* Mutant: a mapping is not written again by each order.
OnlyContacts(o, c) ==
    {ContactRow(i) : i \in {j \in DOMAIN snap[o].contact : c[j] # snap[o].contact[j]}}

\* The rows of its snapshot that the transaction updates, c being its contacts.  create_mapping and
\* _create_or_update_mapping write the mapping even when nothing changes.
Written(o, c) ==
    {ContactRow(i) : i \in {j \in DOMAIN snap[o].contact : c[j] # snap[o].contact[j]}}
        \cup (IF Maps(o) THEN {MappingRow(Ext(o))} ELSE {})

\* The external record has been created since the snapshot.
Violates(o) == Maps(o) /\ snap[o].mapping[Ext(o)] = Unmapped /\ mapping[Ext(o)] # Unmapped

Inform(by, rows) ==
    changed' = [o \in Order |-> IF o \in by \/ job[o] \notin Active THEN {} ELSE changed[o] \cup rows]

\* requeue_integration_jobs
Requeued(e) ==
    [o \in Order |->
        IF job[o] = "failed" /\ failure[o] = [model |-> "res.partner.mapping", key |-> e]
        THEN "waiting" ELSE job[o]]

End(o, becomes) ==
    /\ job' = [job EXCEPT ![o] = becomes]
    /\ snap' = [snap EXCEPT ![o] = NoSnapshot]

Begin(o) ==
    /\ job[o] = "waiting"
    /\ job' = [job EXCEPT ![o] = "doing"]
    /\ snap' = [snap EXCEPT ![o] = [contact |-> contact, mapping |-> mapping]]
    /\ UNCHANGED <<orders, tables, failure, changed, result, acts, apart, chosen>>

\* The contacts of the transaction become those of the table: the records it has
\* created come after those that others have created since.
Moved(o, i) == IF i > Len(snap[o].contact) THEN i + Len(contact) - Len(snap[o].contact) ELSE i

Merge(o, c) ==
    LET seen == Len(snap[o].contact)
    IN  [i \in 1..(Len(contact) + Len(c) - seen) |->
           IF i > Len(contact)
           THEN LET r == c[i - Len(contact) + seen] IN [r EXCEPT !.parent = Moved(o, @)]
           ELSE IF i <= seen /\ c[i] # snap[o].contact[i] THEN c[i] ELSE contact[i]]

Store(o, out, written) ==
    /\ written \cap changed[o] = {}
    /\ contact' = Merge(o, out.contact)
    /\ mapping' = IF Maps(o) THEN [mapping EXCEPT ![Ext(o)] = Moved(o, out.customer)] ELSE mapping
    /\ result' = [result EXCEPT ![o] = [customer |-> Moved(o, out.customer),
                     invoice |-> Moved(o, out.invoice), delivery |-> Moved(o, out.delivery)]]
    /\ apart' = apart \cup ((Len(snap[o].contact) + 1)..Len(contact)) \X ((Len(contact) + 1)..Len(contact'))
    /\ Inform({o}, written)

Commit(o) ==
    /\ job[o] = "doing" /\ ~MissingCustomer(o) /\ ~MissingMapping(o) /\ ~Violates(o)
    /\ \E out \in {Outcome(o)} : Store(o, out, Written(o, out.contact))
    /\ job' = [Requeued(Ext(o)) EXCEPT ![o] = "done"]
    /\ snap' = [snap EXCEPT ![o] = NoSnapshot]
    /\ UNCHANGED <<orders, failure, acts, chosen>>

\* A serialization failure or a kill: the job is tried again.
Retry(o) ==
    /\ job[o] \in Active
    /\ Inform({o}, {})
    /\ End(o, "waiting")
    /\ UNCHANGED <<orders, tables, failure, result, acts, apart, chosen>>

NoFailure == [model |-> None, key |-> None]

\* _handle_unique_violation swallows the error, and the job fails without a record.
\* So does an order without a customer when there is no default one.
Fail(o) ==
    /\ job[o] = "doing"
    /\ MissingCustomer(o) \/ (~MissingMapping(o) /\ Violates(o))
    /\ Inform({o}, {})
    /\ End(o, "failed")
    /\ failure' = [failure EXCEPT ![o] = NoFailure]
    /\ UNCHANGED <<orders, tables, result, acts, apart, chosen>>

\* _notify_about_missed_customer_mapping, then _create_or_update_mapping.  If the
\* snapshot has no mapping, the new cursor looks for it again, and writes the one it
\* finds; otherwise the contact it writes is rolled back with the transaction.
NotifyMissing(o) ==
    /\ job[o] = "doing" /\ MissingMapping(o)
    /\ job' = [job EXCEPT ![o] = "notified"]
    /\ LET unseen == snap[o].mapping[Ext(o)] = Unmapped
       IN  /\ mapping' = IF unseen THEN [mapping EXCEPT ![Ext(o)] = Open] ELSE mapping
           /\ changed' = [p \in Order |->
                            IF unseen /\ job[p] \in Active
                            THEN changed[p] \cup {MappingRow(Ext(o))} ELSE changed[p]]
    /\ UNCHANGED <<orders, contact, failure, snap, result, acts, apart, chosen>>

\* QueueJob.write keeps what the failure is about: of the message of NotMappedFromExternal,
\* all that is before "(code=", the name of the integration included.
FailureOf(o) == [model |-> "name -> res.partner.mapping", key |-> Ext(o)]

FailMissing(o) ==
    /\ job[o] = "notified"
    /\ Inform({o}, {})
    /\ End(o, "failed")
    /\ failure' = [failure EXCEPT ![o] = FailureOf(o)]
    /\ UNCHANGED <<orders, tables, result, acts, apart, chosen>>

-----------------------------------------------------------------------------
(* Users *)

Act == acts < MaxActs /\ acts' = acts + 1

Archive(i) ==
    /\ Act /\ contact[i].active
    /\ contact' = [contact EXCEPT ![i].active = FALSE]
    /\ Inform({}, {ContactRow(i)})
    /\ UNCHANGED <<orders, mapping, job, failure, snap, result, apart, chosen>>

\* The user chooses the contact of an external customer in Mappings -> Contacts.
MapContact(e, i) ==
    /\ Act /\ mapping[e] # Unmapped /\ mapping[e] # i
    /\ contact[i].active
    /\ mapping' = [mapping EXCEPT ![e] = i]
    /\ chosen' = chosen \cup {e}
    /\ job' = Requeued(e)
    /\ Inform({}, {MappingRow(e)})
    /\ UNCHANGED <<orders, contact, failure, snap, result, apart>>

Requeue(o) ==
    /\ Act /\ job[o] = "failed"
    /\ job' = [job EXCEPT ![o] = "waiting"]
    /\ UNCHANGED <<orders, tables, failure, snap, changed, result, apart, chosen>>

-----------------------------------------------------------------------------
(* Specification *)

\* The contacts that Odoo has at the start: the default customer, if there is one.
Start(default) ==
    [i \in 1..default |-> Record([email |-> None, street |-> None, country |-> None],
                                 "default", FALSE, Nobody, "contact")]

PartnersInit ==
    /\ setting \in Setting
    /\ data \in [Order -> Data]
    /\ contact = Start(setting.default)
    /\ mapping = [e \in External |-> Unmapped]
    /\ job = [o \in Order |-> "waiting"]
    /\ failure = [o \in Order |-> NoFailure]
    /\ snap = [o \in Order |-> NoSnapshot]
    /\ changed = [o \in Order |-> {}]
    /\ result = [o \in Order |-> NoResult]
    /\ acts = 0 /\ apart = {} /\ chosen = {}

PartnersNext ==
    \/ \E o \in Order :
          \/ Begin(o) \/ Commit(o) \/ Retry(o) \/ Fail(o)
          \/ NotifyMissing(o) \/ FailMissing(o) \/ Requeue(o)
    \/ \E i \in DOMAIN contact : Archive(i) \/ \E e \in External : MapContact(e, i)

PartnersSpec == PartnersInit /\ [][PartnersNext]_partnersVars

-----------------------------------------------------------------------------
(* Properties *)

Done == {o \in Order : job[o] = "done"}
Archived(i) == ~contact[i].active \/ \E c \in DOMAIN contact : c = contact[i].parent /\ ~contact[c].active

\* Customers are looked for by an e-mail that the order does not have.
Unknown(d) == setting.search = "email" /\ d.email = None

\* Two orders of different customers have created the same company at the same time.
Twofold(company) ==
    \E pair \in apart : \A i \in {pair[1], pair[2]} : contact[i].is_company /\ contact[i].name = company

\* The customer has also ordered for a company, or under another name or e-mail.
AlsoForCompany(o) == \E q \in Done : Ext(q) = Ext(o) /\ Customer(data[q]).company # None
AlsoNamed(o) ==
    \E q \in Done : Ext(q) = Ext(o) /\ (data[q].name # data[o].name \/ data[q].email # data[o].email)

\* Orders of the same customer that say the same have the same contact, also when they
\* are created at the same time: the second waits for the mapping of the first.  When
\* the customer also buys for a company, an order without one takes the contact that
\* the customer had last; what a user has chosen or archived is not found again; and
\* where the mapping does not decide, the search may find what another customer, who is
\* the same to it, has got at the same time, or nothing that it could look for.
OneContact ==
    \A o, p \in Done :
        LET r == result[o].customer
            s == result[p].customer
            alone == Customer(data[o]).company = None
        IN  \/ Ext(o) # Ext(p) \/ Ext(o) = None \/ Customer(data[o]) # Customer(data[p])
            \/ r = s \/ Archived(r) \/ Archived(s) \/ Ext(o) \in chosen
            \/ alone /\ AlsoForCompany(o)
            \/ ~alone /\ Twofold(Customer(data[o]).company)
            \/ setting.skip = alone /\ (Unknown(data[o]) \/ {<<r, s>>, <<s, r>>} \cap apart # {})
            \/ ~setting.skip /\ ~alone /\ AlsoNamed(o)

\* What a search would find is not created: no two contacts are the same in all that
\* the searches compare, unless two orders have created them at the same time or
\* customers are looked for by an e-mail that they do not have.
NoDuplicates ==
    \A i, j \in DOMAIN contact :
        \/ i = j \/ <<i, j>> \in apart \/ <<j, i>> \in apart \/ Archived(i) \/ Archived(j)
        \/ [contact[i] EXCEPT !.known_as = {}] # [contact[j] EXCEPT !.known_as = {}]
        \/ Unknown(contact[i])

Alike(r, p) ==
    /\ r.name = p.name
    /\ p.street # None => r.street = p.street
    /\ p.country # None => r.country = p.country

\* The addresses of an order are those it has asked for, in all that it says of them, and
\* belong to its customer or to the company of its customer, whatever has been found among
\* the contacts.  What the order does not say may be filled in at the same time from an
\* address that does.
AddressAlike ==
    [][\A o \in Order :
          job[o] # "done" /\ job'[o] = "done" /\ ~Guest(o) =>
            \A pair \in {<<result'[o].invoice, Billing(data[o])>>, <<result'[o].delivery, Shipping(data[o])>>} :
                LET r == contact'[pair[1]]
                IN  /\ Alike(r, pair[2])
                    /\ \/ pair[1] = result'[o].customer \/ r.parent = result'[o].customer
                       \/ r.is_company /\ r.name = pair[2].company
                       \/ r.parent # Nobody /\ contact'[r.parent].name = pair[2].company]_partnersVars

\* "This fields used for re-run jobs on fixed mapping": a job that has failed for want
\* of a mapping does not stay failed when the customer is mapped.
RerunOnMapping ==
    [][\A e \in External, o \in Order :
          /\ mapping[e] = Open /\ mapping'[e] > Open
          /\ job[o] = "failed" /\ failure[o].key = e
          => job'[o] # "failed"]_partnersVars

=============================================================================
