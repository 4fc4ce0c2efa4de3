----------------------------- MODULE ProductSync -----------------------------
(***************************************************************************)
(* One product that is kept the same in Odoo and in the store.  An edit in *)
(* Odoo asks for a job that exports the template; an edit in the store     *)
(* sends a webhook, which asks for a job that imports it.  The external    *)
(* records and their mappings say which product of the store the template  *)
(* is.                                                                     *)
(*                                                                         *)
(* A job is one REPEATABLE READ transaction that begins with a snapshot.   *)
(* What an export does to the store it does before it commits: a job that  *)
(* is killed in between has changed the store and nothing in Odoo.         *)
(*                                                                         *)
(* Abstracted: the content of a product is one value; the products of the  *)
(* store that count are those that have its references, which the database *)
(* accepts in one external record (uniq_reference).  An import may make a  *)
(* second template while a user creates the first: its content, and what   *)
(* users do with it, are left out.  So are the filters of the settings,    *)
(* the delays of the jobs, images and prices, and an import asks the store *)
(* as it begins.                                                           *)
(***************************************************************************)
EXTENDS Integers, FiniteSets

CONSTANTS
    Code,       \* codes of products of the store
    Content,    \* contents of the product
    Worker,     \* transactions that may be in progress at a time
    AutoCreate, \* values of the setting auto_create_products_on_so
    MaxActs     \* bound of the model: edits, failures and losses

ASSUME ActsAssumption == AutoCreate \subseteq BOOLEAN /\ MaxActs \in Nat

None == "none"
Gone == "gone"  \* a code is never given again

ASSUME CodesAssumption == {None, Gone, "template"} \cap (Code \cup Content) = {}

VARIABLES
    template, \* content of the product.template, if there is one
    twin,     \* there is another template with the same references
    product,  \* content of each product of the store, if there is one
    record,   \* state of each integration.product.template.external
    recent,   \* those whose timestamp_export is less than receive_webhook_gap old
    hooks,    \* webhooks on their way
    jobs,     \* waiting jobs
    doing,    \* what each transaction does, has read and has done in the store
    changed,  \* rows written by others since its snapshot
    acts,     \* bound of the model
    raced,    \* history: two exports at once, or an export and a creation
    excused   \* history: the first way in which a change may have been dropped

rows == <<template, twin, record, recent>>
bounds == <<acts, raced, excused>>
vars == <<rows, product, hooks, jobs, doing, changed, bounds>>

-----------------------------------------------------------------------------
(* Types *)

ExportTemplate == [does |-> "export", code |-> None]
ImportProduct(c) == [does |-> "import", code |-> c]
CreateProduct(c) == [does |-> "create", code |-> c]
UpdateProduct(c) == [does |-> "update", code |-> c]
DeleteProduct(c) == [does |-> "delete", code |-> c]
Job == {ExportTemplate} \cup [does : {"import", "create", "update", "delete"}, code : Code]

Idle == [job |-> None]
Asleep(w) == doing[w] = Idle

\* A record has the template or not, or another one, and has its references, but that of
\* a product which an export has found.
HasTemplate == {"mapped", "found"}
HasReference == {"mapped", "alone", "other"}
Record == HasTemplate \cup HasReference \cup {None}

\* seen: the jobs of the snapshot.  answer: the product as an import has read it,
\* or the code that an export has found or written.
Reading ==
    [job : Job, template : Content \cup {None}, twin : BOOLEAN, record : [Code -> Record],
     recent : SUBSET Code, seen : SUBSET Job, step : {"read", "looked", "gone", "sent"},
     answer : Content \cup Code \cup {None, Gone}]

Row == {"template"} \cup Code

\* The job of an edit was taken for one that has begun; a webhook was lost, came too
\* soon after an export, before the record was there, or asked for the creation of one
\* that was there already; a job failed; two jobs ran at once; an import made a second
\* template, or gave a second record to the template.
Excuse == {"stale key", "lost", "early", "unseen", "failed", "crossed", "second"}

TypeOK ==
    /\ template \in Content \cup {None} /\ product \in [Code -> Content \cup {None, Gone}]
    /\ twin \in BOOLEAN /\ record \in [Code -> Record] /\ recent \in SUBSET Code
    /\ hooks \in SUBSET (Code \X {"update", "delete"}) /\ jobs \in SUBSET Job
    /\ doing \in [Worker -> Reading \cup {Idle}]
    /\ changed \in [Worker -> SUBSET Row]
    /\ acts \in 0..MaxActs /\ raced \in BOOLEAN /\ excused \in Excuse \cup {None}
    /\ (\E c \in Code : record[c] \in HasTemplate) => template # None

-----------------------------------------------------------------------------
(* Helpers *)

Live == {c \in Code : product[c] \notin {None, Gone}}
Does(w, kinds) == ~Asleep(w) /\ doing[w].job.does \in kinds
Exporting == {w \in Worker : Does(w, {"export"})}

\* The two sides differ: what is dropped of a change counts.
Differ == \E c \in Code : record[c] \in HasTemplate /\ product[c] # template

Excuses(condition, excuse) == excused' = IF condition /\ excused = None THEN excuse ELSE excused

\* with_delay and an identity key, which import_product and import_product_flow share.
Key(j) == IF j.does = "create" THEN ImportProduct(j.code) ELSE j

\* Mutant: the identity key of a job that has begun still counts.
AddJobOnce(seen, j) ==
    IF \E k \in seen \cup {doing[w].job : w \in {v \in Worker : ~Asleep(v)}} : Key(k) = Key(j)
    THEN jobs ELSE jobs \cup {j}

AddJob(seen, j) == IF \E k \in seen : Key(k) = Key(j) THEN jobs ELSE jobs \cup {j}

\* _trigger_export_single_template
Trigger == AddJob(jobs, ExportTemplate)

\* The transactions in progress, but the one that ends, learn of the rows written.
Touch(by, written) ==
    [w \in Worker |-> IF w = by \/ Asleep(w) THEN {} ELSE changed[w] \cup written]

-----------------------------------------------------------------------------
(* Users of Odoo and of the store *)

Act == acts < MaxActs /\ acts' = acts + 1

\* create and write of product.template and product.product.  The job is not created
\* when the transaction has seen one waiting, which has begun since (stale).
Write(v, stale) ==
    /\ Act /\ v # template
    /\ stale => Exporting # {}
    /\ template' = v
    /\ jobs' = IF stale THEN jobs ELSE Trigger
    /\ Excuses(stale, "stale key")
    /\ changed' = Touch(None, {"template"})
    /\ UNCHANGED <<product, twin, record, recent, hooks, doing, raced>>

StoreEdit(c, v) ==
    /\ Act /\ c \in Live /\ v # product[c]
    /\ product' = [product EXCEPT ![c] = v]
    /\ hooks' = hooks \cup {<<c, "update">>}
    /\ UNCHANGED <<rows, jobs, doing, changed, raced, excused>>

StoreCreate(c, v) ==
    /\ Act /\ Live = {} /\ product[c] = None
    /\ product' = [product EXCEPT ![c] = v]
    /\ hooks' = hooks \cup {<<c, "update">>}
    /\ raced' = (raced \/ Exporting # {})
    /\ UNCHANGED <<rows, jobs, doing, changed, excused>>

StoreDelete(c) ==
    /\ Act /\ c \in Live
    /\ product' = [product EXCEPT ![c] = Gone]
    /\ hooks' = hooks \cup {<<c, "delete">>}
    /\ UNCHANGED <<rows, jobs, doing, changed, raced, excused>>

-----------------------------------------------------------------------------
(* Webhooks *)

LoseHook(h) ==
    /\ Act /\ h \in hooks
    /\ hooks' = hooks \ {h}
    /\ Excuses(TRUE, "lost")
    /\ UNCHANGED <<rows, product, jobs, doing, changed, raced>>

GapEnds ==
    /\ \E c \in recent : recent' = recent \ {c}
    /\ UNCHANGED <<template, twin, record, product, hooks, jobs, doing, changed, bounds>>

\* An import in progress has read the product before it was changed.
Outdated(c) ==
    \E w \in Worker :
        Does(w, {"import", "update"}) /\ doing[w].job.code = c /\ doing[w].answer # product[c]

\* update_product_by_id_with_delay, for the events of creations and of updates: an
\* update that comes too soon after an export is taken for its echo.
UpdateHook(c) ==
    /\ hooks' = hooks \ {<<c, "update">>}
    /\ IF record[c] \in HasTemplate \cup {"other"}
       THEN /\ jobs' = IF c \in recent THEN jobs ELSE AddJob(jobs, UpdateProduct(c))
            /\ Excuses(c \in recent /\ (Differ \/ Outdated(c)), "early")
            /\ UNCHANGED <<record, changed>>
       ELSE \* a record without a template is dropped
            /\ record' = [record EXCEPT ![c] = None]
            /\ changed' = Touch(None, {c})
            /\ jobs' = AddJob(jobs, CreateProduct(c))
            /\ UNCHANGED excused
    /\ UNCHANGED <<template, twin, product, recent, doing, acts, raced>>

\* delete_product_by_id_with_delay: a record that is being made is not seen.
DeleteHook(c) ==
    /\ hooks' = hooks \ {<<c, "delete">>}
    /\ jobs' = IF record[c] # None THEN AddJob(jobs, DeleteProduct(c)) ELSE jobs
    /\ Excuses(/\ record[c] = None
               /\ \E w \in Worker : ~Asleep(w) /\ c \in {doing[w].job.code, doing[w].answer},
               "unseen")
    /\ UNCHANGED <<rows, product, doing, changed, acts, raced>>

ReceiveHook(c) ==
    \/ <<c, "update">> \in hooks /\ UpdateHook(c)
    \/ <<c, "delete">> \in hooks /\ DeleteHook(c)

-----------------------------------------------------------------------------
(* The export of a template *)

\* The snapshot; an import asks the store for the product at once.
Begin(w, j) ==
    /\ Asleep(w) /\ j \in jobs
    /\ jobs' = jobs \ {j}
    /\ raced' = (raced \/ (j = ExportTemplate /\ Exporting # {}))
    /\ doing' = [doing EXCEPT ![w] =
           [job |-> j, template |-> template, twin |-> twin, record |-> record,
            recent |-> recent, seen |-> IF j = ExportTemplate THEN jobs' ELSE {}, step |-> "read",
            answer |-> IF j = ExportTemplate THEN None ELSE product[j.code]]]
    /\ Excuses(\E v \in Worker : ~Asleep(v), "crossed")
    /\ UNCHANGED <<rows, product, hooks, changed, acts>>

Step(w, from, to, answer) ==
    /\ Does(w, {"export"}) /\ doing[w].step = from
    /\ doing' = [doing EXCEPT ![w] = [@ EXCEPT !.step = to, !.answer = answer]]

\* to_external_record: the records that are mapped to the template, of which the code
\* takes the last.
Known(d) == {c \in Code : d.record[c] \in HasTemplate}

\* validate_template: the product that is known does not exist any more.
Validated(c) == IF c \in Live THEN "looked" ELSE "gone"

\* Mutant: the references are not looked for.
ExistingNone(d) == {None}

\* find_existing_template: the product that has the references, if it is the only one.
Existing(d) == IF Live = {} THEN {None} ELSE IF Cardinality(Live) > 1 THEN {} ELSE Live

Look(w) ==
    /\ Does(w, {"export"})
    /\ \/ \E c \in Known(doing[w]) : Step(w, "read", Validated(c), c)
       \/ /\ Known(doing[w]) = {}
          /\ \E found \in Existing(doing[w]) : Step(w, "read", "looked", found)
    /\ UNCHANGED <<rows, product, hooks, jobs, changed, bounds>>

\* adapter.export_template; a product that was found by its references is not written.
Target(d) ==
    IF d.answer = None THEN {c \in Code : product[c] = None}
    ELSE IF Known(d) # {} THEN {d.answer} \cap Live ELSE {}

Send(w, c) ==
    /\ Does(w, {"export"}) /\ c \in Target(doing[w])
    /\ Step(w, "looked", "sent", c)
    /\ product' = [product EXCEPT ![c] = doing[w].template]
    /\ hooks' = hooks \cup {<<c, "update">>}
    /\ UNCHANGED <<rows, jobs, changed, bounds>>

\* _create_product and _update_product
SendNew(w, c) == product[c] = None /\ Send(w, c)
SendUpdate(w, c) == c \in Live /\ Send(w, c)

-----------------------------------------------------------------------------
(* The end of a job *)

End(w, written) ==
    /\ doing' = [doing EXCEPT ![w] = Idle]
    /\ changed' = Touch(w, written)

\* The product of the record that the transaction makes, writes or drops.
Subject(d) == IF d.job = ExportTemplate THEN d.answer ELSE d.job.code

\* _try_to_find_odoo_template: by its mapping, or by its references.
Matched(d) == d.template # None /\ (d.record[Subject(d)] \in HasTemplate \/ ~d.twin)

\* Two templates have the references, and no mapping says which one is meant.
Ambiguous(d) == d.twin /\ d.record[Subject(d)] \in {"alone", None}

Imports(d) == d.job.does \in {"import", "create", "update"}

\* Rows of the snapshot that the transaction writes or drops.  Rows that are new do not
\* meet those that others make, but for the unique references.
Written(d) ==
    {row \in {"template", Subject(d)} :
        IF row = "template" THEN Imports(d) /\ Matched(d) /\ d.answer # d.template
        ELSE d.record[row] \notin (IF Imports(d) THEN {None, "mapped", "other"} ELSE {None})}

\* uniq_code and uniq_reference: another transaction has made the record, or one that has
\* the references which this transaction writes into its own.
Taken(d) ==
    \/ d.record[Subject(d)] = None /\ record[Subject(d)] # None
    \/ /\ Imports(d) \/ d.step = "sent"
       /\ d.record[Subject(d)] \notin HasReference
       /\ \E c \in Code \ {Subject(d)} : record[c] \in HasReference

\* An export has nothing more to do in the store.
Ready(d) == d.job = ExportTemplate =>
    d.step \in {"gone", "sent"} \/ (d.step = "looked" /\ Known(d) = {} /\ d.answer # None)

Serializable(w) == changed[w] \cap Written(doing[w]) = {} /\ ~Taken(doing[w])

Commit(w, kinds) ==
    /\ Does(w, kinds) /\ Ready(doing[w]) /\ Serializable(w)
    /\ End(w, Written(doing[w]))
    /\ UNCHANGED <<product, hooks, acts, raced>>

\* export_template, of a product that was sent: _handle_mapping_data
CommitExport(w) ==
    LET d == doing[w] IN
    /\ Commit(w, {"export"}) /\ d.step = "sent"
    /\ record' = [record EXCEPT ![d.answer] = "mapped"]
    /\ recent' = recent \cup {d.answer}
    /\ UNCHANGED <<template, twin, jobs, excused>>

\* export_template, of a product that is gone: the record is dropped and the job is
\* asked for again.
CommitGone(w) ==
    LET d == doing[w] IN
    /\ Commit(w, {"export"}) /\ d.step = "gone"
    /\ record' = [record EXCEPT ![d.answer] = None]
    /\ jobs' = AddJob(d.seen, ExportTemplate)
    /\ UNCHANGED <<template, twin, recent, excused>>

\* export_template, of a product that was found by its references: it is imported
\* instead, by a job that is not created if the webhook has asked for its creation.  A
\* record that is made here does not have the references yet.
CommitFound(w) ==
    LET d == doing[w] IN
    /\ Commit(w, {"export"}) /\ d.step = "looked" /\ d.answer \in Code
    /\ record' = [record EXCEPT ![d.answer] = IF @ = None THEN "found" ELSE "mapped"]
    /\ jobs' = AddJob(d.seen, ImportProduct(d.answer))
    /\ recent' = recent \ {d.answer}
    /\ UNCHANGED <<template, twin, excused>>

\* Mutant: an import asks for an export like any other write.
TriggerAlways(old, new) == IF old # new THEN Trigger ELSE jobs

\* skip_product_export
AfterImport(old, new) == jobs

\* _import_external_product: a record can be made, with the references.
Importable(d) ==
    d.answer \in Content /\ \A c \in Code : d.record[c] = None \/ (c # d.job.code /\ d.record[c] = "found")

\* The job does nothing: the record exists, is gone, or was just exported.
Drops(d) ==
    CASE d.job.does = "create" -> ~Importable(d)
      [] d.job.does = "update" -> d.record[d.job.code] = None \/ d.job.code \in d.recent
      [] d.job.does \in {"import", "delete"} -> d.record[d.job.code] = None
      [] OTHER -> FALSE

Drop(w) ==
    /\ Does(w, {"import", "create", "update", "delete"}) /\ Drops(doing[w])
    /\ End(w, {})
    /\ Excuses(Differ, "early")
    /\ UNCHANGED <<rows, product, hooks, jobs, acts, raced>>

\* _import_one_product: values that are the same are not written.
Imported(d) == IF d.answer = d.template THEN template ELSE d.answer

\* A template that the import has not found is made: a second one if a user has created
\* the first since, as nothing in the database tells them apart.
Second(d) == ~Matched(d) /\ template # None

\* _import_one_product: the template is written or made, and mapped to the record unless
\* it was dropped since.
ImportOne(d) ==
    LET c == d.job.code IN
    /\ template' = IF Second(d) THEN template ELSE Imported(d)
    /\ twin' = (twin \/ Second(d))
    /\ record' = [record EXCEPT ![c] = IF @ = None /\ d.record[c] # None THEN None
                                       ELSE IF Second(d) THEN "other" ELSE "mapped"]
    /\ jobs' = AfterImport(d.template, d.answer)
    /\ Excuses(Second(d) \/ \E k \in Code \ {c} : record[k] \in HasTemplate, "second")

\* import_product and import_one_product_by_hook
CommitImport(w) ==
    LET d == doing[w] IN
    /\ Commit(w, {"import", "update"}) /\ ~Drops(d) /\ d.answer \in Content /\ ~Ambiguous(d)
    /\ IF d.record[d.job.code] = "other"
       THEN UNCHANGED <<template, twin, record, jobs, excused>>
       ELSE ImportOne(d)
    /\ UNCHANGED recent

\* import_product_flow: the template is found by its references, or created if the
\* settings say so.
CommitCreate(w) ==
    LET d == doing[w] IN
    /\ Commit(w, {"create"}) /\ ~Drops(d)
    /\ \E auto \in AutoCreate :
        IF Matched(d) \/ auto
        THEN ~Ambiguous(d) /\ ImportOne(d)
        ELSE record' = [record EXCEPT ![d.job.code] = "alone"] /\ UNCHANGED <<template, twin, jobs, excused>>
    /\ recent' = recent \ {d.job.code}

\* drop_external_record
CommitDelete(w) ==
    /\ Commit(w, {"delete"}) /\ ~Drops(doing[w])
    /\ record' = [record EXCEPT ![doing[w].job.code] = None]
    /\ UNCHANGED <<template, twin, recent, jobs, excused>>

\* The commit is refused: the job waits again, or gives up when the record, or one with
\* its references, exists.
Refused(w) ==
    LET d == doing[w] IN
    /\ ~Asleep(w) /\ ~Drops(d) /\ Ready(d) /\ ~Serializable(w)
    /\ End(w, {})
    /\ jobs' = IF Taken(d) THEN jobs ELSE jobs \cup {d.job}
    /\ Excuses(Taken(d), "failed")
    /\ UNCHANGED <<rows, product, hooks, acts, raced>>

\* The store refuses, the product is gone, or there are two templates: validate_in_odoo,
\* in the exports that were asked for since, and _find_product_by_field.
Fails(w) ==
    LET d == doing[w] IN
    /\ \/ Does(w, {"export"}) /\ d.step = "read" /\ (d.twin \/ (Known(d) = {} /\ Existing(d) = {}))
       \/ Does(w, {"export"}) /\ d.step = "looked" /\ ~Ready(d) /\ Target(d) = {}
       \/ Does(w, {"import", "update"}) /\ ~Drops(d) /\ (d.answer \notin Content \/ Ambiguous(d))
       \/ Does(w, {"create"}) /\ ~Drops(d) /\ Ambiguous(d) /\ TRUE \in AutoCreate
    /\ End(w, {})
    /\ Excuses(TRUE, "failed")
    /\ UNCHANGED <<rows, product, hooks, jobs, acts, raced>>

\* The job raises and fails, or is killed and waits again; what it has done in the
\* store stays.
Abort(w, again) ==
    /\ Act /\ ~Asleep(w)
    /\ End(w, {})
    /\ jobs' = IF again THEN jobs \cup {doing[w].job} ELSE jobs
    /\ Excuses(~again, "failed")
    /\ UNCHANGED <<rows, product, hooks, raced>>

-----------------------------------------------------------------------------

Init ==
    /\ template = None /\ twin = FALSE /\ product = [c \in Code |-> None]
    /\ record = [c \in Code |-> None] /\ recent = {}
    /\ hooks = {} /\ jobs = {}
    /\ doing = [w \in Worker |-> Idle] /\ changed = [w \in Worker |-> {}]
    /\ acts = 0 /\ raced = FALSE /\ excused = None

User ==
    \/ \E v \in Content, stale \in BOOLEAN : Write(v, stale)
    \/ \E c \in Code, v \in Content : StoreEdit(c, v) \/ StoreCreate(c, v)
    \/ \E c \in Code : StoreDelete(c)

Trouble ==
    \/ \E h \in hooks : LoseHook(h)
    \/ \E w \in Worker, again \in BOOLEAN : Abort(w, again)

Receive == \E c \in Code : ReceiveHook(c)

Export(w) ==
    \/ Look(w) \/ (\E c \in Code : SendNew(w, c) \/ SendUpdate(w, c))
    \/ CommitExport(w) \/ CommitGone(w) \/ CommitFound(w)

Import(w) == CommitImport(w) \/ CommitCreate(w) \/ CommitDelete(w) \/ Drop(w)

JobStep(w) ==
    (\E j \in jobs : Begin(w, j)) \/ Export(w) \/ Import(w) \/ Refused(w) \/ Fails(w)

Next == User \/ Trouble \/ GapEnds \/ Receive \/ \E w \in Worker : JobStep(w)

\* Webhooks that are not lost arrive, and every worker goes on with its jobs.
Fairness == WF_vars(Receive) /\ WF_vars(GapEnds) /\ \A w \in Worker : WF_vars(JobStep(w))

Spec == Init /\ [][Next]_vars /\ Fairness

-----------------------------------------------------------------------------
(* Properties *)

Quiet == hooks = {} /\ jobs = {} /\ \A w \in Worker : Asleep(w)

\* A template never gets two products in the store: an export that is killed after it
\* has created one, and is done again, finds it by its references.  Two exports at
\* once and a creation during an export are the exceptions.
OneProduct == ~raced => Cardinality(Live) <= 1

\* When everything is done, a template and each product that is mapped to it are the
\* same, whatever was edited on either side and in whatever order jobs and webhooks were
\* handled, unless a change was dropped in one of the known ways (excused).
NothingLost ==
    Quiet /\ excused = None => \A c \in Code : record[c] \in HasTemplate => product[c] = template

\* Exports do not call imports that call exports for ever: the jobs and the webhooks
\* of a few edits come to an end.
EchoDies == <>[](jobs = {} /\ hooks = {})
=============================================================================
