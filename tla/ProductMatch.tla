----------------------------- MODULE ProductMatch -----------------------------
(***************************************************************************)
(* The products of a store, imported in blocks, and matched with the       *)
(* products of Odoo that exist: every template of the store gets a record, *)
(* each of its variants too, and a mapping to the product and the variants *)
(* that have the same references.                                          *)
(*                                                                         *)
(* A job imports a block of templates in one REPEATABLE READ transaction,  *)
(* each template in a savepoint.  An error takes back what was done for    *)
(* the template, or only stops its matching; the templates that failed are *)
(* asked for again in a job of their own when others did not.              *)
(*                                                                         *)
(* Abstracted: names and barcodes, attributes but for which variants have  *)
(* the same, archived products, products without variants, upper and lower *)
(* case in references; the buttons of the wizard are pressed one after the *)
(* other.  A job that is asked for again while it waits is kept once.      *)
(***************************************************************************)
EXTENDS Naturals, FiniteSets, SequencesExt, FiniteSetsExt

CONSTANTS
    Template, \* templates of the store
    Variant,  \* their variants, numbers, in the order in which the store lists them
    Of,       \* the template of each variant
    Product,  \* templates of Odoo
    Item,     \* their variants, numbers
    In,       \* the template of each
    Alike,    \* pairs of a variant and an item that have the same attributes
    Sku,      \* references
    Nothing,  \* no reference, or no mapping
    Stores,   \* references of the variants that the store may have in the beginning
    Stocks,   \* references of the items that Odoo may have in the beginning
    Limit,    \* external_block_limit
    Importer, \* transactions that may be in progress at a time
    MaxActs   \* bound of the model: acts of users, and failures

ASSUME KindsAssumption ==
    /\ Variant \subseteq Nat /\ Item \subseteq Nat
    /\ Of \in [Variant -> Template] /\ In \in [Item -> Product]
    /\ IsFiniteSet(Template) /\ IsFiniteSet(Item) /\ Template \cap Variant = {}
    /\ Nothing \notin Sku /\ Nothing \notin Product /\ Nothing \notin Item /\ Nothing \notin Importer
    /\ Limit \in Nat \ {0} /\ MaxActs \in Nat

VARIABLES
    store,   \* reference of each variant in the store
    item,    \* reference of each item of Odoo
    ref,     \* external_reference of the records
    mapped,  \* product of each template, item of each variant
    jobs,    \* waiting jobs: the templates of each
    failed,  \* failed jobs
    doing,   \* what each transaction imports, and what it has read
    changed, \* rows written by others since its snapshot
    acts,    \* bound of the model
    owed,    \* history: templates that jobs were asked for and have not imported yet
    hand     \* history: templates that a user has mapped, in part, since

tables == <<item, ref, mapped>>
queue == <<jobs, failed, owed>>
matchVars == <<store, tables, queue, doing, changed, acts, hand>>

-----------------------------------------------------------------------------
(* Types *)

New == "new"    \* does not exist yet
Gone == "gone"  \* does not exist any more, and never will again
Error == "error" \* of the matching
Exists(x) == x \notin {New, Gone}

External == Template \cup Variant
Value == Sku \cup {Nothing, New, Gone}

ASSUME StartAssumption ==
    /\ Nothing \notin {New, Gone, Error} /\ Error \notin Product
    /\ Stores \subseteq [Variant -> Value] /\ Stocks \subseteq [Item -> Value]

Ref(x) == <<"record", x>>
Map(x) == <<"mapping", x>>
MatchRow == ({"record", "mapping"} \X External) \cup ({"item"} \X Item)

Variants(t) == {v \in Variant : Of[v] = t}

Idle == [ids |-> {}]
Asleep(w) == doing[w] = Idle
Reading == [ids : SUBSET Template, answer : [Variant -> Value], item : [Item -> Value],
            ref : [External -> Value], mapped : [External -> Product \cup Item \cup {Nothing}]]

\* Every variable keeps its type: two records never have the same reference, and what is
\* mapped is a record and something that exists.
MatchTypeOK ==
    /\ store \in [Variant -> Value] /\ item \in [Item -> Value]
    /\ ref \in [External -> Sku \cup {Nothing, New}]
    /\ \A x, y \in Variant : x # y /\ ref[x] = ref[y] => ref[x] \in {Nothing, New}
    /\ \A x, y \in Template : x # y /\ ref[x] = ref[y] => ref[x] \in {Nothing, New}
    /\ \A t \in Template : mapped[t] = Nothing \/ \E i \in Item : mapped[t] = In[i] /\ Exists(item[i])
    /\ \A v \in Variant : mapped[v] = Nothing \/ Exists(item[mapped[v]])
    /\ \A x \in External : mapped[x] # Nothing => ref[x] # New
    /\ {} \notin jobs \cup failed /\ UNION (jobs \cup failed) \subseteq Template
    /\ \A ids \in jobs : Cardinality(ids) <= Limit
    /\ \A w \in Importer : Asleep(w) \/ doing[w] \in Reading
    /\ changed \in [Importer -> SUBSET MatchRow]
    /\ acts \in 0..MaxActs /\ owed \subseteq Template /\ hand \subseteq Template

-----------------------------------------------------------------------------
(* The records of a template.  d is what the transaction has read, s what  *)
(* it has done: ref, mapped and the rows it has written, the templates     *)
(* imported and those failed; and the references now, which it finds in    *)
(* what others may have written.                                           *)

Listed(d, t) == {v \in Variants(t) : Exists(d.answer[v])}

\* get_product_templates: a template has the reference of its only variant.
Received(d, t, x) ==
    CASE x \in Variant -> d.answer[x]
      [] x = t /\ Cardinality(Listed(d, t)) = 1 -> d.answer[CHOOSE v \in Listed(d, t) : TRUE]
      [] OTHER -> Nothing

Records(d, t) == {t} \cup Listed(d, t)
Over(map, now) == [x \in External |-> IF x \in DOMAIN map THEN map[x] ELSE now[x]]
Kin(x) == IF x \in Template THEN Template \ {x} ELSE Variant \ {x}

\* The reference that PostgreSQL finds in the row y when x is written: the variants
\* before x have theirs, and what the transaction has not written others may have.
Indexed(d, s, t, x, y) ==
    IF x \in Variant /\ y \in Listed(d, t) /\ y < x THEN d.answer[y]
    ELSE IF Ref(y) \in s.rows THEN s.ref[y] ELSE s.now[y]

\* uniq_reference and uniq_code
Violates(d, s, t) ==
    \E x \in Records(d, t) :
        \/ s.ref[x] = New /\ s.now[x] # New
        \/ /\ Received(d, t, x) # Nothing
           /\ \E y \in Kin(x) : Received(d, t, x) = Indexed(d, s, t, x, y)

\* has_conflicts of the wizard: a record that the store does not list.
HasConflicts(d, s, t) == \E v \in Variants(t) : s.ref[v] # New /\ v \notin Listed(d, t)

\* create_or_update of the template and of its variants
Recorded(d, s, t) ==
    [s EXCEPT !.ref = Over([x \in Records(d, t) |-> Received(d, t, x)], @),
              !.rows = @ \cup {Ref(x) : x \in Records(d, t)}]

-----------------------------------------------------------------------------
(* The matching of a template *)

\* product_variant_ids
Items(d, p) == {i \in Item : In[i] = p /\ Exists(d.item[i])}

\* _find_product_by_field, of templates: default_code is that of the only variant.
FindTemplate(d, t) ==
    LET found == {p \in Product : \E i \in Items(d, p) :
                      Items(d, p) = {i} /\ d.item[i] = Received(d, t, t)}
    IN  CASE found = {} -> Nothing
          [] Cardinality(found) = 1 -> CHOOSE p \in found : TRUE
          [] OTHER -> Error

\* _find_product_by_field, of variants: each must be the only one, in a template with as
\* many variants, all with a reference.
Search(d, v) == {i \in Item : d.item[i] = d.answer[v]}
Unfit(d, t, i) ==
    \/ Cardinality(Items(d, In[i])) # Cardinality(Listed(d, t))
    \/ \E j \in Items(d, In[i]) : d.item[j] = Nothing

\* _try_to_find_odoo_template_by_childs
FindByChilds(d, t) ==
    LET found == UNION {Search(d, v) : v \in Listed(d, t)}
        unsure == \/ \E v \in Listed(d, t) : Cardinality(Search(d, v)) # 1
                  \/ \E i \in found : Unfit(d, t, i)
                  \/ Cardinality({In[i] : i \in found}) > 1
    IN  IF found = {} THEN Nothing
        ELSE IF unsure THEN Error ELSE In[CHOOSE i \in found : TRUE]

\* _self_validation and _try_to_find_odoo_template
Target(d, s, t) ==
    IF \E v \in Listed(d, t) : d.answer[v] = Nothing THEN Error
    ELSE IF s.mapped[t] # Nothing THEN s.mapped[t]
    ELSE IF Cardinality(Listed(d, t)) = 1 THEN FindTemplate(d, t) ELSE FindByChilds(d, t)

\* Mutant: a variant is looked for in all the products.
FindAnywhere(d, p, v) ==
    IF Search(d, v) # {} THEN Max(Search(d, v)) ELSE Nothing

\* _find_suitable_variant: by its reference, or by its attributes
FindSuitable(d, p, v) ==
    LET same == Search(d, v) \cap Items(d, p)
        alike == {i \in Items(d, p) : <<v, i>> \in Alike}
    IN  CASE same # {} -> Max(same)
          [] same = {} /\ alike # {} -> Min(alike)
          [] OTHER -> Nothing

Unsuited(d, p, t) == {v \in Listed(d, t) : FindSuitable(d, p, v) = Nothing}

\* Each variant loses its item before another one is looked for.
Unmapped(d, p, t) ==
    IF Unsuited(d, p, t) = {} THEN Listed(d, t)
    ELSE {v \in Listed(d, t) : v <= Min(Unsuited(d, p, t))}

\* What the matching of several variants writes, and the items that it takes.
Written(d, p, t) ==
    [x \in Unmapped(d, p, t) \cup (IF Unsuited(d, p, t) = {} THEN {t} ELSE {}) |->
        IF x = t THEN p ELSE FindSuitable(d, p, x)]

Taken(map) == {<<"item", map[v]>> : v \in {u \in DOMAIN map \cap Variant : map[u] # Nothing}}

\* What is mapped already is not written, unless it was unmapped before.
MapAs(s, map, unmapped) ==
    [s EXCEPT !.mapped = Over(map, @),
              !.rows = @ \cup Taken(map) \cup
                  {Map(x) : x \in {y \in DOMAIN map : y \in unmapped \/ s.mapped[y] # map[y]}}]

Fail(s, t) == [s EXCEPT !.failed = @ \cup {t}]

\* _try_to_update_mappings: the only variant takes the only item, each of several the one
\* that suits it.
UpdateMappings(d, s, p, t) ==
    IF Cardinality(Listed(d, t)) = 1
    THEN MapAs(s, [x \in Records(d, t) |-> IF x = t THEN p ELSE CHOOSE i \in Items(d, p) : TRUE], {})
    ELSE MapAs(IF Unsuited(d, p, t) = {} THEN s ELSE Fail(s, t), Written(d, p, t), Unmapped(d, p, t))

\* Mutant: an error of the matching is not counted as a failure.
MatchedSilently(d, s, p, t) ==
    CASE p = Nothing -> s
      [] p = Error -> s
      [] OTHER -> UpdateMappings(d, s, p, t)

\* try_map_template_and_variants, whose errors leave what was mapped so far.
Matched(d, s, p, t) ==
    CASE p = Nothing -> s
      [] p = Error -> Fail(s, t)
      [] OTHER -> UpdateMappings(d, s, p, t)

Miscounted(d, p, t) ==
    p \in Product /\ Cardinality(Items(d, p)) # Cardinality(Listed(d, t))

Ok(s, t) == [s EXCEPT !.ok = @ \cup {t}]

\* A template in its savepoint, of _import_external_product
Tried(d, s, t) ==
    IF Violates(d, s, t) \/ HasConflicts(d, s, t) \/ Miscounted(d, Target(d, s, t), t)
    THEN Fail(s, t)
    ELSE Ok(Recorded(d, s, t), t)

ImportOne(d, s, t) ==
    {IF t \in r.ok THEN Matched(d, r, p, t) ELSE r :
         p \in {Target(d, s, t)}, r \in {Tried(d, s, t)}}

Begun(d) == [ref |-> d.ref, mapped |-> d.mapped, rows |-> {}, ok |-> {}, failed |-> {}, now |-> ref]

\* _import_external_product, of the templates that the store knows
Answered(d) == {t \in d.ids : Listed(d, t) # {}}
ImportInOrder(d, order) ==
    LET n == Cardinality(Answered(d))
        after[k \in 0..n] == IF k = 0 THEN {Begun(d)} ELSE UNION {ImportOne(d, s, order[k]) : s \in after[k - 1]}
    IN  after[n]

ImportAll(d) == UNION {ImportInOrder(d, order) : order \in SetToSeqs(Answered(d))}

-----------------------------------------------------------------------------
(* Jobs *)

Now(ids) == [ids |-> ids, answer |-> store, item |-> item, ref |-> ref, mapped |-> mapped]

Act == acts < MaxActs /\ acts' = acts + 1

\* The transactions in progress, but the one that ends, learn of the rows written.
Inform(by, rows) ==
    changed' = [w \in Importer |-> IF w = by \/ Asleep(w) THEN {} ELSE changed[w] \cup rows]

Write(s) == ref' = s.ref /\ mapped' = s.mapped /\ UNCHANGED item

\* What others have written stays.
Merge(s) ==
    /\ ref' = [x \in External |-> IF Ref(x) \in s.rows THEN s.ref[x] ELSE ref[x]]
    /\ mapped' = [x \in External |-> IF Map(x) \in s.rows THEN s.mapped[x] ELSE mapped[x]]
    /\ UNCHANGED item

End(w, rows) == doing' = [doing EXCEPT ![w] = Idle] /\ Inform(w, rows)

Begin(w, ids) ==
    /\ Asleep(w) /\ ids \in jobs
    /\ jobs' = jobs \ {ids}
    /\ doing' = [doing EXCEPT ![w] = Now(ids)]
    /\ UNCHANGED <<store, tables, failed, owed, changed, acts, hand>>

\* Mutant: transactions do not conflict.
SerializableAlways(w, s) == TRUE

Serializable(w, s) == s.rows \cap changed[w] = {}

\* Mutant: the whole block is asked for again.
RetryAll(d, s) == IF s.failed = {} THEN {} ELSE {d.ids}

\* _import_external_product_separate_job
Retry(d, s) == IF s.failed = {} THEN {} ELSE {s.failed}

\* import_external_product raises when nothing was imported or everything failed.
Raises(d, s) == s.ok = {} \/ s.failed = d.ids

\* Whatever failures were counted: the template and its variants have what the matching
\* looks for, if the store knows them.
Settled(d, s, t) ==
    t \in Answered(d) =>
        /\ t \in s.ok /\ Target(d, s, t) = s.mapped[t]
        /\ s.mapped[t] = Nothing \/ \A v \in Listed(d, t) : s.mapped[v] # Nothing

Whole(s) == {t \in s.ok \ s.failed : s.mapped[t] # Nothing}

Commit(w, d, s) ==
    /\ ~Raises(d, s) /\ Serializable(w, s)
    /\ Merge(s) /\ End(w, s.rows)
    /\ jobs' = jobs \cup Retry(d, s)
    /\ owed' = owed \ {t \in d.ids : Settled(d, s, t)}
    /\ hand' = hand \ {t \in Whole(s) : \A x \in {t} \cup Variants(t) : mapped'[x] = s.mapped[x]}
    /\ UNCHANGED <<store, failed, acts>>

FailJob(w) ==
    /\ failed' = failed \cup {doing[w].ids}
    /\ End(w, {})
    /\ UNCHANGED <<store, tables, jobs, owed, hand>>

Again(w) ==
    /\ jobs' = jobs \cup {doing[w].ids}
    /\ End(w, {})
    /\ UNCHANGED <<store, tables, failed, owed, hand>>

Finish(w) ==
    ~Asleep(w) /\ \E d \in {doing[w]} : \E s \in ImportAll(d) :
        \/ Commit(w, d, s)
        \/ Raises(d, s) /\ FailJob(w) /\ UNCHANGED acts
        \/ ~Serializable(w, s) /\ Again(w) /\ UNCHANGED acts

\* The worker is killed; or the store does not answer.
Killed(w) == ~Asleep(w) /\ Act /\ Again(w)
Unanswered(w) == ~Asleep(w) /\ Act /\ FailJob(w)

-----------------------------------------------------------------------------
(* Users of Odoo *)

\* The store lists the templates in the order of their variants.
Before(s, t) == \E u \in Variants(s) : \A v \in Variants(t) : u < v

\* import_products_in_background, integrationApiImportProducts: blocks of templates
Block(ids, t) == Cardinality({s \in ids : Before(s, t)}) \div Limit
Blocks(ids) == {{t \in ids : Block(ids, t) = b} : b \in {Block(ids, t) : t \in ids}}

\* remove_existing_records: mappings go with their records.
Ask(ids, remove) ==
    /\ Act /\ ids # {} /\ \A t \in ids : \E v \in Variants(t) : store[v] # New
    /\ jobs' = jobs \cup Blocks(ids) /\ owed' = owed \cup ids
    /\ IF remove
       THEN /\ ref' = [x \in External |-> New] /\ mapped' = [x \in External |-> Nothing]
            /\ Inform(Nothing, {Ref(x) : x \in External} \cup {Map(x) : x \in External})
            /\ hand' = {}
       ELSE UNCHANGED <<ref, mapped, changed, hand>>
    /\ UNCHANGED <<store, item, failed, doing>>

\* run_map_product: what it has done stays whether it fails or not.
RunMap(t) ==
    /\ Act /\ ref[t] # New
    /\ \E s \in ImportAll(Now({t})) :
        /\ Write(s) /\ Inform(Nothing, s.rows)
        /\ hand' = IF Whole(s) # {} THEN hand \ {t} ELSE hand \cup s.ok
    /\ UNCHANGED <<store, queue, doing>>

\* The wizard: approve by force drops the records that the store does not list, perform
\* matches the others or changes nothing.
Dropped(d, t) == {v \in Variants(t) : ref[v] # New /\ v \notin Listed(d, t)}

Approved(d, t) ==
    [Begun(d) EXCEPT !.ref = Over([x \in Dropped(d, t) |-> New], @),
                     !.mapped = Over([x \in Dropped(d, t) |-> Nothing], @),
                     !.rows = UNION {{Ref(x), Map(x)} : x \in Dropped(d, t)}]

Performed(d, s, t) ==
    LET p == Target(d, s, t) m == Matched(d, s, p, t)
    IN  IF Miscounted(d, p, t) \/ m.failed # {} THEN {} ELSE {m}

Resolve(t, perform) ==
    /\ Act /\ ref[t] # New
    /\ \E d \in {Now({t})} : \E a \in {Approved(d, t)} :
        /\ Listed(d, t) # {} /\ ~Violates(d, a, t)
        /\ \E s \in IF perform THEN Performed(d, Recorded(d, a, t), t) ELSE {Recorded(d, a, t)} :
            /\ Write(s) /\ Inform(Nothing, s.rows)
            /\ hand' = hand \cup {t}
    /\ UNCHANGED <<store, queue, doing>>

Known(t) == {v \in Variants(t) : ref[v] # New}

\* A mapping that does not change is not written.
MapByHand(t, map) ==
    /\ Act
    /\ mapped' = Over(map, mapped)
    /\ Inform(Nothing, {Map(x) : x \in {y \in DOMAIN map : mapped[y] # map[y]}})
    /\ hand' = hand \cup {t}
    /\ UNCHANGED <<store, item, ref, queue, doing>>

\* write of a template mapping: _auto_mapping_product_product gives its only variant the
\* first one of the product.
MapTemplate(t, p) ==
    LET only == IF Cardinality(Known(t)) = 1 THEN Known(t) ELSE {}
    IN  /\ ref[t] # New /\ mapped[t] # p /\ (p # Nothing => Items(Now({}), p) # {})
        /\ \E i \in {IF p = Nothing THEN Nothing ELSE Min(Items(Now({}), p))} :
               MapByHand(t, [x \in {t} \cup only |-> IF x = t THEN p ELSE i])

ProductOf(i) == IF i = Nothing THEN Nothing ELSE In[i]

\* write of a variant mapping: _auto_mapping_product_template has the template follow when
\* all its variants agree.
MapVariant(v, i) ==
    LET t == Of[v]
        agree == \A u \in Known(t) \ {v} : ProductOf(mapped[u]) = ProductOf(i)
    IN  /\ ref[v] # New /\ mapped[v] # i /\ (i # Nothing => Exists(item[i]))
        /\ MapByHand(t, [x \in {v} \cup {u \in {t} : agree} |-> IF x = v THEN i ELSE ProductOf(i)])

\* create, write and unlink of product.product; a mapping to what is deleted is emptied.
Edit(i, value) ==
    LET now == [item EXCEPT ![i] = value]
        dead == {x \in External : mapped[x] = i \/ (mapped[x] = In[i] /\ \A j \in Item : In[j] = In[i] => ~Exists(now[j]))}
    IN  /\ Act /\ item[i] \notin {Gone, value} /\ value # New
        /\ item[i] = New => value # Gone
        /\ item' = now
        /\ mapped' = IF value = Gone THEN [x \in External |-> IF x \in dead THEN Nothing ELSE mapped[x]] ELSE mapped
        /\ Inform(Nothing, {<<"item", i>>} \cup {Map(x) : x \in {y \in dead : value = Gone}})
        /\ hand' = IF value = Gone THEN hand \cup {t \in Template : t \in dead \/ Variants(t) \cap dead # {}} ELSE hand
        /\ UNCHANGED <<store, ref, queue, doing>>

RequeueImport(ids) ==
    /\ Act /\ ids \in failed
    /\ failed' = failed \ {ids} /\ jobs' = jobs \cup {ids}
    /\ UNCHANGED <<store, tables, owed, doing, changed, hand>>

\* The staff of the store adds, changes or deletes a variant.
StoreEdit(v, value) ==
    /\ Act /\ store[v] \notin {Gone, value} /\ value # New
    /\ store[v] = New => value # Gone
    /\ store' = [store EXCEPT ![v] = value]
    /\ UNCHANGED <<tables, queue, doing, changed, hand>>

-----------------------------------------------------------------------------

MatchInit ==
    /\ store \in Stores /\ item \in Stocks
    /\ ref = [x \in External |-> New] /\ mapped = [x \in External |-> Nothing]
    /\ jobs = {} /\ failed = {} /\ owed = {} /\ hand = {}
    /\ doing = [w \in Importer |-> Idle] /\ changed = [w \in Importer |-> {}]
    /\ acts = 0

MatchUser ==
    \/ \E ids \in SUBSET Template, remove \in BOOLEAN : Ask(ids, remove)
    \/ \E t \in Template :
        \/ RunMap(t) \/ (\E perform \in BOOLEAN : Resolve(t, perform))
        \/ \E p \in Product \cup {Nothing} : MapTemplate(t, p)
    \/ \E v \in Variant, i \in Item \cup {Nothing} : MapVariant(v, i)
    \/ \E i \in Item, value \in Value : Edit(i, value)
    \/ \E ids \in failed : RequeueImport(ids)

Staff == \E v \in Variant, value \in Value : StoreEdit(v, value)

Work(w) == (\E ids \in jobs : Begin(w, ids)) \/ Finish(w)

MatchNext == MatchUser \/ Staff \/ \E w \in Importer : (Work(w) \/ Killed(w) \/ Unanswered(w))

\* Every worker goes on with its jobs.
MatchFairness == \A w \in Importer : WF_matchVars(Work(w))

MatchSpec == MatchInit /\ [][MatchNext]_matchVars /\ MatchFairness

-----------------------------------------------------------------------------
(* Properties *)

Visible == UNION (jobs \cup failed \cup {doing[w].ids : w \in Importer})

\* A template that was asked for is imported whole, or a job that waits, runs or has
\* failed has it: what fails in a block is neither lost nor taken for done.
Reported == owed \subseteq Visible

\* The variants of a template that is mapped are mapped to those of its product; all of
\* them, unless a job shows that the import has failed, or the store has none of them any
\* more: a matching that stops halfway keeps what it has mapped.  What users have mapped is
\* theirs until the next import.
WholeProduct ==
    \A t \in Template \ hand : mapped[t] # Nothing =>
        /\ \A v \in Variants(t) : mapped[v] # Nothing => In[mapped[v]] = mapped[t]
        /\ \/ t \in Visible \/ \A v \in Known(t) : mapped[v] # Nothing
           \/ \A v \in Known(t) : store[v] = Gone

\* No import takes a template from the product that it is mapped to, also when a user
\* has mapped it while the import was in progress.
ProductKept ==
    [][\A t \in Template : acts' = acts /\ mapped[t] # Nothing => mapped'[t] = mapped[t]]_matchVars

\* The failures of a block are tried again in smaller and smaller blocks, until they are
\* imported or fail alone.
ImportsEnd == <>[](jobs = {} /\ \A w \in Importer : Asleep(w))
=============================================================================
