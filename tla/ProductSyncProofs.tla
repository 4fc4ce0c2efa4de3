-------------------------- MODULE ProductSyncProofs --------------------------
(***************************************************************************)
(* Proofs about ProductSync, for all codes and contents, any number of     *)
(* transactions and any number of acts.                                    *)
(***************************************************************************)
EXTENDS ProductSync, FiniteSetTheorems, TLAPS

-----------------------------------------------------------------------------
(* Helpers *)

Awake == {w \in Worker : ~Asleep(w)}

\* A transaction in progress is not taken for none.
LEMMA ReadingAwake == ASSUME NEW d \in Reading PROVE d # Idle
<1>1. d.job \in Job
  BY DEF Reading
<1>2. DOMAIN d # DOMAIN Idle
  BY DEF Reading, Idle
<1> QED
  BY <1>2

LEMMA AwakeReading ==
    ASSUME TypeOK, NEW w \in Worker, ~Asleep(w)
    PROVE  /\ doing[w] \in Reading /\ doing[w].job \in Job
           /\ doing[w].seen \subseteq Job /\ doing[w].record \in [Code -> Record]
           /\ doing[w].template \in Content \cup {None}
           /\ doing[w].answer \in Content \cup Code \cup {None, Gone}
           /\ doing[w].step \in {"read", "looked", "gone", "sent"}
<1>1. doing[w] \in Reading
  BY DEF TypeOK, Asleep
<1> QED
  BY <1>1 DEF Reading

\* The fields of jobs.
LEMMA JobFields ==
    /\ ExportTemplate \in Job /\ ExportTemplate.does = "export" /\ ExportTemplate.code = None
    /\ \A c \in Code : /\ {ImportProduct(c), CreateProduct(c), UpdateProduct(c), DeleteProduct(c)} \subseteq Job
                       /\ ImportProduct(c).does = "import" /\ CreateProduct(c).does = "create"
                       /\ UpdateProduct(c).does = "update" /\ DeleteProduct(c).does = "delete"
                       /\ ImportProduct(c).code = c /\ CreateProduct(c).code = c
                       /\ UpdateProduct(c).code = c /\ DeleteProduct(c).code = c
  BY DEF Job, ExportTemplate, ImportProduct, CreateProduct, UpdateProduct, DeleteProduct

LEMMA JobKinds ==
    ASSUME NEW j \in Job
    PROVE  \/ j = ExportTemplate /\ j.does = "export"
           \/ j.does = "import" /\ j.code \in Code /\ j = ImportProduct(j.code)
           \/ j.does = "create" /\ j.code \in Code /\ j = CreateProduct(j.code)
           \/ j.does = "update" /\ j.code \in Code /\ j = UpdateProduct(j.code)
           \/ j.does = "delete" /\ j.code \in Code /\ j = DeleteProduct(j.code)
  BY DEF Job, ExportTemplate, ImportProduct, CreateProduct, UpdateProduct, DeleteProduct

\* AddJob keeps the jobs, and afterwards one of them, or of those seen, has the key.
LEMMA AddJobKeeps ==
    ASSUME NEW seen, NEW j
    PROVE  /\ jobs \subseteq AddJob(seen, j) /\ AddJob(seen, j) \subseteq jobs \cup {j}
           /\ \E k \in seen \cup AddJob(seen, j) : Key(k) = Key(j)
  BY DEF AddJob

\* Which jobs have the same key.
LEMMA SameKey ==
    ASSUME NEW k \in Job
    PROVE  /\ Key(k) = Key(ExportTemplate) => k = ExportTemplate
           /\ \A c \in Code :
                /\ Key(k) = Key(UpdateProduct(c)) => k = UpdateProduct(c)
                /\ Key(k) = Key(DeleteProduct(c)) => k = DeleteProduct(c)
                /\ Key(k) = Key(CreateProduct(c)) => k \in {CreateProduct(c), ImportProduct(c)}
                /\ Key(k) = Key(ImportProduct(c)) => k \in {CreateProduct(c), ImportProduct(c)}
<1>1. Key(k) = IF k.does = "create" THEN ImportProduct(k.code) ELSE k
  BY DEF Key
<1>2. Key(ExportTemplate) = ExportTemplate
  BY JobFields DEF Key
<1>3. ASSUME NEW c \in Code
      PROVE  /\ Key(UpdateProduct(c)) = UpdateProduct(c) /\ Key(DeleteProduct(c)) = DeleteProduct(c)
             /\ Key(CreateProduct(c)) = ImportProduct(c) /\ Key(ImportProduct(c)) = ImportProduct(c)
  BY JobFields DEF Key
<1>4. CASE k.does = "create"
  <2>1. k.code \in Code /\ k = CreateProduct(k.code) /\ Key(k) = ImportProduct(k.code)
    BY <1>1, <1>4, JobKinds
  <2>2. Key(k).does = "import" /\ Key(k).code = k.code
    BY <2>1, JobFields
  <2> QED
    BY <1>2, <1>3, <2>1, <2>2, JobFields
<1>5. CASE k.does # "create"
  BY <1>1, <1>2, <1>3, <1>5
<1> QED
  BY <1>4, <1>5

\* No state of a record is none.
LEMMA NoneNoState == None \notin HasTemplate /\ None \notin HasReference /\ HasTemplate \subseteq Record
  BY DEF None, HasTemplate, HasReference, Record

LEMMA ExcusesType ==
    ASSUME NEW condition, NEW excuse \in Excuse, excused \in Excuse \cup {None},
           Excuses(condition, excuse)
    PROVE  excused' \in Excuse \cup {None}
  BY DEF Excuses

LEMMA TouchType ==
    ASSUME TypeOK, NEW by, NEW written \in SUBSET Row
    PROVE  Touch(by, written) \in [Worker -> SUBSET Row]
  BY DEF TypeOK, Touch

LEMMA EndType ==
    ASSUME TypeOK, NEW w \in Worker, NEW written \in SUBSET Row, End(w, written)
    PROVE  /\ doing' \in [Worker -> Reading \cup {Idle}] /\ changed' \in [Worker -> SUBSET Row]
           /\ \A v \in Worker : v # w => doing'[v] = doing[v]
           /\ doing'[w] = Idle
<1>1. changed' \in [Worker -> SUBSET Row]
  BY TouchType DEF End
<1> QED
  BY <1>1 DEF End, TypeOK

LEMMA WrittenRows == ASSUME NEW d, Subject(d) \in Code PROVE Written(d) \subseteq Row
  BY DEF Written, Row

-----------------------------------------------------------------------------
(* Type correctness *)

\* There is a template once a transaction has seen one or its export was asked for.
TemplateStays ==
    /\ ExportTemplate \in jobs => template # None
    /\ \A w \in Awake : doing[w].template # None \/ doing[w].job = ExportTemplate => template # None

\* What an export has found, sent or is about to drop has a code.
AnswerCode ==
    \A w \in Awake : doing[w].job = ExportTemplate =>
        /\ doing[w].answer \in Code \cup {None}
        /\ doing[w].step \in {"gone", "sent"} => doing[w].answer \in Code

TypeInv == TypeOK /\ TemplateStays /\ AnswerCode

\* The end of a transaction, whose job may wait again.
LEMMA EndTypeInv ==
    ASSUME TypeInv, NEW w \in Awake, NEW written \in SUBSET Row, End(w, written),
           template' \in Content \cup {None}, template # None => template' # None,
           twin' \in BOOLEAN, record' \in [Code -> Record], recent' \in SUBSET Code,
           (\E c \in Code : record'[c] \in HasTemplate) => template' # None,
           jobs' \in SUBSET Job, ExportTemplate \in jobs' => template' # None,
           product' = product, hooks' = hooks, acts' \in 0..MaxActs, raced' \in BOOLEAN,
           excused' \in Excuse \cup {None}
    PROVE  TypeInv'
<1>1. w \in Worker
  BY DEF Awake
<1>2. doing' \in [Worker -> Reading \cup {Idle}] /\ changed' \in [Worker -> SUBSET Row]
  BY <1>1, EndType DEF TypeInv
<1>3. TypeOK'
  BY <1>2 DEF TypeInv, TypeOK
<1>4. \A v \in Awake' : v \in Awake /\ doing'[v] = doing[v]
  BY <1>1, EndType DEF Awake, Asleep, TypeInv
<1>5. TemplateStays' /\ AnswerCode'
  BY <1>4 DEF TemplateStays, AnswerCode, TypeInv
<1> QED
  BY <1>3, <1>5 DEF TypeInv

\* A step that leaves the transactions in progress as they are.
LEMMA OutsideTypeInv ==
    ASSUME TypeInv, doing' = doing, changed' \in [Worker -> SUBSET Row],
           template' \in Content \cup {None}, template # None => template' # None,
           twin' \in BOOLEAN, record' \in [Code -> Record], recent' \in SUBSET Code,
           (\E c \in Code : record'[c] \in HasTemplate) => template' # None,
           jobs' \in SUBSET Job, ExportTemplate \in jobs' => template' # None,
           product' \in [Code -> Content \cup {None, Gone}],
           hooks' \in SUBSET (Code \X {"update", "delete"}),
           acts' \in 0..MaxActs, raced' \in BOOLEAN, excused' \in Excuse \cup {None}
    PROVE  TypeInv'
<1>1. TypeOK'
  BY DEF TypeInv, TypeOK
<1>2. Awake' = Awake
  BY DEF Awake, Asleep
<1>3. TemplateStays' /\ AnswerCode'
  BY <1>2 DEF TemplateStays, AnswerCode, TypeInv
<1> QED
  BY <1>1, <1>3 DEF TypeInv

LEMMA UserTypeInv ==
    ASSUME TypeInv, User \/ Receive \/ GapEnds \/ (\E h \in hooks : LoseHook(h)) PROVE TypeInv'
<1> USE DEF TypeInv
<1>1. Act => acts' \in 0..MaxActs
  BY ActsAssumption DEF Act, TypeOK
<1>2. ASSUME NEW v \in Content, NEW stale \in BOOLEAN, Write(v, stale) PROVE TypeInv'
  <2>1. changed' \in [Worker -> SUBSET Row]
    BY <1>2, TouchType DEF Write, Row
  <2>2. excused' \in Excuse \cup {None}
    BY <1>2, ExcusesType DEF Write, Excuse, TypeOK
  <2>3. jobs' \subseteq Job
    <3>1. Trigger \subseteq jobs \cup {ExportTemplate}
      BY AddJobKeeps DEF Trigger
    <3>2. jobs' = jobs \/ jobs' = Trigger
      BY <1>2 DEF Write
    <3>3. ExportTemplate \in Job
      BY JobFields
    <3> QED
      BY <3>1, <3>2, <3>3 DEF TypeOK
  <2>4. v # None
    BY CodesAssumption
  <2> QED
    BY <1>1, <1>2, <2>1, <2>2, <2>3, <2>4, OutsideTypeInv DEF Write, TypeOK
<1>3. ASSUME NEW c \in Code, NEW v \in Content, StoreEdit(c, v) \/ StoreCreate(c, v) \/ StoreDelete(c)
      PROVE  TypeInv'
  <2>1. UNCHANGED <<doing, changed, rows, jobs, excused>> /\ Act
    BY <1>3 DEF StoreEdit, StoreCreate, StoreDelete
  <2>2. product' \in [Code -> Content \cup {None, Gone}] /\ raced' \in BOOLEAN
    BY <1>3 DEF StoreEdit, StoreCreate, StoreDelete, TypeOK
  <2>3. hooks' \subseteq Code \X {"update", "delete"}
    BY <1>3 DEF StoreEdit, StoreCreate, StoreDelete, TypeOK
  <2> QED
    BY <1>1, <2>1, <2>2, <2>3, OutsideTypeInv DEF rows, TypeOK, TemplateStays
<1>4. ASSUME NEW h \in hooks, LoseHook(h) PROVE TypeInv'
  <2>1. excused' \in Excuse \cup {None}
    BY <1>4, ExcusesType DEF LoseHook, Excuse, TypeOK
  <2> QED
    BY <1>1, <1>4, <2>1, OutsideTypeInv DEF LoseHook, rows, TypeOK, TemplateStays
<1>5. CASE GapEnds
  BY <1>5, OutsideTypeInv DEF GapEnds, bounds, TypeOK, TemplateStays
<1>6. ASSUME NEW c \in Code, UpdateHook(c) PROVE TypeInv'
  <2>1. excused' \in Excuse \cup {None}
    BY <1>6, ExcusesType DEF UpdateHook, Excuse, TypeOK
  <2>2. /\ changed' \in [Worker -> SUBSET Row] /\ record' \in [Code -> Record]
        /\ \A k \in Code : record'[k] \in {record[k], None}
    BY <1>6, TouchType DEF UpdateHook, Row, TypeOK, Record
  <2>7. (\E k \in Code : record'[k] \in HasTemplate) => template # None
    BY <2>2, NoneNoState DEF TypeOK
  <2>3. jobs' \subseteq jobs \cup {UpdateProduct(c), CreateProduct(c)}
    BY <1>6, AddJobKeeps DEF UpdateHook
  <2>4. UpdateProduct(c) \in Job /\ CreateProduct(c) \in Job
    BY JobFields
  <2>5. ExportTemplate \notin {UpdateProduct(c), CreateProduct(c)}
    BY DEF ExportTemplate, UpdateProduct, CreateProduct
  <2>6. jobs' \subseteq Job /\ (ExportTemplate \in jobs' => ExportTemplate \in jobs)
    BY <2>3, <2>4, <2>5 DEF TypeOK
  <2> QED
    BY <1>6, <2>1, <2>2, <2>6, <2>7, OutsideTypeInv DEF UpdateHook, TypeOK, TemplateStays
<1>7. ASSUME NEW c \in Code, DeleteHook(c) PROVE TypeInv'
  <2>1. excused' \in Excuse \cup {None}
    BY <1>7, ExcusesType DEF DeleteHook, Excuse, TypeOK
  <2>2. jobs' \subseteq jobs \cup {DeleteProduct(c)}
    BY <1>7, AddJobKeeps DEF DeleteHook
  <2>3. jobs' \subseteq Job /\ (ExportTemplate \in jobs' => ExportTemplate \in jobs)
    BY <2>2, JobFields DEF TypeOK
  <2> QED
    BY <1>7, <2>1, <2>3, OutsideTypeInv DEF DeleteHook, rows, TypeOK, TemplateStays
<1>8. CASE User
  <2>1. CASE \E v \in Content, stale \in BOOLEAN : Write(v, stale)
    BY <1>2, <2>1
  <2>2. CASE \E c \in Code, v \in Content : StoreEdit(c, v) \/ StoreCreate(c, v)
    BY <1>3, <2>2
  <2>3. CASE \E c \in Code : StoreDelete(c)
    <3>1. PICK c \in Code : StoreDelete(c)
      BY <2>3
    <3>2. \E v \in Content : TRUE
      BY <3>1 DEF StoreDelete, Live, TypeOK
    <3> QED
      BY <1>3, <3>1, <3>2
  <2> QED
    BY <1>8, <2>1, <2>2, <2>3 DEF User
<1>9. CASE Receive
  BY <1>6, <1>7, <1>9 DEF Receive, ReceiveHook
<1> QED
  BY <1>4, <1>5, <1>8, <1>9

\* The snapshot of a job.
LEMMA BeginTypeInv ==
    ASSUME TypeInv, NEW w \in Worker, NEW j \in jobs, Begin(w, j) PROVE TypeInv'
<1> DEFINE d == [job |-> j, template |-> template, twin |-> twin, record |-> record,
                 recent |-> recent, seen |-> IF j = ExportTemplate THEN jobs' ELSE {}, step |-> "read",
                 answer |-> IF j = ExportTemplate THEN None ELSE product[j.code]]
<1>1. j \in Job /\ doing' = [doing EXCEPT ![w] = d] /\ jobs' = jobs \ {j} /\ jobs' \subseteq Job
  BY DEF Begin, TypeInv, TypeOK
<1>2. j # ExportTemplate => product[j.code] \in Content \cup {None, Gone}
  BY <1>1, JobKinds DEF TypeInv, TypeOK
<1>3. d.seen \in SUBSET Job
  BY <1>1
<1>4. d \in Reading
  BY <1>1, <1>2, <1>3 DEF Reading, TypeInv, TypeOK
<1>5. excused' \in Excuse \cup {None}
  BY ExcusesType DEF Begin, Excuse, TypeInv, TypeOK
<1>6. doing' \in [Worker -> Reading \cup {Idle}]
  BY <1>1, <1>4 DEF TypeInv, TypeOK
<1>7. /\ doing'[w] = d /\ d.job = j /\ d.template = template /\ d.step = "read"
      /\ j = ExportTemplate => d.answer = None
      /\ \A v \in Worker : v # w => doing'[v] = doing[v]
  BY <1>1 DEF TypeInv, TypeOK
<1> HIDE DEF d
<1>8. TypeOK'
  BY <1>1, <1>5, <1>6 DEF Begin, rows, TypeInv, TypeOK
<1>9. TemplateStays'
  BY <1>1, <1>7 DEF TemplateStays, Awake, Asleep, TypeInv, Begin, rows
<1>10. AnswerCode'
  BY <1>1, <1>7 DEF AnswerCode, Awake, Asleep, TypeInv
<1> QED
  BY <1>8, <1>9, <1>10 DEF TypeInv

\* A step of an export has this effect.
Stepped(w, from, to, answer) ==
    /\ w \in Awake /\ doing[w].job = ExportTemplate /\ doing[w].step = from
    /\ \A v \in Worker : v # w => doing'[v] = doing[v]
    /\ doing' \in [Worker -> Reading \cup {Idle}]
    /\ doing'[w] \in Reading /\ doing'[w].job = ExportTemplate
    /\ doing'[w].step = to /\ doing'[w].answer = answer
    /\ doing'[w].template = doing[w].template /\ doing'[w].record = doing[w].record
    /\ doing'[w].seen = doing[w].seen

LEMMA StepEffect ==
    ASSUME TypeInv, NEW w \in Worker, NEW from, NEW to \in {"looked", "gone", "sent"},
           NEW answer \in Code \cup {None}, Step(w, from, to, answer)
    PROVE  Stepped(w, from, to, answer)
<1>1. w \in Awake /\ doing[w].job.does = "export" /\ doing[w].step = from
  BY DEF Step, Does, Awake
<1>2. doing[w] \in Reading /\ doing[w].job \in Job
  BY <1>1, AwakeReading DEF Awake, TypeInv
<1>3. doing[w].job = ExportTemplate
  BY <1>1, <1>2, JobKinds
<1>4. doing' = [doing EXCEPT ![w] = [doing[w] EXCEPT !.step = to, !.answer = answer]]
  BY DEF Step
<1>5. [doing[w] EXCEPT !.step = to, !.answer = answer] \in Reading
  BY <1>2 DEF Reading
<1>6. doing'[w] = [doing[w] EXCEPT !.step = to, !.answer = answer]
  BY <1>4 DEF TypeInv, TypeOK
<1>7. /\ doing'[w].job = doing[w].job /\ doing'[w].step = to /\ doing'[w].answer = answer
      /\ doing'[w].template = doing[w].template /\ doing'[w].record = doing[w].record
      /\ doing'[w].seen = doing[w].seen
  BY <1>2, <1>6 DEF Reading
<1>8. /\ doing' \in [Worker -> Reading \cup {Idle}]
      /\ \A v \in Worker : v # w => doing'[v] = doing[v]
  BY <1>4, <1>5 DEF TypeInv, TypeOK
<1> QED
  BY <1>1, <1>3, <1>5, <1>6, <1>7, <1>8 DEF Stepped

LEMMA StepTypeInv ==
    ASSUME TypeInv, NEW w \in Worker, NEW from, NEW to \in {"looked", "gone", "sent"},
           NEW answer \in Code \cup {None}, Step(w, from, to, answer),
           to # "looked" => answer \in Code,
           product' \in [Code -> Content \cup {None, Gone}],
           hooks' \in SUBSET (Code \X {"update", "delete"}),
           UNCHANGED <<rows, jobs, changed, bounds>>
    PROVE  TypeInv'
<1>1. Stepped(w, from, to, answer)
  BY StepEffect
<1>2. TypeOK'
  BY <1>1 DEF Stepped, TypeInv, TypeOK, rows, bounds
<1>3. \A v \in Awake' : v \in Awake /\ doing'[v].template = doing[v].template /\ doing'[v].job = doing[v].job
  BY <1>1 DEF Stepped, Awake, Asleep
<1>4. TemplateStays'
  BY <1>3 DEF TemplateStays, TypeInv, rows
<1>5. AnswerCode'
  BY <1>1 DEF Stepped, AnswerCode, Awake, Asleep, TypeInv
<1> QED
  BY <1>2, <1>4, <1>5 DEF TypeInv

\* What Look finds: a product that is known and is there or not, or what has the references.
LEMMA LookFinds ==
    ASSUME NEW w \in Worker, Look(w)
    PROVE  \E to \in {"looked", "gone"}, answer \in Code \cup {None} :
              /\ Step(w, "read", to, answer)
              /\ to = "gone" => answer \in Code
              /\ Known(doing[w]) # {} => answer \in Known(doing[w])
              /\ answer = None => Live = {}
<1>1. Live \subseteq Code /\ \A c \in Code : c # None
  BY CodesAssumption DEF Live
<1>2. ASSUME NEW c \in Known(doing[w]), Step(w, "read", Validated(c), c)
      PROVE  \E to \in {"looked", "gone"}, answer \in Code \cup {None} :
                /\ Step(w, "read", to, answer)
                /\ to = "gone" => answer \in Code
                /\ Known(doing[w]) # {} => answer \in Known(doing[w])
                /\ answer = None => Live = {}
  BY <1>1, <1>2 DEF Known, Validated
<1>3. ASSUME Known(doing[w]) = {}, NEW found \in Existing(doing[w]), Step(w, "read", "looked", found)
      PROVE  \E to \in {"looked", "gone"}, answer \in Code \cup {None} :
                /\ Step(w, "read", to, answer)
                /\ to = "gone" => answer \in Code
                /\ Known(doing[w]) # {} => answer \in Known(doing[w])
                /\ answer = None => Live = {}
  <2>1. found \in Code \cup {None} /\ (found = None => Live = {})
    BY <1>1, <1>3 DEF Existing
  <2> QED
    BY <1>3, <2>1
<1> QED
  BY <1>2, <1>3 DEF Look

LEMMA TargetCodes == ASSUME NEW d PROVE Target(d) \subseteq Code /\ Live \subseteq Code
  BY DEF Target, Live

\* What a transaction is about when it is ready to end.
LEMMA SubjectCode ==
    ASSUME TypeInv, NEW w \in Awake, Ready(doing[w]) PROVE Subject(doing[w]) \in Code
<1>1. doing[w].job \in Job
  BY AwakeReading DEF TypeInv, Awake
<1>2. CASE doing[w].job = ExportTemplate
  BY <1>2 DEF Subject, Ready, AnswerCode, TypeInv
<1>3. CASE doing[w].job # ExportTemplate
  BY <1>1, <1>3, JobKinds DEF Subject
<1> QED
  BY <1>2, <1>3

\* What a transaction asks for again was its job.
LEMMA OwnJob ==
    ASSUME TypeInv, NEW w \in Awake
    PROVE  /\ w \in Worker /\ doing[w].job \in Job
           /\ doing[w].job = ExportTemplate => template # None
           /\ doing[w].template # None => template # None
  BY AwakeReading DEF Awake, TypeInv, TemplateStays

\* What an import writes is the content of a product.
LEMMA ImportedContent ==
    ASSUME TypeInv, NEW w \in Awake, doing[w].answer \in Content
    PROVE  Imported(doing[w]) \in Content \cup {None} /\ Imported(doing[w]) # None
<1>1. doing[w].answer # None
  BY CodesAssumption
<1>2. template \in Content \cup {None}
  BY DEF TypeInv, TypeOK
<1>3. CASE doing[w].answer = doing[w].template
  BY <1>1, <1>2, <1>3, OwnJob DEF Imported
<1>4. CASE doing[w].answer # doing[w].template
  BY <1>1, <1>4 DEF Imported
<1> QED
  BY <1>3, <1>4

LEMMA DoesAwake ==
    ASSUME NEW w \in Worker, NEW kinds, Does(w, kinds) PROVE w \in Awake /\ doing[w].job.does \in kinds
  BY DEF Does, Awake

\* What an import writes.
LEMMA ImportOneType ==
    ASSUME TypeInv, NEW w \in Awake, doing[w].answer \in Content, ImportOne(doing[w])
    PROVE  /\ template' \in Content \cup {None} /\ template' # None /\ twin' \in BOOLEAN
           /\ record' \in [Code -> Record] /\ jobs' = jobs /\ excused' \in Excuse \cup {None}
<1>1. TypeOK /\ {None, "mapped", "other"} \subseteq Record
  BY DEF TypeInv, Record, HasTemplate, HasReference
<1>2. template' \in Content \cup {None} /\ template' # None
  <2>1. CASE Second(doing[w])
    BY <1>1, <2>1 DEF ImportOne, Second, TypeOK
  <2>2. CASE ~Second(doing[w])
    BY <2>2, ImportedContent DEF ImportOne
  <2> QED
    BY <2>1, <2>2
<1>3. twin' \in BOOLEAN /\ jobs' = jobs
  BY <1>1 DEF ImportOne, AfterImport, Second, Matched, TypeOK
<1>4. record' \in [Code -> Record]
  BY <1>1 DEF ImportOne, TypeOK
<1>5. excused' \in Excuse \cup {None}
  BY <1>1, ExcusesType DEF ImportOne, Excuse, TypeOK
<1> QED
  BY <1>2, <1>3, <1>4, <1>5

\* A commit.
LEMMA CommitTypeInv ==
    ASSUME TypeInv, NEW w \in Worker,
           \/ CommitExport(w) \/ CommitGone(w) \/ CommitFound(w)
           \/ CommitImport(w) \/ CommitCreate(w) \/ CommitDelete(w)
    PROVE  TypeInv'
<1>1. w \in Awake
  BY DoesAwake
     DEF CommitExport, CommitGone, CommitFound, CommitImport, CommitCreate, CommitDelete, Commit
<1>2. End(w, Written(doing[w])) /\ UNCHANGED <<product, hooks, acts, raced>>
  BY DEF CommitExport, CommitGone, CommitFound, CommitImport, CommitCreate, CommitDelete, Commit
<1>3. Written(doing[w]) \in SUBSET Row
  <2>1. Ready(doing[w])
    BY DEF CommitExport, CommitGone, CommitFound, CommitImport, CommitCreate, CommitDelete, Commit
  <2> QED
    BY <1>1, <2>1, SubjectCode, WrittenRows
<1>4. /\ TypeOK /\ (ExportTemplate \in jobs => template # None)
      /\ record \in [Code -> Record] /\ recent \in SUBSET Code
      /\ {None, "mapped", "found", "alone", "other"} \subseteq Record
      /\ "alone" \notin HasTemplate /\ "other" \notin HasTemplate
  BY DEF TypeInv, TemplateStays, TypeOK, Record, HasTemplate, HasReference
<1>5. doing[w] \in Reading /\ doing[w].job \in Job
  BY <1>1, <1>4, AwakeReading DEF Awake
<1>6. CASE CommitExport(w)
  <2>1. doing[w].job = ExportTemplate
    BY <1>5, <1>6, DoesAwake, JobKinds DEF CommitExport, Commit
  <2>2. template # None
    BY <1>1, <2>1, OwnJob
  <2>3. doing[w].answer \in Code
    BY <1>1, <1>6, <2>1 DEF CommitExport, AnswerCode, TypeInv
  <2>4. /\ record' \in [Code -> Record] /\ recent' \in SUBSET Code
        /\ UNCHANGED <<template, twin, jobs, excused>>
    BY <1>4, <1>6, <2>3 DEF CommitExport
  <2> QED
    BY <1>1, <1>2, <1>3, <1>4, <2>2, <2>4, EndTypeInv DEF TypeOK
<1>7. CASE CommitGone(w)
  <2>1. doing[w].job = ExportTemplate
    BY <1>5, <1>7, DoesAwake, JobKinds DEF CommitGone, Commit
  <2>2. template # None
    BY <1>1, <2>1, OwnJob
  <2>3. jobs' \subseteq jobs \cup {ExportTemplate} /\ ExportTemplate \in Job
    BY <1>7, AddJobKeeps, JobFields DEF CommitGone
  <2>4. record' \in [Code -> Record] /\ UNCHANGED <<template, twin, recent, excused>>
    BY <1>4, <1>7 DEF CommitGone
  <2> QED
    BY <1>1, <1>2, <1>3, <1>4, <2>2, <2>3, <2>4, EndTypeInv DEF TypeOK
<1>8. CASE CommitFound(w)
  <2>1. doing[w].job = ExportTemplate
    <3>1. Does(w, {"export"})
      BY <1>8 DEF CommitFound, Commit
    <3> QED
      BY <1>5, <3>1, JobKinds DEF Does
  <2>2. template # None
    BY <1>1, <2>1, OwnJob
  <2>3. doing[w].answer \in Code
    BY <1>8 DEF CommitFound
  <2>4. jobs' \subseteq jobs \cup {ImportProduct(doing[w].answer)}
    <3>1. jobs' = AddJob(doing[w].seen, ImportProduct(doing[w].answer))
      BY <1>8 DEF CommitFound
    <3> QED
      BY <3>1, AddJobKeeps
  <2>5. jobs' \subseteq Job
    BY <1>4, <2>3, <2>4, JobFields DEF TypeOK
  <2>6. /\ record' \in [Code -> Record] /\ recent' \in SUBSET Code
        /\ UNCHANGED <<template, twin, excused>>
    BY <1>4, <1>8, <2>3 DEF CommitFound
  <2> QED
    BY <1>1, <1>2, <1>3, <1>4, <2>2, <2>5, <2>6, EndTypeInv DEF TypeOK
<1>9. CASE CommitImport(w)
  <2>1. doing[w].answer \in Content /\ recent' = recent
    BY <1>9 DEF CommitImport
  <2>2. CASE ImportOne(doing[w])
    BY <1>1, <1>2, <1>3, <1>4, <2>1, <2>2, ImportOneType, EndTypeInv DEF TypeOK
  <2>3. CASE UNCHANGED <<template, twin, record, jobs, excused>>
    BY <1>1, <1>2, <1>3, <1>4, <2>1, <2>3, EndTypeInv DEF TypeOK
  <2> QED
    BY <1>9, <2>2, <2>3 DEF CommitImport
<1>10. CASE CommitCreate(w)
  <2>1. doing[w].job.does = "create" /\ doing[w].job.code \in Code
    BY <1>5, <1>10, DoesAwake, JobKinds DEF CommitCreate, Commit
  <2>2. doing[w].answer \in Content
    BY <1>10, <2>1 DEF CommitCreate, Drops, Importable
  <2>3. recent' \in SUBSET Code
    BY <1>4, <1>10 DEF CommitCreate
  <2>4. CASE ImportOne(doing[w])
    BY <1>1, <1>2, <1>3, <1>4, <2>2, <2>3, <2>4, ImportOneType, EndTypeInv DEF TypeOK
  <2>5. CASE /\ record' = [record EXCEPT ![doing[w].job.code] = "alone"]
             /\ UNCHANGED <<template, twin, jobs, excused>>
    <3>1. record' \in [Code -> Record] /\ \A c \in Code : record'[c] \in {record[c], "alone"}
      BY <1>4, <2>1, <2>5
    <3> QED
      BY <1>1, <1>2, <1>3, <1>4, <2>3, <2>5, <3>1, EndTypeInv DEF TypeOK
  <2> QED
    BY <1>10, <2>4, <2>5 DEF CommitCreate
<1>11. CASE CommitDelete(w)
  <2>1. /\ record' = [record EXCEPT ![doing[w].job.code] = None]
        /\ UNCHANGED <<template, twin, recent, jobs, excused>>
    BY <1>11 DEF CommitDelete
  <2>2. record' \in [Code -> Record] /\ \A c \in Code : record'[c] \in {record[c], None}
    BY <1>4, <2>1
  <2> QED
    BY <1>1, <1>2, <1>3, <1>4, <2>1, <2>2, NoneNoState, EndTypeInv DEF TypeOK
<1> QED
  BY <1>6, <1>7, <1>8, <1>9, <1>10, <1>11

\* An end that writes nothing.
LEMMA EmptyEndTypeInv ==
    ASSUME TypeInv, NEW w \in Worker,
           Drop(w) \/ Refused(w) \/ Fails(w) \/ (\E again \in BOOLEAN : Abort(w, again))
    PROVE  TypeInv'
<1>1. w \in Awake
  BY DoesAwake DEF Drop, Refused, Fails, Abort, Awake
<1>2. /\ End(w, {}) /\ UNCHANGED <<product, hooks, raced>> /\ UNCHANGED rows
      /\ jobs' \in {jobs, jobs \cup {doing[w].job}}
  BY DEF Drop, Refused, Fails, Abort
<1>3. TypeOK /\ (ExportTemplate \in jobs => template # None)
  BY DEF TypeInv, TemplateStays
<1>4. acts' \in 0..MaxActs
  <2>1. acts' = acts \/ Act
    BY DEF Drop, Refused, Fails, Abort
  <2> QED
    BY <1>3, <2>1, ActsAssumption DEF Act, TypeOK
<1>5. excused' \in Excuse \cup {None}
  <2>1. \E condition \in BOOLEAN, excuse \in Excuse : Excuses(condition, excuse)
    BY DEF Drop, Refused, Fails, Abort, Excuse, Differ, Excuses
  <2> QED
    BY <1>3, <2>1, ExcusesType DEF TypeOK
<1>6. jobs' \subseteq Job /\ (ExportTemplate \in jobs' => template # None)
  BY <1>1, <1>2, <1>3, OwnJob DEF TypeOK
<1> QED
  BY <1>1, <1>2, <1>3, <1>4, <1>5, <1>6, EndTypeInv DEF TypeOK, rows

LEMMA ExportTypeInv ==
    ASSUME TypeInv, NEW w \in Worker,
           Look(w) \/ (\E c \in Code : SendNew(w, c) \/ SendUpdate(w, c))
    PROVE  TypeInv'
<1>1. CASE Look(w)
  <2>1. PICK to \in {"looked", "gone"}, answer \in Code \cup {None} :
           Step(w, "read", to, answer) /\ (to = "gone" => answer \in Code)
    BY <1>1, LookFinds
  <2>2. UNCHANGED <<rows, product, hooks, jobs, changed, bounds>>
    BY <1>1 DEF Look
  <2>3. product' \in [Code -> Content \cup {None, Gone}] /\ hooks' \in SUBSET (Code \X {"update", "delete"})
    BY <2>2 DEF TypeInv, TypeOK
  <2> HIDE DEF TypeInv, TypeOK
  <2>4. UNCHANGED <<rows, jobs, changed, bounds>>
    BY <2>2
  <2>5. to # "looked" => answer \in Code
    BY <2>1
  <2> QED
    BY <2>1, <2>3, <2>4, <2>5, StepTypeInv
<1>2. ASSUME NEW c \in Code, Send(w, c) PROVE TypeInv'
  <2>1. Step(w, "looked", "sent", c) /\ UNCHANGED <<rows, jobs, changed, bounds>>
    BY <1>2 DEF Send
  <2>2. w \in Awake
    BY <1>2 DEF Send, Does, Awake
  <2>3. doing[w].template \in Content \cup {None}
    BY <2>2, AwakeReading DEF TypeInv, Awake
  <2>4. product' \in [Code -> Content \cup {None, Gone}] /\ hooks' \in SUBSET (Code \X {"update", "delete"})
    BY <1>2, <2>3 DEF Send, TypeInv, TypeOK
  <2> QED
    BY <2>1, <2>4, StepTypeInv
<1> QED
  BY <1>1, <1>2 DEF SendNew, SendUpdate

\* Every variable keeps its type, a record is only mapped to a template that there is, and
\* there is a template once its export was asked for.
THEOREM TypeCorrect == Spec => []TypeInv
<1>1. Init => TypeInv
  <2> SUFFICES ASSUME Init PROVE TypeInv
    OBVIOUS
  <2>1. acts \in 0..MaxActs
    BY ActsAssumption DEF Init
  <2>5. raced \in BOOLEAN /\ excused \in Excuse \cup {None}
    BY DEF Init
  <2>3. /\ doing \in [Worker -> Reading \cup {Idle}] /\ changed \in [Worker -> SUBSET Row]
        /\ product \in [Code -> Content \cup {None, Gone}]
    BY DEF Init
  <2>6. record \in [Code -> Record] /\ \A c \in Code : record[c] \notin HasTemplate
    BY NoneNoState DEF Init, Record
  <2>4. TypeOK
    BY <2>1, <2>3, <2>5, <2>6 DEF Init, TypeOK
  <2>2. Awake = {}
    BY DEF Init, Awake, Asleep
  <2> QED
    BY <2>2, <2>4 DEF Init, TypeInv, TemplateStays, AnswerCode
<1>2. TypeInv /\ [Next]_vars => TypeInv'
  <2> SUFFICES ASSUME TypeInv, [Next]_vars PROVE TypeInv'
    OBVIOUS
  <2>1. ASSUME NEW w \in Worker, JobStep(w) PROVE TypeInv'
    BY <2>1, BeginTypeInv, ExportTypeInv, CommitTypeInv, EmptyEndTypeInv DEF JobStep, Export, Import
  <2>2. CASE Trouble
    BY <2>2, UserTypeInv, EmptyEndTypeInv DEF Trouble
  <2>3. CASE UNCHANGED vars
    BY <2>3 DEF vars, rows, bounds, TypeInv, TypeOK, TemplateStays, AnswerCode, Awake, Asleep
  <2> QED
    BY <2>1, <2>2, <2>3, UserTypeInv DEF Next
<1> QED
  BY <1>1, <1>2, PTL DEF Spec

-----------------------------------------------------------------------------
(* OneProduct: the product that an export creates is the only one *)

\* There is one product and one export at most, and an export that has found none still
\* has none beside it.
OneInv ==
    ~raced =>
        /\ \A c, d \in Live : c = d
        /\ \A v, w \in Exporting : v = w
        /\ \A w \in Exporting : doing[w].step = "looked" /\ doing[w].answer = None => Live = {}

LEMMA CodeNames == ASSUME NEW c \in Code \cup Content PROVE c # None /\ c # Gone /\ None # Gone
  BY CodesAssumption DEF None, Gone

\* A step that brings neither a product nor an export.
LEMMA OneKept ==
    ASSUME OneInv, raced => raced', Live' \subseteq Live,
           \A v \in Exporting' : v \in Exporting /\ doing'[v] = doing[v]
    PROVE  OneInv'
  BY DEF OneInv

LEMMA OneUser ==
    ASSUME TypeInv, OneInv, User PROVE OneInv'
<1>1. doing' = doing /\ Exporting' = Exporting
  BY DEF User, Write, StoreEdit, StoreCreate, StoreDelete, Exporting, Does, Asleep
<1>2. raced \in BOOLEAN /\ product \in [Code -> Content \cup {None, Gone}]
  BY DEF TypeInv, TypeOK
<1>3. ASSUME NEW v, NEW stale, Write(v, stale) PROVE OneInv'
  <2>1. Live' = Live /\ raced' = raced
    BY <1>3 DEF Write, Live
  <2> QED
    BY <1>1, <2>1, OneKept
<1>4. ASSUME NEW c \in Code, NEW v \in Content, StoreEdit(c, v) PROVE OneInv'
  <2>1. Live' = Live
    BY <1>2, <1>4, CodeNames DEF StoreEdit, Live
  <2> QED
    BY <1>1, <1>4, <2>1, OneKept DEF StoreEdit
<1>5. ASSUME NEW c \in Code, NEW v \in Content, StoreCreate(c, v) PROVE OneInv'
  <2>1. Live' \subseteq {c}
    BY <1>2, <1>5 DEF StoreCreate, Live
  <2>2. ~raced' => ~raced /\ Exporting' = {}
    BY <1>1, <1>2, <1>5 DEF StoreCreate
  <2> QED
    BY <2>1, <2>2 DEF OneInv
<1>6. ASSUME NEW c \in Code, StoreDelete(c) PROVE OneInv'
  <2>1. Live' \subseteq Live
    BY <1>2, <1>6 DEF StoreDelete, Live
  <2> QED
    BY <1>1, <1>6, <2>1, OneKept DEF StoreDelete
<1> QED
  BY <1>3, <1>4, <1>5, <1>6 DEF User

LEMMA OneHook ==
    ASSUME OneInv, Receive \/ GapEnds \/ (\E h \in hooks : LoseHook(h)) PROVE OneInv'
<1>1. UNCHANGED <<doing, product, raced>>
  BY DEF Receive, ReceiveHook, UpdateHook, DeleteHook, GapEnds, bounds, LoseHook
<1>2. Exporting' = Exporting /\ Live' = Live
  BY <1>1 DEF Exporting, Does, Asleep, Live
<1> QED
  BY <1>1, <1>2, OneKept

\* A transaction that ends has changed no product and leaves the others alone.
LEMMA OneEnd ==
    ASSUME TypeInv, OneInv, NEW w \in Worker, NEW written, End(w, written), UNCHANGED <<product, raced>>
    PROVE  OneInv'
<1>1. \A v \in Worker : doing'[v] = IF v = w THEN Idle ELSE doing[v]
  BY DEF End, TypeInv, TypeOK
<1>2. \A v \in Exporting' : v \in Exporting /\ doing'[v] = doing[v]
  BY <1>1 DEF Exporting, Does, Asleep
<1>3. Live' = Live
  BY DEF Live
<1> QED
  BY <1>2, <1>3, OneKept

LEMMA OneBegin ==
    ASSUME TypeInv, OneInv, NEW w \in Worker, NEW j \in jobs, Begin(w, j) PROVE OneInv'
<1>1. /\ \A v \in Worker : v # w => doing'[v] = doing[v]
      /\ doing'[w].job = j /\ doing'[w].step = "read"
  BY DEF Begin, TypeInv, TypeOK
<1>2. Live' = Live
  BY DEF Begin, Live
<1>3. j \in Job
  BY DEF TypeInv, TypeOK
<1>4. raced \in BOOLEAN
  BY DEF TypeInv, TypeOK
<1>5. \A v \in Exporting' : v # w => v \in Exporting /\ doing'[v] = doing[v]
  BY <1>1 DEF Exporting, Does, Asleep
<1>6. CASE j = ExportTemplate
  <2>1. ~raced' => ~raced /\ Exporting = {}
    BY <1>4, <1>6 DEF Begin
  <2> QED
    BY <1>1, <1>2, <1>5, <2>1 DEF OneInv
<1>7. CASE j # ExportTemplate
  <2>1. j.does # "export"
    BY <1>3, <1>7, JobKinds
  <2>2. w \notin Exporting'
    BY <1>1, <2>1 DEF Exporting, Does
  <2>3. raced => raced'
    BY <1>4 DEF Begin
  <2> QED
    BY <1>2, <1>5, <2>2, <2>3, OneKept
<1> QED
  BY <1>6, <1>7

LEMMA OneLook ==
    ASSUME TypeInv, OneInv, NEW w \in Worker, Look(w) PROVE OneInv'
<1>1. PICK to \in {"looked", "gone"}, found \in Code \cup {None} :
         Step(w, "read", to, found) /\ (found = None => Live = {})
  BY LookFinds
<1>2. w \in Awake /\ w \in Exporting
  BY <1>1 DEF Step, Does, Awake, Exporting
<1>4. Stepped(w, "read", to, found)
  BY <1>1, StepEffect
<1>5. found = None => Live = {}
  BY <1>1
<1>6. Live' = Live /\ raced' = raced
  BY DEF Look, Live, bounds
<1>7. \A v \in Exporting' : v \in Exporting /\ (v # w => doing'[v] = doing[v])
  BY <1>2, <1>4 DEF Stepped, Exporting, Does, Asleep
<1>8. doing'[w].answer = found
  BY <1>4 DEF Stepped
<1> QED
  BY <1>5, <1>6, <1>7, <1>8 DEF OneInv

LEMMA OneSend ==
    ASSUME TypeInv, OneInv, NEW w \in Worker, NEW c \in Code, Send(w, c) PROVE OneInv'
<1>1. Step(w, "looked", "sent", c) /\ c \in Target(doing[w]) /\ raced' = raced
  BY DEF Send, bounds
<1>2. w \in Exporting /\ doing[w].step = "looked"
  BY <1>1 DEF Step, Does, Exporting
<1>3. Stepped(w, "looked", "sent", c)
  BY <1>1, StepEffect
<1>4. \A v \in Exporting' : v \in Exporting /\ (v # w => doing'[v] = doing[v])
  BY <1>2, <1>3 DEF Stepped, Exporting, Does, Asleep
<1>5. doing'[w].step = "sent"
  BY <1>3 DEF Stepped
<1>6. Live' \subseteq Live \cup {c}
  BY DEF Send, Live, TypeInv, TypeOK
<1>7. ASSUME ~raced PROVE \A e, f \in Live' : e = f
  <2>1. CASE doing[w].answer = None
    BY <1>2, <1>6, <1>7, <2>1 DEF OneInv
  <2>2. CASE doing[w].answer # None
    <3>1. c \in Live
      BY <1>1, <2>2 DEF Target
    <3> QED
      BY <1>6, <1>7, <3>1 DEF OneInv
  <2> QED
    BY <2>1, <2>2
<1>8. ASSUME ~raced PROVE \A v \in Exporting' : v = w
  BY <1>2, <1>4, <1>8 DEF OneInv
<1> QED
  BY <1>1, <1>5, <1>7, <1>8 DEF OneInv

LEMMA EndStep ==
    ASSUME NEW w \in Worker,
           \/ CommitExport(w) \/ CommitGone(w) \/ CommitFound(w)
           \/ CommitImport(w) \/ CommitCreate(w) \/ CommitDelete(w)
           \/ Drop(w) \/ Refused(w) \/ Fails(w) \/ (\E again \in BOOLEAN : Abort(w, again))
    PROVE  (\E written : End(w, written)) /\ UNCHANGED <<product, hooks, raced>> /\ w \in Awake
<1>1. CASE Drop(w) \/ Refused(w) \/ Fails(w) \/ (\E again \in BOOLEAN : Abort(w, again))
  BY <1>1 DEF Drop, Refused, Fails, Abort, Awake, Does
<1>2. CASE \/ CommitExport(w) \/ CommitGone(w) \/ CommitFound(w)
           \/ CommitImport(w) \/ CommitCreate(w) \/ CommitDelete(w)
  <2>1. \E kinds : Commit(w, kinds)
    BY <1>2 DEF CommitExport, CommitGone, CommitFound, CommitImport, CommitCreate, CommitDelete
  <2> QED
    BY <2>1 DEF Commit, Awake, Does
<1> QED
  BY <1>1, <1>2

\* Unless two exports, or an export and a creation in the store, raced, there is one
\* product of the template: the search by reference of an export that was killed, and is
\* done again, finds what it has created.
THEOREM CreatesOnce == Spec => []OneProduct
<1>1. Init => OneInv
  BY DEF Init, OneInv, Live, Exporting, Does, Asleep
<1>2. TypeInv /\ OneInv /\ [Next]_vars => OneInv'
  <2> SUFFICES ASSUME TypeInv, OneInv, [Next]_vars PROVE OneInv'
    OBVIOUS
  <2>1. ASSUME NEW w \in Worker, \E written : End(w, written), UNCHANGED <<product, hooks, raced>>
        PROVE  OneInv'
    BY <2>1, OneEnd
  <2>2. ASSUME NEW w \in Worker, JobStep(w) PROVE OneInv'
    <3>1. ASSUME NEW j \in jobs, Begin(w, j) PROVE OneInv'
      BY <3>1, OneBegin
    <3>2. CASE Look(w)
      BY <3>2, OneLook
    <3>3. ASSUME NEW c \in Code, SendNew(w, c) \/ SendUpdate(w, c) PROVE OneInv'
      BY <3>3, OneSend DEF SendNew, SendUpdate
    <3>4. CASE \/ CommitExport(w) \/ CommitGone(w) \/ CommitFound(w)
               \/ CommitImport(w) \/ CommitCreate(w) \/ CommitDelete(w)
               \/ Drop(w) \/ Refused(w) \/ Fails(w)
      BY <2>1, <3>4, EndStep
    <3> QED
      BY <2>2, <3>1, <3>2, <3>3, <3>4 DEF JobStep, Export, Import
  <2>3. CASE Trouble
    BY <2>1, <2>3, EndStep, OneHook DEF Trouble
  <2>4. CASE UNCHANGED vars
    BY <2>4 DEF vars, bounds, OneInv, Live, Exporting, Does, Asleep
  <2> QED
    BY <2>2, <2>3, <2>4, OneUser, OneHook DEF Next
<1>3. OneInv => OneProduct
  <2> SUFFICES ASSUME OneInv, ~raced PROVE Cardinality(Live) <= 1
    BY DEF OneProduct
  <2>1. CASE Live = {}
    BY <2>1, FS_EmptySet
  <2>2. CASE Live # {}
    <3>1. PICK c \in Live : TRUE
      BY <2>2
    <3>2. Live = {c}
      BY <3>1 DEF OneInv
    <3> QED
      BY <3>2, FS_Singleton
  <2> QED
    BY <2>1, <2>2
<1> QED
  BY <1>1, <1>2, <1>3, TypeCorrect, PTL DEF Spec

-----------------------------------------------------------------------------
(* NothingLost: while nothing was dropped, two sides that differ will be compared again *)

Clean == excused = None

About(c) == {ImportProduct(c), CreateProduct(c), UpdateProduct(c), DeleteProduct(c)}

\* A webhook or a waiting job will look at the product.
Pending(c) ==
    \/ ExportTemplate \in jobs
    \/ <<c, "update">> \in hooks \/ <<c, "delete">> \in hooks
    \/ jobs \cap About(c) # {}

\* A transaction will, or begins again if it ends without.
Working(c) ==
    \E w \in Awake :
        \/ doing[w].job \in About(c)
        \/ doing[w].job = ExportTemplate /\ doing[w].step # "sent"

\* What a transaction has not seen of the template asks for another export, and a record
\* that it has seen can only have been dropped.  An export knows one product at most.
Snapshot(w) ==
    /\ doing[w].seen \subseteq jobs
    /\ \A c \in Code : record[c] \in {doing[w].record[c], None}
    /\ \A c, k \in Known(doing[w]) : c = k
    /\ doing[w].template = template \/ ExportTemplate \in jobs
    /\ (doing[w].job = ExportTemplate /\ doing[w].step \in {"looked", "sent"} /\ Known(doing[w]) # {})
          => doing[w].answer \in Known(doing[w])

\* What an export has sent is what both sides have, unless one changes again.
SentSync(w) ==
    doing[w].job = ExportTemplate /\ doing[w].step = "sent"
        => product[doing[w].answer] = template \/ Pending(doing[w].answer)

\* So is what an import has read.
ReadSync(w) ==
    doing[w].job.does \in {"import", "create", "update"} /\ ~Drops(doing[w])
        => doing[w].answer = product[doing[w].job.code] \/ Pending(doing[w].job.code)

\* So are the sides of a mapping, of which there is one.
OneRecord ==
    /\ \A c, k \in Code : record[c] \in HasTemplate /\ record[k] \in HasTemplate => c = k
    /\ \A c \in Code : record[c] # "other"

MappedSync ==
    \A c \in Code : record[c] \in HasTemplate /\ product[c] # template => Pending(c) \/ Working(c)

SyncInv ==
    Clean => /\ \A v, w \in Awake : v = w
             /\ \A w \in Awake : Snapshot(w) /\ SentSync(w) /\ ReadSync(w)
             /\ OneRecord /\ MappedSync

LEMMA ExcusesClean ==
    ASSUME NEW condition, NEW excuse \in Excuse, Excuses(condition, excuse), Clean'
    PROVE  Clean /\ ~condition
<1>1. excuse # None
  BY DEF Excuse, None
<1> QED
  BY <1>1 DEF Excuses, Clean

\* A job that is added, or that has the key of one waiting, will look at the product.
LEMMA AddedPending ==
    ASSUME TypeInv, NEW seen \in SUBSET jobs, NEW c \in Code, NEW j \in About(c), jobs' = AddJob(seen, j)
    PROVE  Pending(c)' /\ jobs \subseteq jobs'
<1>1. j \in Job
  BY JobFields DEF About
<1>2. jobs \subseteq Job
  BY DEF TypeInv, TypeOK
<1>3. jobs \subseteq jobs' /\ jobs' \subseteq jobs \cup {j}
  BY AddJobKeeps
<1>4. \E k \in seen \cup jobs' : Key(k) = Key(j)
  BY AddJobKeeps
<1>5. PICK k \in jobs' : Key(k) = Key(j)
  BY <1>3, <1>4
<1>6. k \in Job
  BY <1>1, <1>2, <1>3, <1>5
<1>7. k \in About(c)
  BY <1>5, <1>6, SameKey DEF About
<1> QED
  BY <1>3, <1>5, <1>7 DEF Pending, About

LEMMA TriggerPending ==
    ASSUME TypeInv, jobs' = Trigger PROVE ExportTemplate \in jobs' /\ jobs \subseteq jobs'
<1>1. jobs \subseteq jobs' /\ jobs' \subseteq jobs \cup {ExportTemplate}
  BY AddJobKeeps DEF Trigger
<1>2. PICK k \in jobs' : Key(k) = Key(ExportTemplate)
  <2>1. \E k \in jobs \cup AddJob(jobs, ExportTemplate) : Key(k) = Key(ExportTemplate)
    BY AddJobKeeps
  <2> QED
    BY <1>1, <2>1 DEF Trigger
<1>3. k \in Job
  BY <1>1, <1>2, JobFields DEF TypeInv, TypeOK
<1> QED
  BY <1>1, <1>2, <1>3, SameKey

\* The product is as it was, or will be looked at.
Undisturbed(c) ==
    \/ Pending(c)'
    \/ template' = template /\ product'[c] = product[c] /\ ~Pending(c)

\* A step that leaves the transactions in progress as they are, and the codes that they
\* and the record are about.
LEMMA SyncOutside ==
    ASSUME TypeInv, SyncInv, Clean, doing' = doing, jobs \subseteq jobs',
           \A c \in Code : record'[c] \in {record[c], None},
           template' = template \/ ExportTemplate \in jobs',
           \A c \in Code :
              \/ record[c] \in HasTemplate
              \/ \E w \in Awake : c \in {doing[w].job.code, doing[w].answer}
              => Undisturbed(c)
    PROVE  SyncInv'
<1>1. Awake' = Awake
  BY DEF Awake, Asleep
<1>2. ASSUME NEW w \in Awake PROVE Snapshot(w)'
  <2>1. Snapshot(w)
    BY DEF SyncInv
  <2> QED
    BY <2>1 DEF Snapshot, Known
<1>3. ASSUME NEW w \in Awake PROVE SentSync(w)'
  <2> SUFFICES ASSUME doing[w].job = ExportTemplate, doing[w].step = "sent"
               PROVE  (product[doing[w].answer] = template \/ Pending(doing[w].answer))'
    BY DEF SentSync
  <2>1. doing[w].answer \in Code
    BY DEF TypeInv, AnswerCode
  <2>2. product[doing[w].answer] = template \/ Pending(doing[w].answer)
    BY DEF SyncInv, SentSync
  <2>3. PICK c \in Code : c = doing[w].answer
    BY <2>1
  <2>4. Undisturbed(c)
    BY <2>3
  <2>5. doing'[w].answer = c
    BY <2>3
  <2>6. product'[c] = template' \/ Pending(c)'
    BY <2>2, <2>3, <2>4 DEF Undisturbed
  <2> QED
    BY <2>5, <2>6
<1>4. ASSUME NEW w \in Awake PROVE ReadSync(w)'
  <2> SUFFICES ASSUME doing[w].job.does \in {"import", "create", "update"}, ~Drops(doing[w])
               PROVE  (doing[w].answer = product[doing[w].job.code] \/ Pending(doing[w].job.code))'
    BY DEF ReadSync, Drops, Importable
  <2>1. doing[w].job.code \in Code
    BY AwakeReading, JobKinds DEF TypeInv, Awake
  <2>2. doing[w].answer = product[doing[w].job.code] \/ Pending(doing[w].job.code)
    BY DEF SyncInv, ReadSync
  <2>3. PICK c \in Code : c = doing[w].job.code
    BY <2>1
  <2>4. Undisturbed(c)
    BY <2>3
  <2>5. doing'[w] = doing[w]
    OBVIOUS
  <2>6. doing[w].answer = product'[c] \/ Pending(c)'
    BY <2>2, <2>3, <2>4 DEF Undisturbed
  <2> QED
    BY <2>3, <2>5, <2>6
<1>5. MappedSync'
  <2> SUFFICES ASSUME NEW c \in Code, record'[c] \in HasTemplate, product'[c] # template'
               PROVE  Pending(c)' \/ Working(c)'
    BY DEF MappedSync
  <2>1. record[c] \in HasTemplate /\ MappedSync
    BY NoneNoState DEF SyncInv
  <2>3. Undisturbed(c)
    BY <2>1
  <2>5. CASE ~Pending(c)'
    <3>1. product'[c] = product[c] /\ template' = template /\ ~Pending(c)
      BY <2>3, <2>5 DEF Undisturbed
    <3>2. Working(c)
      BY <2>1, <3>1 DEF MappedSync
    <3> QED
      BY <1>1, <3>2 DEF Working, About
  <2> QED
    BY <2>5
<1>6. OneRecord'
  <2>1. OneRecord
    BY DEF SyncInv
  <2>2. None # "other"
    BY DEF None
  <2> QED
    BY <2>1, <2>2, NoneNoState DEF OneRecord
<1> QED
  BY <1>1, <1>2, <1>3, <1>4, <1>5, <1>6 DEF SyncInv

\* What is as it was.
LEMMA SameUndisturbed ==
    ASSUME NEW c, template' = template, product'[c] = product[c], jobs \subseteq jobs',
           <<c, "update">> \in hooks => <<c, "update">> \in hooks',
           <<c, "delete">> \in hooks => <<c, "delete">> \in hooks'
    PROVE  Undisturbed(c)
<1>1. Pending(c) => Pending(c)'
  BY DEF Pending, About
<1> QED
  BY <1>1 DEF Undisturbed

LEMMA SyncUser ==
    ASSUME TypeInv, SyncInv, User, Clean' PROVE SyncInv'
<1>1. doing' = doing
  BY DEF User, Write, StoreEdit, StoreCreate, StoreDelete
<1>2. ASSUME NEW v, NEW stale, Write(v, stale) PROVE SyncInv'
  <2>1. Clean /\ ~stale
    <3>1. Excuses(stale, "stale key")
      BY <1>2 DEF Write
    <3> QED
      BY <3>1, ExcusesClean DEF Excuse
  <2>2. ExportTemplate \in jobs' /\ jobs \subseteq jobs'
    BY <1>2, <2>1, TriggerPending DEF Write
  <2>3. \A c : Undisturbed(c)
    BY <2>2 DEF Undisturbed, Pending
  <2>4. record' = record
    BY <1>2 DEF Write
  <2> QED
    BY <1>1, <2>1, <2>2, <2>3, <2>4, SyncOutside
<1>3. ASSUME NEW c \in Code, NEW v, StoreEdit(c, v) \/ StoreCreate(c, v) \/ StoreDelete(c)
      PROVE  SyncInv'
  <2>1. UNCHANGED <<template, record, jobs, excused>>
    BY <1>3 DEF StoreEdit, StoreCreate, StoreDelete, rows
  <2>2. hooks \subseteq hooks' /\ (<<c, "update">> \in hooks' \/ <<c, "delete">> \in hooks')
    BY <1>3 DEF StoreEdit, StoreCreate, StoreDelete
  <2>3. \A d \in Code : d # c => product'[d] = product[d]
    BY <1>3 DEF StoreEdit, StoreCreate, StoreDelete, TypeInv, TypeOK
  <2>4. ASSUME NEW d \in Code PROVE Undisturbed(d)
    <3>1. CASE d = c
      BY <2>2, <3>1 DEF Undisturbed, Pending
    <3>2. CASE d # c
      BY <2>1, <2>2, <2>3, <3>2, SameUndisturbed
    <3> QED
      BY <3>1, <3>2
  <2>6. Clean
    BY <2>1 DEF Clean
  <2> QED
    BY <1>1, <2>1, <2>4, <2>6, SyncOutside
<1> QED
  BY <1>2, <1>3 DEF User

\* A product that is not looked at any more is the same on both sides, and the import in
\* progress has read it.
LEMMA SyncEarly ==
    ASSUME TypeInv, SyncInv, Clean', NEW c \in Code, UpdateHook(c),
           record[c] \in HasTemplate \cup {"other"}, c \in recent
    PROVE  SyncInv'
<1>1. UNCHANGED <<template, product, record, doing, jobs>> /\ hooks' = hooks \ {<<c, "update">>}
  BY DEF UpdateHook
<1>2. Excuses(c \in recent /\ (Differ \/ Outdated(c)), "early")
  BY DEF UpdateHook
<1>3. Clean /\ ~Differ /\ ~Outdated(c)
  BY <1>2, ExcusesClean DEF Excuse
<1>4. product[c] = template /\ record[c] \in HasTemplate
  BY <1>3 DEF Differ, SyncInv, OneRecord
<1>5. \A d : d # c /\ Pending(d) => Pending(d)'
  BY <1>1 DEF Pending, About
<1>6. Awake' = Awake
  BY <1>1 DEF Awake, Asleep
<1>7. ASSUME NEW w \in Awake PROVE Snapshot(w)'
  <2>1. Snapshot(w)
    BY <1>3 DEF SyncInv
  <2> QED
    BY <1>1, <2>1 DEF Snapshot, Known
<1>8. ASSUME NEW w \in Awake PROVE SentSync(w)'
  <2>1. SentSync(w)
    BY <1>3 DEF SyncInv
  <2>2. product'[c] = template'
    BY <1>1, <1>4
  <2>3. doing'[w] = doing[w]
    BY <1>1
  <2>4. CASE doing[w].answer = c
    BY <2>2, <2>3, <2>4 DEF SentSync
  <2>5. CASE doing[w].answer # c
    BY <1>1, <1>5, <2>1, <2>3, <2>5 DEF SentSync
  <2> QED
    BY <2>4, <2>5
<1>9. ASSUME NEW w \in Awake PROVE ReadSync(w)'
  <2>1. ReadSync(w) /\ Snapshot(w)
    BY <1>3 DEF SyncInv
  <2>2. doing'[w] = doing[w] /\ (Drops(doing[w]))' = Drops(doing[w])
    BY <1>1 DEF Drops, Importable
  <2>3. CASE doing[w].job.code = c
    <3>1. CASE doing[w].job.does = "create"
      <4>1. doing[w].record[c] = record[c] /\ record[c] # None
        BY <1>4, <2>1, NoneNoState DEF Snapshot
      <4>2. Drops(doing[w])
        BY <2>3, <3>1, <4>1 DEF Drops, Importable
      <4> QED
        BY <2>2, <4>2 DEF ReadSync
    <3>2. CASE doing[w].job.does \in {"import", "update"}
      <4>1. doing[w].answer = product[c]
        BY <1>3, <2>3, <3>2 DEF Outdated, Does, Awake
      <4> QED
        BY <1>1, <2>2, <2>3, <4>1 DEF ReadSync
    <3>3. CASE doing[w].job.does \notin {"import", "create", "update"}
      BY <2>2, <3>3 DEF ReadSync
    <3> QED
      BY <3>1, <3>2, <3>3
  <2>4. CASE doing[w].job.code # c
    BY <1>1, <1>5, <2>1, <2>2, <2>4 DEF ReadSync
  <2> QED
    BY <2>3, <2>4
<1>10. OneRecord' /\ MappedSync'
  <2>1. OneRecord
    BY <1>3 DEF SyncInv
  <2>2. OneRecord'
    BY <1>1, <2>1 DEF OneRecord
  <2> QED
    BY <1>1, <1>4, <2>1, <2>2 DEF OneRecord, MappedSync
<1>11. \A v, w \in Awake : v = w
  BY <1>3 DEF SyncInv
<1> QED
  BY <1>6, <1>7, <1>8, <1>9, <1>10, <1>11 DEF SyncInv

LEMMA SyncUpdateHook ==
    ASSUME TypeInv, SyncInv, Clean', NEW c \in Code, UpdateHook(c) PROVE SyncInv'
<1>1. CASE record[c] \in HasTemplate \cup {"other"} /\ c \in recent
  BY <1>1, SyncEarly
<1>2. CASE ~(record[c] \in HasTemplate \cup {"other"} /\ c \in recent)
  <2>1. \E j \in {UpdateProduct(c), CreateProduct(c)} : jobs' = AddJob(jobs, j)
    BY <1>2 DEF UpdateHook
  <2>2. Pending(c)' /\ jobs \subseteq jobs'
    <3>1. PICK j \in {UpdateProduct(c), CreateProduct(c)} : jobs' = AddJob(jobs, j)
      BY <2>1
    <3>2. j \in About(c)
      BY DEF About
    <3> QED
      BY <3>1, <3>2, AddedPending
  <2>3. Clean
    <3>1. Excuses(c \in recent /\ (Differ \/ Outdated(c)), "early") \/ UNCHANGED excused
      BY DEF UpdateHook
    <3>2. CASE UNCHANGED excused
      BY <3>2 DEF Clean
    <3>3. CASE Excuses(c \in recent /\ (Differ \/ Outdated(c)), "early")
      BY <3>3, ExcusesClean DEF Excuse
    <3> QED
      BY <3>1, <3>2, <3>3
  <2>4. UNCHANGED <<template, product, doing>> /\ hooks' = hooks \ {<<c, "update">>}
    BY DEF UpdateHook
  <2>5. \A d : Undisturbed(d)
    <3>1. Undisturbed(c)
      BY <2>2 DEF Undisturbed
    <3>2. ASSUME NEW d, d # c PROVE Undisturbed(d)
      BY <2>2, <2>4, <3>2, SameUndisturbed
    <3> QED
      BY <3>1, <3>2
  <2>6. \A k \in Code : record'[k] \in {record[k], None}
    BY DEF UpdateHook, TypeInv, TypeOK
  <2> QED
    BY <2>2, <2>3, <2>4, <2>5, <2>6, SyncOutside
<1> QED
  BY <1>1, <1>2

LEMMA SyncDeleteHook ==
    ASSUME TypeInv, SyncInv, Clean', NEW c \in Code, DeleteHook(c) PROVE SyncInv'
<1>1. Clean /\ (record[c] = None
                  => ~\E w \in Worker : ~Asleep(w) /\ c \in {doing[w].job.code, doing[w].answer})
  <2>1. Excuses(/\ record[c] = None
                /\ \E w \in Worker : ~Asleep(w) /\ c \in {doing[w].job.code, doing[w].answer},
                "unseen")
    BY DEF DeleteHook
  <2> QED
    BY <2>1, ExcusesClean DEF Excuse
<1>2. UNCHANGED <<template, record, product, doing>> /\ hooks' = hooks \ {<<c, "delete">>}
  BY DEF DeleteHook, rows
<1>3. jobs \subseteq jobs'
  BY AddJobKeeps DEF DeleteHook
<1>4. record[c] # None => Pending(c)'
  <2>1. DeleteProduct(c) \in About(c)
    BY DEF About
  <2> QED
    BY <2>1, AddedPending DEF DeleteHook
<1>5. \A d : d # c => Undisturbed(d)
  BY <1>2, <1>3, SameUndisturbed
<1>6. Undisturbed(c) \/ record[c] = None
  BY <1>4 DEF Undisturbed
<1>7. record[c] = None => \A w \in Awake : doing[w].job.code # c /\ doing[w].answer # c
  BY <1>1 DEF Awake
<1> QED
  BY <1>1, <1>2, <1>3, <1>5, <1>6, <1>7, NoneNoState, SyncOutside

LEMMA SyncBegin ==
    ASSUME TypeInv, SyncInv, Clean', NEW w \in Worker, NEW j \in jobs, Begin(w, j) PROVE SyncInv'
<1>1. Clean /\ Awake = {}
  <2>1. Excuses(\E v \in Worker : ~Asleep(v), "crossed")
    BY DEF Begin
  <2>2. Clean /\ ~\E v \in Worker : ~Asleep(v)
    BY <2>1, ExcusesClean DEF Excuse
  <2> QED
    BY <2>2 DEF Awake
<1>2. /\ UNCHANGED <<template, record, product, hooks>> /\ jobs' = jobs \ {j}
      /\ j \in Job
  BY DEF Begin, rows, TypeInv, TypeOK
<1>3. /\ \A v \in Worker : v # w => doing'[v] = doing[v]
      /\ doing'[w].job = j /\ doing'[w].step = "read" /\ doing'[w].seen \subseteq jobs'
      /\ doing'[w].template = template /\ doing'[w].record = record
      /\ doing'[w].answer = IF j = ExportTemplate THEN None ELSE product[j.code]
  BY DEF Begin, TypeInv, TypeOK
<1>4. TypeInv'
  BY BeginTypeInv
<1>5. \A v \in Awake' : v = w
  BY <1>1, <1>3 DEF Awake, Asleep
<1>6. w \in Awake'
  BY <1>2, <1>3 DEF Awake, Asleep, Begin, Idle, Job, ExportTemplate, TypeInv, TypeOK
<1>10. OneRecord /\ OneRecord'
  BY <1>1, <1>2 DEF OneRecord, SyncInv
<1>7. Snapshot(w)' /\ SentSync(w)'
  BY <1>2, <1>3, <1>10 DEF Snapshot, SentSync, OneRecord, Known
<1>8. ReadSync(w)'
  <2>1. doing'[w].job.does \in {"import", "create", "update"} => doing'[w].job # ExportTemplate
    BY JobFields
  <2> QED
    BY <1>2, <1>3, <2>1 DEF ReadSync
<1>9. MappedSync'
  <2> SUFFICES ASSUME NEW c \in Code, record[c] \in HasTemplate, product[c] # template
               PROVE  Pending(c)' \/ Working(c)'
    BY <1>2 DEF MappedSync
  <2>1. Pending(c)
    BY <1>1 DEF SyncInv, MappedSync, Working
  <2>2. CASE j = ExportTemplate \/ j \in About(c)
    BY <1>2, <1>3, <1>6, <2>2 DEF Working, About
  <2>3. CASE j # ExportTemplate /\ j \notin About(c)
    BY <1>2, <2>1, <2>3 DEF Pending, About
  <2> QED
    BY <2>2, <2>3
<1> QED
  BY <1>5, <1>7, <1>8, <1>9, <1>10 DEF SyncInv

LEMMA SteppedAwake ==
    ASSUME NEW w \in Worker, NEW from, NEW to, NEW answer, Stepped(w, from, to, answer)
    PROVE  Awake' = Awake
<1>1. doing'[w] # Idle
  BY ReadingAwake DEF Stepped
<1>2. \A v \in Worker : v # w => doing'[v] = doing[v]
  BY DEF Stepped
<1>3. doing[w] # Idle
  BY DEF Stepped, Awake, Asleep
<1> QED
  BY <1>1, <1>2, <1>3 DEF Awake, Asleep

\* The only transaction in progress is an export and goes on.
LEMMA SyncStep ==
    ASSUME TypeInv, SyncInv, Clean, NEW w \in Worker, NEW from, NEW to, NEW answer,
           Stepped(w, from, to, answer), UNCHANGED <<template, record, jobs>>,
           Known(doing[w]) # {} => answer \in Known(doing[w]),
           to = "sent" => Pending(answer)', MappedSync'
    PROVE  SyncInv'
<1>1. /\ Awake' = Awake /\ w \in Awake /\ \A v \in Awake : v = w
  BY SteppedAwake DEF Stepped, SyncInv
<1>2. /\ doing'[w].job = ExportTemplate /\ doing'[w].step = to /\ doing'[w].answer = answer
      /\ doing'[w].template = doing[w].template /\ doing'[w].record = doing[w].record
      /\ doing'[w].seen = doing[w].seen
  BY DEF Stepped
<1>3. Snapshot(w)
  BY <1>1 DEF SyncInv
<1>7. OneRecord'
  BY DEF SyncInv, OneRecord
<1>4. Snapshot(w)'
  BY <1>2, <1>3 DEF Snapshot, Known
<1>5. SentSync(w)'
  BY <1>2 DEF SentSync
<1>6. ReadSync(w)'
  BY <1>2, JobFields DEF ReadSync
<1> QED
  BY <1>1, <1>4, <1>5, <1>6, <1>7 DEF SyncInv

LEMMA SyncLook ==
    ASSUME TypeInv, SyncInv, Clean', NEW w \in Worker, Look(w) PROVE SyncInv'
<1>1. PICK to \in {"looked", "gone"}, found \in Code \cup {None} :
         Step(w, "read", to, found) /\ (Known(doing[w]) # {} => found \in Known(doing[w]))
  BY LookFinds
<1>2. UNCHANGED <<template, record, product, hooks, jobs, excused>>
  BY DEF Look, rows, bounds
<1>3. Clean
  BY <1>2 DEF Clean
<1>5. Stepped(w, "read", to, found)
  BY <1>1, StepEffect
<1>6. Known(doing[w]) # {} => found \in Known(doing[w])
  BY <1>1
<1>7. MappedSync'
  <2>1. Awake' = Awake
    BY <1>5, SteppedAwake
  <2>2. ASSUME NEW c, Pending(c) PROVE Pending(c)'
    BY <1>2, <2>2 DEF Pending, About
  <2>3. ASSUME NEW c, Working(c) PROVE Working(c)'
    BY <1>5, <2>1, <2>3 DEF Working, Stepped, Awake, About
  <2>4. MappedSync
    BY <1>3 DEF SyncInv
  <2> QED
    BY <1>2, <2>2, <2>3, <2>4 DEF MappedSync
<1> QED
  BY <1>2, <1>3, <1>5, <1>6, <1>7, SyncStep

LEMMA SyncSend ==
    ASSUME TypeInv, SyncInv, Clean', NEW w \in Worker, NEW c \in Code, Send(w, c) PROVE SyncInv'
<1>1. /\ Step(w, "looked", "sent", c) /\ c \in Target(doing[w])
      /\ product' = [product EXCEPT ![c] = doing[w].template] /\ hooks' = hooks \cup {<<c, "update">>}
      /\ UNCHANGED <<template, record, jobs, excused>>
  BY DEF Send, rows, bounds
<1>2. Clean
  BY <1>1 DEF Clean
<1>3. Stepped(w, "looked", "sent", c)
  BY <1>1, StepEffect
<1>4. Pending(c)'
  BY <1>1 DEF Pending
<1>5. Snapshot(w) /\ doing[w].step = "looked" /\ doing[w].job = ExportTemplate
  BY <1>2, <1>3 DEF Stepped, SyncInv
<1>8. Known(doing[w]) # {} => c \in Known(doing[w])
  <2> SUFFICES ASSUME Known(doing[w]) # {} PROVE c \in Known(doing[w])
    OBVIOUS
  <2>1. doing[w].answer \in Known(doing[w])
    BY <1>5 DEF Snapshot
  <2>2. doing[w].answer # None
    BY <2>1, CodeNames DEF Known
  <2> QED
    BY <1>1, <2>1, <2>2 DEF Target
<1>6. \A k \in Code : record[k] \in HasTemplate => k = c
  <2> SUFFICES ASSUME NEW k \in Code, record[k] \in HasTemplate PROVE k = c
    OBVIOUS
  <2>1. k \in Known(doing[w])
    BY <1>5, NoneNoState DEF Snapshot, Known
  <2> QED
    BY <1>5, <1>8, <2>1 DEF Snapshot
<1>7. MappedSync'
  BY <1>1, <1>4, <1>6 DEF MappedSync
<1> QED
  BY <1>1, <1>2, <1>3, <1>4, <1>7, <1>8, SyncStep

\* The only transaction in progress ends.
LEMMA SyncEnd ==
    ASSUME TypeInv, SyncInv, Clean, NEW w \in Awake, NEW written, End(w, written), OneRecord',
           \A c \in Code : record'[c] \in HasTemplate => product'[c] = template' \/ Pending(c)'
    PROVE  SyncInv'
<1>1. \A v \in Worker : doing'[v] = IF v = w THEN Idle ELSE doing[v]
  BY DEF End, TypeInv, TypeOK
<1>2. Awake = {w}
  BY DEF SyncInv
<1>3. Awake' = {}
  BY <1>1, <1>2 DEF Awake, Asleep
<1>4. MappedSync'
  BY DEF MappedSync
<1> QED
  BY <1>3, <1>4 DEF SyncInv

\* A record that the only transaction in progress is not about stays as it is.
LEMMA OthersSync ==
    ASSUME TypeInv, SyncInv, Clean, NEW w \in Awake, NEW c \in Code, NEW state,
           state \notin HasTemplate \cup {"other"},
           doing[w].job \in About(c), UNCHANGED <<template, product, hooks, jobs>>,
           record' = [record EXCEPT ![c] = state]
    PROVE  /\ OneRecord'
           /\ \A k \in Code : record'[k] \in HasTemplate => product'[k] = template' \/ Pending(k)'
<1>1. \A k \in Code : record'[k] = IF k = c THEN state ELSE record[k]
  BY DEF TypeInv, TypeOK
<1>2. OneRecord'
  BY <1>1 DEF SyncInv, OneRecord
<1>3. ASSUME NEW k \in Code, record'[k] \in HasTemplate PROVE product'[k] = template' \/ Pending(k)'
  <2>1. k # c /\ record[k] \in HasTemplate
    BY <1>1, <1>3
  <2>2. ~Working(k)
    <3>1. \A v \in Awake : v = w
      BY DEF SyncInv
    <3>2. doing[w].job.code = c /\ doing[w].job # ExportTemplate
      BY JobFields DEF About
    <3>3. doing[w].job \notin About(k)
      BY <2>1, <3>2, JobFields DEF About
    <3> QED
      BY <3>1, <3>2, <3>3 DEF Working
  <2>3. product[k] = template \/ Pending(k)
    BY <2>1, <2>2 DEF SyncInv, MappedSync
  <2> QED
    BY <2>3 DEF Pending, About
<1> QED
  BY <1>2, <1>3

\* What an import writes is what the product is, or somebody will look at it again.
LEMMA ImportSync ==
    ASSUME TypeInv, SyncInv, Clean, NEW w \in Awake, NEW c \in Code, ~Drops(doing[w]),
           doing[w].job.does \in {"import", "create", "update"}, doing[w].job.code = c,
           UNCHANGED <<jobs, hooks, product>>, template' = Imported(doing[w])
    PROVE  product'[c] = template' \/ Pending(c)'
<1>1. Snapshot(w) /\ ReadSync(w)
  BY DEF SyncInv
<1>2. Pending(c) => Pending(c)'
  BY DEF Pending, About
<1>3. ASSUME ~Pending(c) PROVE product'[c] = template'
  <2>1. doing[w].answer = product[c]
    BY <1>1, <1>3 DEF ReadSync
  <2>2. doing[w].template = template
    BY <1>1, <1>3 DEF Snapshot, Pending
  <2> QED
    BY <2>1, <2>2 DEF Imported
<1> QED
  BY <1>2, <1>3

\* An import that writes the template.
LEMMA SyncImportOne ==
    ASSUME TypeInv, SyncInv, Clean', NEW w \in Awake, NEW c \in Code, ~Drops(doing[w]),
           doing[w].job.does \in {"import", "create", "update"}, doing[w].job.code = c,
           UNCHANGED <<hooks, product>>, ImportOne(doing[w])
    PROVE  /\ Clean /\ OneRecord'
           /\ \A k \in Code : record'[k] \in HasTemplate => product'[k] = template' \/ Pending(k)'
<1>1. Clean /\ ~Second(doing[w]) /\ \A k \in Code \ {c} : record[k] \notin HasTemplate
  <2>1. Excuses(Second(doing[w]) \/ \E k \in Code \ {c} : record[k] \in HasTemplate, "second")
    BY DEF ImportOne
  <2> QED
    BY <2>1, ExcusesClean DEF Excuse
<1>2. template' = Imported(doing[w]) /\ jobs' = jobs
  BY <1>1 DEF ImportOne, AfterImport
<1>3. \A k \in Code : k # c => record'[k] = record[k]
  BY DEF ImportOne, TypeInv, TypeOK
<1>4. record'[c] \in {None, "mapped"} /\ None # "other"
  BY <1>1 DEF ImportOne, TypeInv, TypeOK, None
<1>5. OneRecord'
  <2>1. OneRecord
    BY <1>1 DEF SyncInv
  <2> QED
    BY <1>1, <1>3, <1>4, <2>1 DEF OneRecord
<1>6. product'[c] = template' \/ Pending(c)'
  BY <1>1, <1>2, ImportSync
<1> QED
  BY <1>1, <1>3, <1>5, <1>6

\* A commit.
LEMMA SyncCommit ==
    ASSUME TypeInv, SyncInv, Clean', NEW w \in Worker,
           \/ CommitExport(w) \/ CommitGone(w) \/ CommitFound(w)
           \/ CommitImport(w) \/ CommitCreate(w) \/ CommitDelete(w)
    PROVE  SyncInv'
<1>1. w \in Awake /\ (\E written : End(w, written)) /\ UNCHANGED <<product, hooks>>
  BY EndStep
<1>2. doing[w] \in Reading /\ doing[w].job \in Job /\ record \in [Code -> Record]
  BY <1>1, AwakeReading DEF TypeInv, TypeOK, Awake
<1>3. Clean => Snapshot(w) /\ SentSync(w) /\ OneRecord
  BY <1>1 DEF SyncInv
<1>4. CASE CommitExport(w)
  <2>1. doing[w].job = ExportTemplate /\ doing[w].step = "sent" /\ Clean
    <3>1. Does(w, {"export"}) /\ doing[w].step = "sent" /\ UNCHANGED excused
      BY <1>4 DEF CommitExport, Commit
    <3> QED
      BY <1>2, <3>1, JobKinds DEF Does, Clean
  <2>2. record' = [record EXCEPT ![doing[w].answer] = "mapped"] /\ UNCHANGED <<template, jobs>>
    BY <1>4 DEF CommitExport
  <2>3. PICK c \in Code : c = doing[w].answer
    BY <1>1, <2>1 DEF TypeInv, AnswerCode
  <2>4. product[c] = template \/ Pending(c)
    BY <1>3, <2>1, <2>3 DEF SentSync
  <2>5. product'[c] = template' \/ Pending(c)'
    BY <1>1, <2>2, <2>4 DEF Pending, About
  <2>6. \A k \in Code : record'[k] = IF k = c THEN "mapped" ELSE record[k]
    BY <1>2, <2>2, <2>3
  <2>7. ASSUME NEW k \in Code, record[k] \in HasTemplate PROVE k = c
    <3>1. k \in Known(doing[w])
      BY <1>3, <2>1, <2>7, NoneNoState DEF Snapshot, Known
    <3>2. c \in Known(doing[w])
      BY <1>3, <2>1, <2>3, <3>1 DEF Snapshot
    <3> QED
      BY <1>3, <2>1, <3>1, <3>2 DEF Snapshot
  <2>8. OneRecord'
    BY <1>3, <2>1, <2>6, <2>7 DEF OneRecord
  <2> QED
    BY <1>1, <2>1, <2>5, <2>6, <2>7, <2>8, SyncEnd
<1>5. CASE CommitGone(w)
  <2>1. doing[w].job = ExportTemplate /\ doing[w].step = "gone" /\ Clean
    <3>1. Does(w, {"export"}) /\ doing[w].step = "gone" /\ UNCHANGED excused
      BY <1>5 DEF CommitGone, Commit
    <3> QED
      BY <1>2, <3>1, JobKinds DEF Does, Clean
  <2>2. /\ record' = [record EXCEPT ![doing[w].answer] = None]
        /\ jobs' = AddJob(doing[w].seen, ExportTemplate)
    BY <1>5 DEF CommitGone
  <2>3. \A k \in Code : record'[k] \in {record[k], None}
    BY <1>2, <2>2
  <2>4. OneRecord'
    <3>1. None # "other"
      BY DEF None
    <3> QED
      BY <1>3, <2>1, <2>3, <3>1, NoneNoState DEF OneRecord
  <2>5. ExportTemplate \in jobs'
    <3>1. doing[w].seen \subseteq jobs
      BY <1>3, <2>1 DEF Snapshot
    <3>2. jobs \subseteq jobs' /\ jobs' \subseteq jobs \cup {ExportTemplate}
      BY <2>2, AddJobKeeps
    <3>3. PICK k \in doing[w].seen \cup jobs' : Key(k) = Key(ExportTemplate)
      BY <2>2, AddJobKeeps
    <3>4. k \in jobs' /\ k \in Job
      BY <3>1, <3>2, <3>3, JobFields DEF TypeInv, TypeOK
    <3> QED
      BY <3>3, <3>4, SameKey
  <2> QED
    BY <1>1, <2>1, <2>4, <2>5, SyncEnd DEF Pending
<1>6. CASE CommitFound(w)
  <2>1. PICK c \in Code : c = doing[w].answer
    BY <1>6 DEF CommitFound
  <2>2. /\ record' = [record EXCEPT ![c] = IF @ = None THEN "found" ELSE "mapped"]
        /\ jobs' = AddJob(doing[w].seen, ImportProduct(c)) /\ Clean /\ Ready(doing[w])
        /\ doing[w].step = "looked" /\ doing[w].job = ExportTemplate
    <3>1. Does(w, {"export"}) /\ Ready(doing[w]) /\ UNCHANGED excused
      BY <1>6 DEF CommitFound, Commit
    <3> QED
      BY <1>2, <1>6, <2>1, <3>1, JobKinds DEF CommitFound, Does, Clean
  <2>3. doing[w].seen \in SUBSET jobs /\ ImportProduct(c) \in About(c)
    BY <1>3, <2>2 DEF Snapshot, About
  <2>4. Pending(c)'
    BY <2>2, <2>3, AddedPending
  <2>5. Known(doing[w]) = {}
    BY <2>2 DEF Ready
  <2>6. \A k \in Code : record[k] \notin HasTemplate
    BY <1>3, <2>2, <2>5, NoneNoState DEF Snapshot, Known
  <2>7. \A k \in Code : k # c => record'[k] = record[k]
    BY <1>2, <2>2
  <2>8. record'[c] \in {"found", "mapped"}
    BY <1>2, <2>2
  <2>9. OneRecord'
    BY <1>3, <2>2, <2>6, <2>7, <2>8 DEF OneRecord
  <2> QED
    BY <1>1, <2>2, <2>4, <2>6, <2>7, <2>9, SyncEnd
<1>7. CASE CommitImport(w)
  <2>1. doing[w].job.does \in {"import", "update"} /\ ~Drops(doing[w])
    BY <1>7, DoesAwake DEF CommitImport, Commit
  <2>2. PICK c \in Code : c = doing[w].job.code /\ doing[w].job \in {ImportProduct(c), UpdateProduct(c)}
    BY <1>2, <2>1, JobKinds
  <2>3. CASE ImportOne(doing[w])
    BY <1>1, <2>1, <2>2, <2>3, SyncImportOne, SyncEnd
  <2>4. CASE doing[w].record[c] = "other" /\ UNCHANGED <<template, record, jobs, excused>>
    <3>1. Clean /\ doing[w].job \in About(c)
      BY <2>2, <2>4 DEF Clean, About
    <3>2. record[c] = None
      BY <1>3, <2>4, <3>1 DEF Snapshot, OneRecord
    <3>3. record' = [record EXCEPT ![c] = None]
      BY <1>2, <2>4, <3>2
    <3>4. None \notin HasTemplate \cup {"other"}
      BY DEF None, HasTemplate
    <3> QED
      BY <1>1, <2>4, <3>1, <3>3, <3>4, OthersSync, SyncEnd
  <2> QED
    BY <1>7, <2>2, <2>3, <2>4 DEF CommitImport
<1>8. CASE CommitCreate(w)
  <2>1. doing[w].job.does = "create" /\ ~Drops(doing[w])
    BY <1>8, DoesAwake DEF CommitCreate, Commit
  <2>2. PICK c \in Code : c = doing[w].job.code /\ doing[w].job = CreateProduct(c)
    BY <1>2, <2>1, JobKinds
  <2>3. CASE ImportOne(doing[w])
    BY <1>1, <2>1, <2>2, <2>3, SyncImportOne, SyncEnd
  <2>4. CASE /\ record' = [record EXCEPT ![c] = "alone"]
             /\ UNCHANGED <<template, jobs, excused>>
    <3>1. Clean /\ doing[w].job \in About(c)
      BY <2>2, <2>4 DEF Clean, About
    <3>2. "alone" \notin HasTemplate \cup {"other"}
      BY DEF HasTemplate
    <3> QED
      BY <1>1, <2>4, <3>1, <3>2, OthersSync, SyncEnd
  <2> QED
    BY <1>8, <2>2, <2>3, <2>4 DEF CommitCreate
<1>9. CASE CommitDelete(w)
  <2>1. doing[w].job.does = "delete"
    BY <1>9, DoesAwake DEF CommitDelete, Commit
  <2>2. PICK c \in Code : c = doing[w].job.code /\ doing[w].job = DeleteProduct(c)
    BY <1>2, <2>1, JobKinds
  <2>3. record' = [record EXCEPT ![c] = None] /\ UNCHANGED <<template, jobs, excused>>
    BY <1>9, <2>2 DEF CommitDelete
  <2>4. Clean /\ doing[w].job \in About(c)
    BY <2>2, <2>3 DEF Clean, About
  <2>5. None \notin HasTemplate \cup {"other"}
    BY DEF None, HasTemplate
  <2> QED
    BY <1>1, <2>3, <2>4, <2>5, OthersSync, SyncEnd
<1> QED
  BY <1>4, <1>5, <1>6, <1>7, <1>8, <1>9

\* An end that writes nothing.
LEMMA SyncNothing ==
    ASSUME TypeInv, SyncInv, Clean', NEW w \in Worker,
           Drop(w) \/ Refused(w) \/ Fails(w) \/ (\E again \in BOOLEAN : Abort(w, again))
    PROVE  SyncInv'
<1>1. w \in Awake /\ (\E written : End(w, written)) /\ UNCHANGED <<product, hooks>>
  BY EndStep
<1>2. UNCHANGED <<template, record>>
  BY DEF Drop, Refused, Fails, Abort, rows
<1>6. Clean => OneRecord'
  BY <1>2 DEF SyncInv, OneRecord
<1>3. CASE Drop(w)
  <2>1. Excuses(Differ, "early")
    BY <1>3 DEF Drop
  <2>2. Clean /\ ~Differ
    BY <2>1, ExcusesClean DEF Excuse
  <2>3. \A c \in Code : record'[c] \in HasTemplate => product'[c] = template'
    BY <1>1, <1>2, <2>2 DEF Differ
  <2> QED
    BY <1>1, <1>6, <2>2, <2>3, SyncEnd
<1>4. CASE Fails(w)
  <2>1. Excuses(TRUE, "failed")
    BY <1>4 DEF Fails
  <2> QED
    BY <2>1, ExcusesClean DEF Excuse
<1>5. CASE Refused(w) \/ \E again \in BOOLEAN : Abort(w, again)
  <2>1. Clean /\ jobs' = jobs \cup {doing[w].job}
    <3>1. CASE Refused(w)
      <4>1. /\ Excuses(Taken(doing[w]), "failed")
            /\ jobs' = IF Taken(doing[w]) THEN jobs ELSE jobs \cup {doing[w].job}
        BY <3>1 DEF Refused
      <4>2. Clean /\ ~Taken(doing[w])
        BY <4>1, ExcusesClean DEF Excuse
      <4> QED
        BY <4>1, <4>2
    <3>2. ASSUME NEW again \in BOOLEAN, Abort(w, again) PROVE Clean /\ jobs' = jobs \cup {doing[w].job}
      <4>1. /\ Excuses(~again, "failed")
            /\ jobs' = IF again THEN jobs \cup {doing[w].job} ELSE jobs
        BY <3>2 DEF Abort
      <4> QED
        BY <4>1, ExcusesClean DEF Excuse
    <3> QED
      BY <1>5, <3>1, <3>2
  <2> SUFFICES ASSUME NEW c \in Code, record'[c] \in HasTemplate, product'[c] # template'
               PROVE  Pending(c)'
    BY <1>1, <1>6, <2>1, SyncEnd
  <2>3. Pending(c) \/ Working(c)
    BY <1>1, <1>2, <2>1 DEF SyncInv, MappedSync
  <2>4. CASE Pending(c)
    BY <1>1, <2>1, <2>4 DEF Pending, About
  <2>5. CASE Working(c)
    <3>1. doing[w].job \in About(c) \/ doing[w].job = ExportTemplate
      BY <1>1, <2>1, <2>5 DEF Working, SyncInv
    <3> QED
      BY <2>1, <3>1 DEF Pending, About
  <2> QED
    BY <2>3, <2>4, <2>5
<1> QED
  BY <1>3, <1>4, <1>5

\* When no webhook is on its way, no job waits and none is in progress, a template and each
\* product that is mapped to it are the same, unless a change was dropped in one of the
\* known ways.
THEOREM LosesNothing == Spec => []NothingLost
<1>1. Init => SyncInv
  <2> SUFFICES ASSUME Init PROVE SyncInv
    OBVIOUS
  <2>1. \A c \in Code : record[c] \notin HasTemplate \cup {"other"}
    BY NoneNoState DEF Init, None, HasTemplate
  <2>2. Awake = {}
    BY DEF Init, Awake, Asleep
  <2> QED
    BY <2>1, <2>2 DEF SyncInv, MappedSync, OneRecord
<1>2. TypeInv /\ SyncInv /\ [Next]_vars => SyncInv'
  <2> SUFFICES ASSUME TypeInv, SyncInv, [Next]_vars, Clean' PROVE SyncInv'
    BY DEF SyncInv
  <2>1. ASSUME NEW w \in Worker, JobStep(w) PROVE SyncInv'
    <3>1. ASSUME NEW j \in jobs, Begin(w, j) PROVE SyncInv'
      BY <3>1, SyncBegin
    <3>2. ASSUME NEW c \in Code, SendNew(w, c) \/ SendUpdate(w, c) PROVE SyncInv'
      BY <3>2, SyncSend DEF SendNew, SendUpdate
    <3> QED
      BY <2>1, <3>1, <3>2, SyncLook, SyncCommit, SyncNothing DEF JobStep, Export, Import
  <2>2. CASE Receive
    BY <2>2, SyncUpdateHook, SyncDeleteHook DEF Receive, ReceiveHook
  <2>3. ASSUME NEW h \in hooks, LoseHook(h) PROVE FALSE
    <3>1. Excuses(TRUE, "lost")
      BY <2>3 DEF LoseHook
    <3> QED
      BY <3>1, ExcusesClean DEF Excuse
  <2>4. CASE Trouble
    BY <2>3, <2>4, SyncNothing DEF Trouble
  <2>5. CASE GapEnds \/ UNCHANGED vars
    <3>1. UNCHANGED <<template, record, product, hooks, jobs, doing, excused>>
      BY <2>5 DEF GapEnds, bounds, vars, rows
    <3>2. \A w : UNCHANGED <<Snapshot(w), SentSync(w), ReadSync(w)>>
      BY <3>1 DEF Pending, About, Snapshot, Known, SentSync, ReadSync, Drops, Importable
    <3>3. UNCHANGED <<Awake, OneRecord, MappedSync, Clean>>
      BY <3>1 DEF Awake, Asleep, OneRecord, MappedSync, Pending, Working, About, Clean
    <3> QED
      BY <3>2, <3>3 DEF SyncInv
  <2> QED
    BY <2>1, <2>2, <2>4, <2>5, SyncUser DEF Next
<1>3. SyncInv => NothingLost
  <2> SUFFICES ASSUME SyncInv, Quiet, excused = None, NEW c \in Code, record[c] \in HasTemplate
               PROVE  product[c] = template
    BY DEF NothingLost
  <2>1. MappedSync /\ Awake = {} /\ jobs = {} /\ hooks = {}
    BY DEF SyncInv, Clean, Quiet, Awake
  <2>2. ~Pending(c) /\ ~Working(c)
    BY <2>1 DEF Pending, Working
  <2> QED
    BY <2>1, <2>2 DEF MappedSync
<1> QED
  BY <1>1, <1>2, <1>3, TypeCorrect, PTL DEF Spec

=============================================================================
