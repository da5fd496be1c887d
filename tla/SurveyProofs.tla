----------------------------- MODULE SurveyProofs -----------------------------
(***************************************************************************)
(* The catalog and the answers of requests, for every number of services,  *)
(* operations, job templates, survey variables, requests and answers.      *)
(*                                                                         *)
(* Every step changes the survey of an operation in one of three ways: a   *)
(* field goes, a field comes as the user's, or the administrator moves it. *)
(* What is said of the answers follows from that.                          *)
(***************************************************************************)
EXTENDS Survey, NaturalsInduction, WellFoundedInduction, TLAPS

(* Fields go with their operation. *)
NoStrayFields == \A o \in Operation : ~Exists(o) => Fields(o) = {}

CInv == CatalogTypeOK /\ SurveyFollows /\ NoStrayFields

IInv == TypeOK /\ SurveyFollows /\ NoStrayFields /\ HiddenFromUser

Rows == [Operation -> {None} \union Row]
Kinds == [Variable -> {"NONE", "USER", "ADMIN"}]

(* How a step may change the field x of o. *)
FieldStep(o, x) ==
    \/ kind'[o][x] = kind[o][x]
    \/ kind'[o][x] = "NONE"
    \/ kind[o][x] = "NONE" /\ kind'[o][x] = "USER"
    \/ SwitchField(o, x)

FieldSteps == \A o \in Operation, x \in Variable : FieldStep(o, x)

-----------------------------------------------------------------------------
(* The helpers of the catalog.                                             *)

LEMMA UpdateSurveyIs ==
  ASSUME NEW k \in Kinds, NEW xs \in SUBSET Variable
  PROVE  LET new == UpdateSurvey(k, xs)
         IN  /\ new \in Kinds
             /\ {x \in Variable : new[x] # "NONE"} = xs
             /\ \A x \in Variable : \/ new[x] = k[x] \/ new[x] = "NONE"
                                    \/ k[x] = "NONE" /\ new[x] = "USER"
  BY DEF UpdateSurvey, Kinds

LEMMA DefaultSurveyIs ==
  ASSUME NEW xs \in SUBSET Variable
  PROVE  LET new == DefaultSurvey(xs)
         IN  /\ new \in Kinds
             /\ {x \in Variable : new[x] # "NONE"} = xs
             /\ \A x \in Variable : new[x] \in {"NONE", "USER"}
  BY DEF DefaultSurvey, Kinds

LEMMA NoFieldIs ==
  /\ NoField \in Kinds
  /\ {x \in Variable : NoField[x] # "NONE"} = {}
  /\ \A x \in Variable : NoField[x] = "NONE"
  BY DEF NoField, Kinds

LEMMA OperationsLeftIs ==
  ASSUME NEW s \in Service, NEW on \in BOOLEAN, NEW rows \in Rows
  PROVE  LET left == OperationsLeft(s, on, rows)
         IN  /\ left \in Rows
             /\ \A o \in Operation :
                  /\ left[o] = None <=> rows[o] = None
                  /\ rows[o] # None => /\ left[o].template = rows[o].template
                                       /\ left[o].service = rows[o].service
                                       /\ left[o].type = rows[o].type
  <1> DEFINE off(o) == [rows[o] EXCEPT !.enabled = FALSE]
             left == OperationsLeft(s, on, rows)
  <1>1. ASSUME NEW o \in Operation, rows[o] # None
        PROVE  /\ off(o) \in Row /\ off(o).template = rows[o].template
               /\ off(o).service = rows[o].service /\ off(o).type = rows[o].type
    <2>1. rows[o] \in Row
      BY <1>1 DEF Rows
    <2> DEFINE q == rows[o]
    <2> HIDE DEF q
    <2>2. [q EXCEPT !.enabled = FALSE] \in Row /\ q \in Row
          /\ [q EXCEPT !.enabled = FALSE].template = q.template
          /\ [q EXCEPT !.enabled = FALSE].service = q.service
          /\ [q EXCEPT !.enabled = FALSE].type = q.type
      BY <2>1 DEF Row, q
    <2> QED
      BY <2>2 DEF q
  <1>2. \A o \in Creations(s, rows) : o \in Operation /\ rows[o] # None
    BY DEF Creations
  <1>3. left = IF on /\ CanBeEnabled(s, rows) THEN rows
               ELSE [o \in Operation |-> IF o \in Creations(s, rows) THEN off(o) ELSE rows[o]]
    BY DEF OperationsLeft
  <1> HIDE DEF off, left
  <1>4. \A o \in Operation : rows[o] \in {None} \union Row
    BY DEF Rows
  <1>5. \A o \in Operation :
           \/ left[o] = rows[o]
           \/ /\ rows[o] # None /\ left[o] = off(o)
    BY <1>2, <1>3
  <1>6. left = [o \in Operation |-> left[o]]
    BY <1>3 DEF Rows
  <1>7. \A o \in Operation : left[o] \in {None} \union Row
    BY <1>1, <1>4, <1>5
  <1>8. left \in Rows
    BY <1>6, <1>7 DEF Rows
  <1>9. \A o \in Operation :
                  /\ left[o] = None <=> rows[o] = None
                  /\ rows[o] # None => /\ left[o].template = rows[o].template
                                       /\ left[o].service = rows[o].service
                                       /\ left[o].type = rows[o].type
    BY <1>1, <1>5, RowAssumption
  <1> QED
    BY <1>8, <1>9 DEF left

(* A save of a service leaves the operations it is given, with their templates. *)
LEMMA SaveServiceIs ==
  ASSUME NEW s \in Service, NEW on \in BOOLEAN, NEW rows \in Rows, SaveService(s, on, rows),
         service \in [Service -> {"NONE", "DISABLED", "ENABLED"}]
  PROVE  /\ service' \in [Service -> {"NONE", "DISABLED", "ENABLED"}]
         /\ operation' \in Rows
         /\ \A o \in Operation :
              /\ operation'[o] = None <=> rows[o] = None
              /\ rows[o] # None => operation'[o].template = rows[o].template
  <1>1. FlagStored(s, on, rows) \in {"DISABLED", "ENABLED"}
    BY DEF FlagStored, Flag
  <1>2. service' \in [Service -> {"NONE", "DISABLED", "ENABLED"}]
    BY <1>1 DEF SaveService
  <1>3. operation' = OperationsLeft(s, on, rows)
    BY DEF SaveService
  <1> QED
    BY <1>2, <1>3, OperationsLeftIs

(* The invariant of the catalog, from what a step leaves of each operation. *)
LEMMA CatalogKept ==
  ASSUME service' \in [Service -> {"NONE", "DISABLED", "ENABLED"}],
         operation' \in Rows,
         survey' \in [Template -> {None} \union SUBSET Variable],
         kind' \in [Operation -> Kinds],
         \A o \in Operation :
            LET fields == {x \in Variable : kind'[o][x] # "NONE"}
            IN  /\ operation'[o] = None => fields = {}
                /\ operation'[o] # None /\ operation'[o].template # None
                      => fields = survey'[operation'[o].template],
         \A o \in Operation, x \in Variable : FieldStep(o, x)
  PROVE  CInv' /\ FieldSteps
  BY DEF CInv, CatalogTypeOK, SurveyFollows, NoStrayFields, Fields, Exists, Rows, Kinds, FieldSteps

(* What the invariant says of one operation. *)
LEMMA CatalogSays ==
  ASSUME CInv, NEW o \in Operation
  PROVE  /\ kind[o] \in Kinds
         /\ ~Exists(o) => \A x \in Variable : kind[o][x] = "NONE"
         /\ Exists(o) => operation[o] \in Row
         /\ Exists(o) /\ operation[o].template # None =>
               /\ {x \in Variable : kind[o][x] # "NONE"} = survey[operation[o].template]
               /\ survey[operation[o].template] # None
  <1>1. kind[o] \in Kinds /\ (Exists(o) => operation[o] \in Row)
    BY DEF CInv, CatalogTypeOK, Kinds, Exists
  <1>2. ~Exists(o) => \A x \in Variable : kind[o][x] = "NONE"
    BY DEF CInv, NoStrayFields, Fields
  <1>3. Exists(o) /\ operation[o].template # None =>
               {x \in Variable : kind[o][x] # "NONE"} = survey[operation[o].template]
    BY DEF CInv, SurveyFollows, Fields
  <1>4. \A xs \in SUBSET Variable : None # xs
    BY NoneAssumption
  <1> QED
    BY <1>1, <1>2, <1>3, <1>4

-----------------------------------------------------------------------------
(* One lemma per action of the catalog.                                    *)

LEMMA ServicesOnlyKeep ==
  ASSUME CInv, service' \in [Service -> {"NONE", "DISABLED", "ENABLED"}],
         UNCHANGED <<operation, survey, kind>>
  PROVE  CInv' /\ FieldSteps
  BY DEF CInv, CatalogTypeOK, SurveyFollows, NoStrayFields, Fields, Exists, FieldSteps, FieldStep

LEMMA EditServiceKeeps ==
  ASSUME CInv, NEW s \in Service, NEW on \in BOOLEAN, EditService(s, on)
  PROVE  CInv' /\ FieldSteps
  <1>1. operation \in Rows /\ service \in [Service -> {"NONE", "DISABLED", "ENABLED"}]
    BY DEF CInv, CatalogTypeOK, Rows
  <1>2. SaveService(s, on, operation) /\ UNCHANGED <<survey, kind>>
    BY DEF EditService
  <1>3. /\ service' \in [Service -> {"NONE", "DISABLED", "ENABLED"}] /\ operation' \in Rows
        /\ \A o \in Operation :
              /\ operation'[o] = None <=> operation[o] = None
              /\ operation[o] # None => operation'[o].template = operation[o].template
    BY <1>1, <1>2, SaveServiceIs
  <1>4. \A o \in Operation, x \in Variable : FieldStep(o, x)
    BY <1>2 DEF FieldStep
  <1>5. /\ survey' \in [Template -> {None} \union SUBSET Variable]
        /\ kind' \in [Operation -> Kinds]
    BY <1>2 DEF CInv, CatalogTypeOK, Kinds
  <1>6. \A o \in Operation :
            LET fields == {x \in Variable : kind'[o][x] # "NONE"}
            IN  /\ operation'[o] = None => fields = {}
                /\ operation'[o] # None /\ operation'[o].template # None
                      => fields = survey'[operation'[o].template]
    BY <1>2, <1>3, CatalogSays DEF Exists
  <1> QED
    BY <1>3, <1>4, <1>5, <1>6, CatalogKept

(* Operations and their fields go. *)
LEMMA DeletionKeeps ==
  ASSUME CInv, NEW os \in SUBSET Operation,
         service' \in [Service -> {"NONE", "DISABLED", "ENABLED"}],
         operation' \in Rows,
         \A o \in Operation :
              /\ operation'[o] = None <=> Without(os)[o] = None
              /\ Without(os)[o] # None => operation'[o].template = Without(os)[o].template,
         kind' = WithoutFields(os), UNCHANGED survey
  PROVE  CInv' /\ FieldSteps
  <1>1. \A o \in Operation :
           /\ Without(os)[o] = IF o \in os THEN None ELSE operation[o]
           /\ kind'[o] = IF o \in os THEN NoField ELSE kind[o]
    BY DEF Without, WithoutFields
  <1>2. \A o \in Operation : kind[o] \in Kinds
    BY CatalogSays
  <1>3. kind' \in [Operation -> Kinds] /\ survey' \in [Template -> {None} \union SUBSET Variable]
    BY <1>2, NoFieldIs DEF WithoutFields, CInv, CatalogTypeOK
  <1>4. \A o \in Operation, x \in Variable : FieldStep(o, x)
    BY <1>1, NoFieldIs DEF FieldStep
  <1>5. \A o \in Operation :
            LET fields == {x \in Variable : kind'[o][x] # "NONE"}
            IN  /\ operation'[o] = None => fields = {}
                /\ operation'[o] # None /\ operation'[o].template # None
                      => fields = survey'[operation'[o].template]
    BY <1>1, NoFieldIs, CatalogSays DEF Exists
  <1> QED
    BY <1>3, <1>4, <1>5, CatalogKept

LEMMA WithoutIsRows ==
  ASSUME CInv, NEW os \in SUBSET Operation
  PROVE  Without(os) \in Rows
  BY DEF CInv, CatalogTypeOK, Rows, Without

LEMMA DeleteServiceKeeps ==
  ASSUME CInv, NEW s \in Service, DeleteService(s)
  PROVE  CInv' /\ FieldSteps
  <1> DEFINE os == {o \in Operation : Exists(o) /\ operation[o].service = s}
  <1>1. /\ service' = [service EXCEPT ![s] = "NONE"]
        /\ operation' = Without(os) /\ kind' = WithoutFields(os) /\ UNCHANGED survey
    BY DEF DeleteService
  <1>2. service' \in [Service -> {"NONE", "DISABLED", "ENABLED"}]
    BY <1>1 DEF CInv, CatalogTypeOK
  <1>3. os \in SUBSET Operation
    OBVIOUS
  <1> HIDE DEF os
  <1> QED
    BY <1>1, <1>2, <1>3, WithoutIsRows, DeletionKeeps

LEMMA DeleteOperationKeeps ==
  ASSUME CInv, NEW o \in Operation, DeleteOperation(o)
  PROVE  CInv' /\ FieldSteps
  <1> DEFINE s == operation[o].service
  <1>1. Exists(o) /\ kind' = WithoutFields({o}) /\ UNCHANGED survey
    BY DEF DeleteOperation
  <1>2. s \in Service
    BY <1>1, CatalogSays DEF Row
  <1>3. \/ SaveService(s, FALSE, Without({o}))
        \/ operation' = Without({o}) /\ UNCHANGED service
    BY DEF DeleteOperation
  <1> HIDE DEF s
  <1>4. Without({o}) \in Rows /\ service \in [Service -> {"NONE", "DISABLED", "ENABLED"}]
    BY WithoutIsRows DEF CInv, CatalogTypeOK
  <1>5. /\ service' \in [Service -> {"NONE", "DISABLED", "ENABLED"}] /\ operation' \in Rows
        /\ \A q \in Operation :
              /\ operation'[q] = None <=> Without({o})[q] = None
              /\ Without({o})[q] # None => operation'[q].template = Without({o})[q].template
    BY <1>2, <1>3, <1>4, SaveServiceIs
  <1> QED
    BY <1>1, <1>5, DeletionKeeps

(* The row of o is stored, and its fields become k. *)
Storing(o, row, k) ==
  /\ service' \in [Service -> {"NONE", "DISABLED", "ENABLED"}]
  /\ operation' \in Rows
  /\ \A q \in Operation :
        /\ operation'[q] = None <=> Stored(o, row)[q] = None
        /\ Stored(o, row)[q] # None => operation'[q].template = Stored(o, row)[q].template
  /\ kind' = [kind EXCEPT ![o] = k] /\ UNCHANGED survey
  /\ row.template # None => {x \in Variable : k[x] # "NONE"} = survey[row.template]
  /\ \A x \in Variable : k[x] = kind[o][x] \/ k[x] = "NONE" \/ (kind[o][x] = "NONE" /\ k[x] = "USER")

LEMMA StoringKeeps ==
  ASSUME CInv, NEW o \in Operation, NEW row \in Row, NEW k \in Kinds, Storing(o, row, k)
  PROVE  CInv' /\ FieldSteps
  <1> USE DEF Storing
  <1>1. operation \in Rows /\ kind \in [Operation -> Kinds]
    BY DEF CInv, CatalogTypeOK, Rows, Kinds
  <1>2. \A q \in Operation :
           /\ Stored(o, row)[q] = IF q = o THEN row ELSE operation[q]
           /\ kind'[q] = IF q = o THEN k ELSE kind[q]
    BY <1>1 DEF Stored, Rows
  <1>3. row # None
    BY RowAssumption
  <1>4. kind' \in [Operation -> Kinds] /\ survey' \in [Template -> {None} \union SUBSET Variable]
    BY <1>1 DEF CInv, CatalogTypeOK
  <1>5. \A q \in Operation, x \in Variable : FieldStep(q, x)
    BY <1>2 DEF FieldStep
  <1>6. \A q \in Operation :
            LET fields == {x \in Variable : kind'[q][x] # "NONE"}
            IN  /\ operation'[q] = None => fields = {}
                /\ operation'[q] # None /\ operation'[q].template # None
                      => fields = survey'[operation'[q].template]
    BY <1>2, <1>3, CatalogSays DEF Exists
  <1> QED
    BY <1>4, <1>5, <1>6, CatalogKept

LEMMA StoredIsRows ==
  ASSUME CInv, NEW o \in Operation, NEW row \in Row
  PROVE  Stored(o, row) \in Rows
  BY DEF CInv, CatalogTypeOK, Rows, Stored

LEMMA CreateOperationKeeps ==
  ASSUME CInv, NEW o \in Operation, NEW row \in Row, CreateOperation(o, row)
  PROVE  CInv' /\ FieldSteps
  <1> DEFINE k == IF row.template = None THEN kind[o] ELSE DefaultSurvey(survey[row.template])
  <1>1. row.service \in Service /\ row.template \in Template \union {None}
    BY DEF Row
  <1>2. /\ Stored(o, row) \in Rows /\ service \in [Service -> {"NONE", "DISABLED", "ENABLED"}]
        /\ kind \in [Operation -> Kinds] /\ survey \in [Template -> {None} \union SUBSET Variable]
    BY StoredIsRows DEF CInv, CatalogTypeOK, Kinds
  <1>3. \/ SaveService(row.service, TRUE, Stored(o, row))
        \/ operation' = Stored(o, row) /\ UNCHANGED service
    BY DEF CreateOperation
  <1>4. /\ service' \in [Service -> {"NONE", "DISABLED", "ENABLED"}] /\ operation' \in Rows
        /\ \A q \in Operation :
              /\ operation'[q] = None <=> Stored(o, row)[q] = None
              /\ Stored(o, row)[q] # None => operation'[q].template = Stored(o, row)[q].template
    BY <1>1, <1>2, <1>3, SaveServiceIs
  <1>5. row.template # None => survey[row.template] \in SUBSET Variable
    BY <1>1, <1>2 DEF CreateOperation
  <1>6. \A x \in Variable : kind[o][x] = "NONE"
    BY CatalogSays DEF CreateOperation
  <1>7. /\ k \in Kinds
        /\ row.template # None => {x \in Variable : k[x] # "NONE"} = survey[row.template]
        /\ \A x \in Variable : k[x] \in {"NONE", "USER"}
    BY <1>2, <1>5, <1>6, DefaultSurveyIs
  <1>8. kind' = [kind EXCEPT ![o] = k] /\ UNCHANGED survey
    BY <1>2 DEF CreateOperation
  <1> HIDE DEF k
  <1>9. \A x \in Variable : k[x] = kind[o][x] \/ k[x] = "NONE" \/ (kind[o][x] = "NONE" /\ k[x] = "USER")
    BY <1>6, <1>7
  <1>10. k \in Kinds /\ (row.template # None => {x \in Variable : k[x] # "NONE"} = survey[row.template])
    BY <1>7
  <1>11. Storing(o, row, k)
    BY <1>4, <1>8, <1>9, <1>10 DEF Storing
  <1> QED
    BY <1>10, <1>11, StoringKeeps

LEMMA EditOperationKeeps ==
  ASSUME CInv, NEW o \in Operation, NEW row \in Row, EditOperation(o, row)
  PROVE  CInv' /\ FieldSteps
  <1> DEFINE k == IF row.template \in {None, operation[o].template} THEN kind[o]
                  ELSE UpdateSurvey(kind[o], survey[row.template])
  <1>1. row.service \in Service /\ row.template \in Template \union {None} /\ Exists(o)
    BY DEF Row, EditOperation
  <1>2. /\ Stored(o, row) \in Rows /\ service \in [Service -> {"NONE", "DISABLED", "ENABLED"}]
        /\ kind \in [Operation -> Kinds] /\ survey \in [Template -> {None} \union SUBSET Variable]
    BY StoredIsRows DEF CInv, CatalogTypeOK, Kinds
  <1>3. \/ SaveService(row.service, FALSE, Stored(o, row))
        \/ /\ operation' = Stored(o, row)
           /\ service' = service \/ service' = [service EXCEPT ![row.service] = "ENABLED"]
    BY DEF EditOperation
  <1>4. /\ service' \in [Service -> {"NONE", "DISABLED", "ENABLED"}] /\ operation' \in Rows
        /\ \A q \in Operation :
              /\ operation'[q] = None <=> Stored(o, row)[q] = None
              /\ Stored(o, row)[q] # None => operation'[q].template = Stored(o, row)[q].template
    BY <1>1, <1>2, <1>3, SaveServiceIs
  <1>5. row.template # None => survey[row.template] \in SUBSET Variable
    BY <1>1, <1>2 DEF EditOperation
  <1>6. /\ k \in Kinds
        /\ row.template # None => {x \in Variable : k[x] # "NONE"} = survey[row.template]
        /\ \A x \in Variable : k[x] = kind[o][x] \/ k[x] = "NONE" \/ (kind[o][x] = "NONE" /\ k[x] = "USER")
    <2>1. CASE row.template \in {None, operation[o].template}
      BY <1>1, <2>1, CatalogSays
    <2>2. CASE row.template \notin {None, operation[o].template}
      <3>1. k = UpdateSurvey(kind[o], survey[row.template]) /\ kind[o] \in Kinds
        BY <1>2, <2>2
      <3> QED
        BY <1>5, <2>2, <3>1, UpdateSurveyIs
    <2> QED
      BY <2>1, <2>2
  <1>7. kind' = [kind EXCEPT ![o] = k] /\ UNCHANGED survey
    BY <1>2 DEF EditOperation
  <1> HIDE DEF k
  <1>8. Storing(o, row, k)
    BY <1>4, <1>6, <1>7 DEF Storing
  <1> QED
    BY <1>6, <1>8, StoringKeeps

LEMMA SwitchFieldKeeps ==
  ASSUME CInv, NEW o \in Operation, NEW y \in Variable, SwitchField(o, y)
  PROVE  CInv' /\ FieldSteps
  <1> DEFINE k == Switched(kind[o], y)
  <1>1. kind[o] \in Kinds /\ kind \in [Operation -> Kinds] /\ kind[o][y] # "NONE"
    BY DEF CInv, CatalogTypeOK, Kinds, SwitchField, Fields
  <1>2. k \in Kinds /\ \A x \in Variable : (x # y => k[x] = kind[o][x]) /\ (k[x] = "NONE" <=> kind[o][x] = "NONE")
    BY <1>1 DEF Kinds, Switched
  <1>3. kind' = [kind EXCEPT ![o] = k] /\ UNCHANGED <<service, operation, survey>>
    BY DEF SwitchField
  <1> HIDE DEF k
  <1>4. \A q \in Operation : kind'[q] = IF q = o THEN k ELSE kind[q]
    BY <1>1, <1>3
  <1>5. \A q \in Operation, x \in Variable : FieldStep(q, x)
    BY <1>2, <1>4 DEF FieldStep
  <1>6. \A q \in Operation : {x \in Variable : kind'[q][x] # "NONE"} = {x \in Variable : kind[q][x] # "NONE"}
    BY <1>2, <1>4
  <1>7. /\ service' \in [Service -> {"NONE", "DISABLED", "ENABLED"}] /\ operation' \in Rows
        /\ survey' \in [Template -> {None} \union SUBSET Variable] /\ kind' \in [Operation -> Kinds]
    BY <1>1, <1>2, <1>3 DEF CInv, CatalogTypeOK, Rows
  <1>8. \A q \in Operation :
            LET fields == {x \in Variable : kind'[q][x] # "NONE"}
            IN  /\ operation'[q] = None => fields = {}
                /\ operation'[q] # None /\ operation'[q].template # None
                      => fields = survey'[operation'[q].template]
    BY <1>3, <1>6, CatalogSays DEF Exists
  <1> QED
    BY <1>5, <1>7, <1>8, CatalogKept

LEMMA SyncTemplateKeeps ==
  ASSUME CInv, NEW t \in Template, NEW xs \in SUBSET Variable, SyncTemplate(t, xs)
  PROVE  CInv' /\ FieldSteps
  <1>1. /\ survey' = [survey EXCEPT ![t] = xs] /\ UNCHANGED <<service, operation>>
        /\ kind' = [o \in Operation |-> IF Exists(o) /\ operation[o].template = t
                                        THEN UpdateSurvey(kind[o], xs) ELSE kind[o]]
    BY DEF SyncTemplate
  <1>2. ASSUME NEW o \in Operation
        PROVE  /\ kind'[o] \in Kinds
               /\ \A x \in Variable : FieldStep(o, x)
               /\ Exists(o) /\ operation[o].template = t => {x \in Variable : kind'[o][x] # "NONE"} = xs
    <2>1. kind[o] \in Kinds
      BY CatalogSays
    <2> QED
      BY <1>1, <2>1, UpdateSurveyIs DEF FieldStep
  <1>3. /\ service' \in [Service -> {"NONE", "DISABLED", "ENABLED"}] /\ operation' \in Rows
        /\ survey' \in [Template -> {None} \union SUBSET Variable] /\ kind' \in [Operation -> Kinds]
    BY <1>1, <1>2 DEF CInv, CatalogTypeOK, Rows
  <1>4. \A o \in Operation :
            LET fields == {x \in Variable : kind'[o][x] # "NONE"}
            IN  /\ operation'[o] = None => fields = {}
                /\ operation'[o] # None /\ operation'[o].template # None
                      => fields = survey'[operation'[o].template]
    <2> SUFFICES ASSUME NEW o \in Operation
                 PROVE  LET fields == {x \in Variable : kind'[o][x] # "NONE"}
                        IN  /\ operation'[o] = None => fields = {}
                            /\ operation'[o] # None /\ operation'[o].template # None
                                  => fields = survey'[operation'[o].template]
      OBVIOUS
    <2>1. CASE Exists(o) /\ operation[o].template = t
      <3>1. survey'[t] = xs
        BY <1>1 DEF CInv, CatalogTypeOK
      <3> QED
        BY <1>1, <1>2, <2>1, <3>1 DEF Exists
    <2>2. CASE ~(Exists(o) /\ operation[o].template = t)
      <3>1. kind'[o] = kind[o]
        BY <1>1, <2>2
      <3>2. Exists(o) /\ operation[o].template # None => survey'[operation[o].template] = survey[operation[o].template]
        BY <1>1, <2>2, CatalogSays DEF Row, CInv, CatalogTypeOK
      <3> QED
        BY <1>1, <3>1, <3>2, CatalogSays DEF Exists
    <2> QED
      BY <2>1, <2>2
  <1> QED
    BY <1>2, <1>3, <1>4, CatalogKept

LEMMA DeleteTemplatesKeeps ==
  ASSUME CInv, NEW ts \in SUBSET Template, DeleteTemplates(ts)
  PROVE  CInv' /\ FieldSteps
  <1> DEFINE cut(o) == [operation[o] EXCEPT !.template = None]
  <1>1. /\ service' = [s \in Service |-> IF s \in ServicesUsing(ts) THEN "DISABLED" ELSE service[s]]
        /\ operation' = [o \in Operation |-> IF Exists(o) /\ operation[o].template \in ts
                                             THEN cut(o) ELSE operation[o]]
        /\ survey' = [t \in Template |-> IF t \in ts THEN None ELSE survey[t]]
        /\ UNCHANGED kind
    BY DEF DeleteTemplates
  <1>2. ASSUME NEW o \in Operation, Exists(o)
        PROVE  operation[o] \in Row /\ cut(o) \in Row /\ cut(o).template = None
    <2>1. operation[o] \in Row
      BY <1>2, CatalogSays
    <2> DEFINE q == operation[o]
    <2> HIDE DEF q
    <2>2. q \in Row
      BY <2>1 DEF q
    <2>3. [q EXCEPT !.template = None] \in Row /\ [q EXCEPT !.template = None].template = None
      BY <2>2 DEF Row
    <2> QED
      BY <2>1, <2>3 DEF q
  <1> HIDE DEF cut
  <1>3. /\ operation' \in Rows
        /\ \A o \in Operation : operation'[o] # None /\ operation'[o].template # None =>
               operation'[o] = operation[o] /\ operation[o].template \notin ts
    BY <1>1, <1>2, RowAssumption DEF CInv, CatalogTypeOK, Rows, Exists
  <1>4. /\ service' \in [Service -> {"NONE", "DISABLED", "ENABLED"}]
        /\ survey' \in [Template -> {None} \union SUBSET Variable] /\ kind' \in [Operation -> Kinds]
    BY <1>1 DEF CInv, CatalogTypeOK, Kinds
  <1>5. \A o \in Operation, x \in Variable : FieldStep(o, x)
    BY <1>1 DEF FieldStep
  <1>6. \A o \in Operation :
            LET fields == {x \in Variable : kind'[o][x] # "NONE"}
            IN  /\ operation'[o] = None => fields = {}
                /\ operation'[o] # None /\ operation'[o].template # None
                      => fields = survey'[operation'[o].template]
    <2> SUFFICES ASSUME NEW o \in Operation
                 PROVE  /\ operation'[o] = None => {x \in Variable : kind[o][x] # "NONE"} = {}
                        /\ operation'[o] # None /\ operation'[o].template # None
                              => {x \in Variable : kind[o][x] # "NONE"} = survey'[operation'[o].template]
      BY <1>1
    <2>1. operation'[o] = None => ~Exists(o)
      BY <1>1, <1>2, RowAssumption DEF Exists
    <2>2. ASSUME operation'[o] # None, operation'[o].template # None
          PROVE  survey'[operation'[o].template] = survey[operation[o].template] /\ Exists(o)
                 /\ operation[o].template # None
      BY <1>1, <1>2, <1>3, <2>2 DEF Row, Exists
    <2> QED
      BY <2>1, <2>2, CatalogSays
  <1> QED
    BY <1>3, <1>4, <1>5, <1>6, CatalogKept

LEMMA CatalogStepKeeps ==
  ASSUME CInv, CatalogNext
  PROVE  CInv' /\ FieldSteps
  <1>1. ASSUME NEW s \in Service, CreateServiceUI(s) \/ CreateServiceAPI(s)
        PROVE  CInv' /\ FieldSteps
    <2>1. service' \in [Service -> {"NONE", "DISABLED", "ENABLED"}] /\ UNCHANGED <<operation, survey, kind>>
      BY <1>1 DEF CreateServiceUI, CreateServiceAPI, CInv, CatalogTypeOK
    <2> QED
      BY <2>1, ServicesOnlyKeep
  <1>2. ASSUME NEW s \in Service, DeleteService(s) PROVE CInv' /\ FieldSteps
    BY <1>2, DeleteServiceKeeps
  <1>3. ASSUME NEW s \in Service, NEW on \in BOOLEAN, EditService(s, on) PROVE CInv' /\ FieldSteps
    BY <1>3, EditServiceKeeps
  <1>4. ASSUME NEW o \in Operation, NEW row \in Row, CreateOperation(o, row) \/ EditOperation(o, row)
        PROVE  CInv' /\ FieldSteps
    BY <1>4, CreateOperationKeeps, EditOperationKeeps
  <1>5. ASSUME NEW o \in Operation, DeleteOperation(o) PROVE CInv' /\ FieldSteps
    BY <1>5, DeleteOperationKeeps
  <1>6. ASSUME NEW o \in Operation, NEW x \in Variable, SwitchField(o, x) PROVE CInv' /\ FieldSteps
    BY <1>6, SwitchFieldKeeps
  <1>7. ASSUME NEW t \in Template, NEW xs \in SUBSET Variable, SyncTemplate(t, xs) PROVE CInv' /\ FieldSteps
    BY <1>7, SyncTemplateKeeps
  <1>8. ASSUME NEW ts \in SUBSET Template, DeleteTemplates(ts) PROVE CInv' /\ FieldSteps
    BY <1>8, DeleteTemplatesKeeps
  <1> QED
    BY <1>1, <1>2, <1>3, <1>4, <1>5, <1>6, <1>7, <1>8 DEF CatalogNext, CatalogUpkeep

-----------------------------------------------------------------------------
(* The rows of requests.                                                   *)

LEMMA UpdatedIs ==
  ASSUME NEW d \in Answers, NEW v \in [Variable -> Value], NEW xs \in SUBSET Variable
  PROVE  LET new == Updated(d, xs, v)
         IN  /\ new \in Answers
             /\ \A x \in Variable : new[x] = IF x \in xs THEN v[x] ELSE d[x]
             /\ \A x \in xs : new[x] # None
  BY ValueAssumption DEF Updated, Answers

LEMMA BlankIs == Blank \in Answers /\ \A x \in Variable : Blank[x] = None
  BY DEF Blank, Answers

LEMMA NoStepsIs ==
  /\ NoSteps \in [Step -> Answers]
  /\ \A s \in Step, x \in Variable : NoSteps[s][x] = None
  BY BlankIs DEF NoSteps

(* The last of some steps: as far from MaxStep as the first of the naturals it leaves. *)
LEMMA LastStep ==
  ASSUME NEW S \in SUBSET Step, S # {}
  PROVE  Max(S) \in S
  <1> DEFINE T == {MaxStep - s : s \in S}
             R == OpToRel(<, Nat)
  <1>1. MaxStep \in Nat /\ \A s \in S : s \in Nat /\ s <= MaxStep
    BY StepAssumption DEF Step
  <1>2. T \subseteq Nat /\ T # {}
    BY <1>1
  <1>8. IsWellFoundedOn(R, Nat)
    BY NatLessThanWellFounded
  <1>9. \A n, m \in Nat : n < m => <<n, m>> \in R
    BY DEF OpToRel
  <1> HIDE DEF T, R
  <1>3. PICK m \in T : \A n \in T : <<n, m>> \notin R
    BY <1>2, <1>8, WFMin, Zenon
  <1>4. ASSUME NEW n \in T PROVE m <= n
    <2>1. n \in Nat /\ m \in Nat
      BY <1>2
    <2>2. ~(n < m)
      BY <1>3, <1>9, <2>1
    <2> QED
      BY <2>1, <2>2
  <1>5. PICK t \in S : m = MaxStep - t
    BY <1>3 DEF T
  <1>6. \A s \in S : s <= t
    <2> SUFFICES ASSUME NEW s \in S PROVE s <= t
      OBVIOUS
    <2>1. m <= MaxStep - s
      BY <1>4 DEF T
    <2> QED
      BY <1>1, <1>5, <2>1
  <1>7. \E u \in S : \A s \in S : u >= s
    BY <1>1, <1>6
  <1> QED
    BY <1>7 DEF Max

(* The steps have an answer exactly if one of them has. *)
LEMMA StepAnswerIs ==
  ASSUME NEW q, NEW x \in Variable
  PROVE  StepAnswer(q, x) = None <=> Holders(q, x) = {}
  <1>1. CASE Holders(q, x) # {}
    <2>1. Holders(q, x) \in SUBSET Step
      BY DEF Holders
    <2>2. Max(Holders(q, x)) \in Holders(q, x)
      BY <1>1, <2>1, LastStep
    <2>3. q.steps[Max(Holders(q, x))][x] # None
      BY <2>2 DEF Holders
    <2> QED
      BY <1>1, <2>3 DEF StepAnswer
  <1>2. CASE Holders(q, x) = {}
    BY <1>2 DEF StepAnswer
  <1> QED
    BY <1>1, <1>2

LEMMA FullSurveyIs ==
  ASSUME NEW q, NEW x \in Variable
  PROVE  FullSurvey(q, x) # None <=> q.admin[x] # None \/ Holders(q, x) # {} \/ q.user[x] # None
  BY StepAnswerIs DEF FullSurvey

ToAdmin(q, old, new, x) == old[x] = "USER" /\ new[x] = "ADMIN" /\ q.user[x] # None
ToUser(q, old, new, x) == old[x] = "ADMIN" /\ new[x] = "USER" /\ q.admin[x] # None

LEMMA CarriedIs ==
  ASSUME NEW q \in RequestRow, NEW old \in Kinds, NEW new \in Kinds
  PROVE  LET c == Carried(q, old, new)
         IN  /\ c \in RequestRow /\ c.operation = q.operation /\ c.steps = q.steps
             /\ \A x \in Variable :
                  /\ c.user[x] = IF ToUser(q, old, new, x) THEN q.admin[x]
                                 ELSE IF ToAdmin(q, old, new, x) THEN None ELSE q.user[x]
                  /\ c.admin[x] = IF ToAdmin(q, old, new, x) THEN q.user[x]
                                  ELSE IF ToUser(q, old, new, x) THEN None ELSE q.admin[x]
  <1> DEFINE user == [x \in Variable |-> IF ToUser(q, old, new, x) THEN q.admin[x]
                                         ELSE IF ToAdmin(q, old, new, x) THEN None ELSE q.user[x]]
             admin == [x \in Variable |-> IF ToAdmin(q, old, new, x) THEN q.user[x]
                                          ELSE IF ToUser(q, old, new, x) THEN None ELSE q.admin[x]]
             c == Carried(q, old, new)
  <1>1. c = [q EXCEPT !.user = user, !.admin = admin]
    BY DEF Carried, ToUser, ToAdmin
  <1>2. q.user \in Answers /\ q.admin \in Answers /\ q.steps \in [Step -> Answers]
    BY DEF RequestRow
  <1>3. user \in Answers /\ admin \in Answers
    BY <1>2 DEF Answers
  <1>4. \A x \in Variable :
          /\ user[x] = IF ToUser(q, old, new, x) THEN q.admin[x]
                       ELSE IF ToAdmin(q, old, new, x) THEN None ELSE q.user[x]
          /\ admin[x] = IF ToAdmin(q, old, new, x) THEN q.user[x]
                        ELSE IF ToUser(q, old, new, x) THEN None ELSE q.admin[x]
    OBVIOUS
  <1> HIDE DEF user, admin, c
  <1>5. /\ c \in RequestRow /\ c.operation = q.operation /\ c.steps = q.steps
        /\ c.user = user /\ c.admin = admin
    BY <1>1, <1>3 DEF RequestRow
  <1> QED
    BY <1>4, <1>5 DEF c

(* What the invariant says of one request. *)
LEMMA RequestSays ==
  ASSUME IInv, NEW r \in Request, Open(r)
  PROVE  /\ request[r] \in RequestRow /\ request[r].operation \in Operation
         /\ Exists(request[r].operation)
         /\ request[r].user \in Answers /\ request[r].steps \in [Step -> Answers] /\ request[r].admin \in Answers
         /\ kind[request[r].operation] \in Kinds
         /\ \A x \in Variable : request[r].user[x] # None => kind[request[r].operation][x] # "ADMIN"
  <1>1. request[r] \in RequestRow
    BY DEF IInv, TypeOK, Open
  <1>2. /\ request[r].operation \in Operation
        /\ request[r].user \in Answers /\ request[r].steps \in [Step -> Answers] /\ request[r].admin \in Answers
    BY <1>1 DEF RequestRow
  <1>3. kind[request[r].operation] \in Kinds
    BY <1>2 DEF IInv, TypeOK, CatalogTypeOK, Kinds
  <1> QED
    BY <1>1, <1>2, <1>3 DEF IInv, TypeOK, HiddenFromUser, Open, Kind

(* A step changes one request, and the request it leaves is sound. *)
LEMMA RequestKept ==
  ASSUME IInv, NEW r \in Request, NEW q \in RequestRow \union {None},
         request' = [request EXCEPT ![r] = q], UNCHANGED catalogVars,
         q # None => /\ Exists(q.operation)
                     /\ \A x \in Variable : q.user[x] # None => kind[q.operation][x] # "ADMIN"
  PROVE  IInv'
  <1>1. request \in [Request -> {None} \union RequestRow]
    BY DEF IInv, TypeOK
  <1>2. \A p \in Request : request'[p] = IF p = r THEN q ELSE request[p]
    BY <1>1
  <1>3. UNCHANGED <<service, operation, survey, kind>>
    BY DEF catalogVars
  <1>4. CatalogTypeOK' /\ SurveyFollows' /\ NoStrayFields'
    BY <1>3 DEF IInv, TypeOK, CatalogTypeOK, SurveyFollows, NoStrayFields, Exists, Fields
  <1>5. request' \in [Request -> {None} \union RequestRow]
    BY <1>1
  <1>6. ASSUME NEW p \in Request, request'[p] # None
        PROVE  /\ operation'[request'[p].operation] # None
               /\ \A x \in Variable : request'[p].user[x] # None => kind'[request'[p].operation][x] # "ADMIN"
    <2>1. CASE p = r
      BY <1>2, <1>3, <1>6, <2>1 DEF Exists
    <2>2. CASE p # r
      BY <1>2, <1>3, <1>6, <2>2, RequestSays DEF Open, Exists
    <2> QED
      BY <2>1, <2>2
  <1> QED
    BY <1>4, <1>5, <1>6 DEF IInv, TypeOK, HiddenFromUser, Open, Kind, Exists

(* A step takes answers from several requests, but none from their users. *)
LEMMA RequestsKept ==
  ASSUME IInv, UNCHANGED catalogVars, request' = [r \in Request |-> request'[r]],
         \A r \in Request : request'[r] # None =>
            /\ Open(r) /\ request'[r] \in RequestRow
            /\ request'[r].operation = request[r].operation /\ request'[r].user = request[r].user
  PROVE  IInv'
  <1>1. UNCHANGED <<service, operation, survey, kind>>
    BY DEF catalogVars
  <1>2. CatalogTypeOK' /\ SurveyFollows' /\ NoStrayFields'
    BY <1>1 DEF IInv, TypeOK, CatalogTypeOK, SurveyFollows, NoStrayFields, Exists, Fields
  <1>3. request' \in [Request -> {None} \union RequestRow]
    OBVIOUS
  <1>4. ASSUME NEW p \in Request, request'[p] # None
        PROVE  /\ operation'[request'[p].operation] # None
               /\ \A x \in Variable : request'[p].user[x] # None => kind'[request'[p].operation][x] # "ADMIN"
    BY <1>1, <1>4, RequestSays DEF Exists
  <1> QED
    BY <1>2, <1>3, <1>4 DEF IInv, TypeOK, HiddenFromUser, Open, Kind, Exists

LEMMA InitOK == Init => IInv
  <1> SUFFICES ASSUME Init PROVE IInv
    OBVIOUS
  <1>1. CatalogTypeOK
    BY NoFieldIs DEF Init, CatalogInit, CatalogTypeOK, Kinds
  <1>2. \A o \in Operation : operation[o] = None /\ kind[o] = NoField
    BY DEF Init, CatalogInit
  <1>3. SurveyFollows /\ NoStrayFields
    BY <1>2, NoFieldIs DEF SurveyFollows, NoStrayFields, Exists, Fields
  <1>4. request = [r \in Request |-> None]
    BY DEF Init
  <1> QED
    BY <1>1, <1>3, <1>4 DEF IInv, TypeOK, HiddenFromUser, Open

-----------------------------------------------------------------------------
(* The answers are carried along by every change of the catalog.           *)

(* What such a step leaves of one request. *)
LEMMA CarriedAlong ==
  ASSUME IInv, CatalogNext, UnderCatalog, NEW r \in Request, request'[r] # None
  PROVE  LET o == request[r].operation
         IN  /\ Open(r) /\ o \in Operation /\ operation'[o] # None
             /\ kind[o] \in Kinds /\ kind'[o] \in Kinds
             /\ request'[r] = Carried(request[r], kind[o], kind'[o])
             /\ request'[r] \in RequestRow /\ request'[r].operation = o
  <1>1. /\ Open(r) /\ operation'[request[r].operation] # None
        /\ request'[r] = Carried(request[r], kind[request[r].operation], kind'[request[r].operation])
    BY DEF UnderCatalog, Kind
  <1>2. request[r] \in RequestRow /\ request[r].operation \in Operation /\ kind[request[r].operation] \in Kinds
    BY <1>1, RequestSays
  <1>3. CInv'
    BY CatalogStepKeeps DEF IInv, TypeOK, CInv
  <1>4. kind'[request[r].operation] \in Kinds
    BY <1>2, <1>3 DEF CInv, CatalogTypeOK, Kinds
  <1> QED
    BY <1>1, <1>2, <1>4, CarriedIs

LEMMA CatalogStepOK ==
  ASSUME IInv, CatalogNext, UnderCatalog
  PROVE  IInv'
  <1>1. CInv' /\ FieldSteps
    BY CatalogStepKeeps DEF IInv, TypeOK, CInv
  <1>2. ASSUME NEW r \in Request, request'[r] # None
        PROVE  /\ request'[r] \in RequestRow /\ operation'[request'[r].operation] # None
               /\ \A x \in Variable : request'[r].user[x] # None => kind'[request'[r].operation][x] # "ADMIN"
    <2> DEFINE o == request[r].operation
               q == request[r]
    <2>1. /\ Open(r) /\ o \in Operation /\ operation'[o] # None
          /\ kind[o] \in Kinds /\ kind'[o] \in Kinds
          /\ request'[r] = Carried(q, kind[o], kind'[o])
          /\ request'[r] \in RequestRow /\ request'[r].operation = o
      BY <1>2, CarriedAlong
    <2>2. /\ q \in RequestRow
          /\ \A x \in Variable : q.user[x] # None => kind[o][x] # "ADMIN"
      BY <2>1, RequestSays
    <2> HIDE DEF o, q
    <2>3. ASSUME NEW x \in Variable, kind'[o][x] = "ADMIN" PROVE request'[r].user[x] = None
      <3>1. request'[r].user[x] = IF ToUser(q, kind[o], kind'[o], x) THEN q.admin[x]
                                  ELSE IF ToAdmin(q, kind[o], kind'[o], x) THEN None ELSE q.user[x]
        BY <2>1, <2>2, CarriedIs
      <3>2. kind[o][x] \in {"USER", "ADMIN"}
        BY <1>1, <2>1, <2>3 DEF FieldSteps, FieldStep, SwitchField, Fields, Kinds
      <3> QED
        BY <2>2, <2>3, <3>1, <3>2 DEF ToUser, ToAdmin
    <2> QED
      BY <2>1, <2>3
  <1>3. request' = [r \in Request |-> request'[r]]
    BY DEF UnderCatalog
  <1>4. request' \in [Request -> {None} \union RequestRow]
    BY <1>2, <1>3
  <1> QED
    BY <1>1, <1>2, <1>4 DEF CInv, IInv, TypeOK, HiddenFromUser, Open, Kind, Exists

-----------------------------------------------------------------------------
(* The answers given to a request.                                         *)

LEMMA RequestOperationOK ==
  ASSUME IInv, UNCHANGED catalogVars, NEW r \in Request, NEW o \in Operation, NEW current \in {1, None},
         NEW v \in [Variable -> Value], RequestOperation(r, o, current, v)
  PROVE  IInv'
  <1> DEFINE xs == {x \in Variable : kind[o][x] = "USER"}
             user == Updated(Blank, xs, v)
             q == [operation |-> o, current |-> current, steps |-> NoSteps, admin |-> Blank, user |-> user]
  <1>1. user \in Answers /\ \A x \in Variable : user[x] # None => kind[o][x] # "ADMIN"
    BY BlankIs, UpdatedIs
  <1>2. Exists(o) /\ request' = [request EXCEPT ![r] = q]
    BY DEF RequestOperation
  <1> HIDE DEF user
  <1>3. q \in RequestRow /\ q.operation = o /\ q.user = user
    BY <1>1, BlankIs, NoStepsIs, StepAssumption DEF RequestRow, Step
  <1> HIDE DEF q
  <1> QED
    BY <1>1, <1>2, <1>3, RequestKept

LEMMA ApproveStepOK ==
  ASSUME IInv, UNCHANGED catalogVars, NEW r \in Request, NEW next \in Step \union {None},
         NEW xs \in SUBSET Variable, NEW v \in [Variable -> Value], ApproveStep(r, next, xs, v)
  PROVE  IInv'
  <1> DEFINE p == request[r]
             new == Updated(Blank, xs, v)
             steps == [p.steps EXCEPT ![p.current] = new]
             q == [p EXCEPT !.steps = steps, !.current = next]
  <1>2. /\ Open(r) /\ p \in RequestRow /\ p.steps \in [Step -> Answers] /\ Exists(p.operation)
        /\ \A x \in Variable : p.user[x] # None => kind[p.operation][x] # "ADMIN"
    BY RequestSays DEF ApproveStep
  <1>1. request' = [request EXCEPT ![r] = q]
    BY DEF ApproveStep
  <1> HIDE DEF p
  <1>3. new \in Answers
    BY BlankIs, UpdatedIs
  <1> HIDE DEF new
  <1>5. steps \in [Step -> Answers]
    BY <1>2, <1>3
  <1> HIDE DEF steps
  <1>4. q \in RequestRow /\ q.operation = p.operation /\ q.user = p.user
    BY <1>2, <1>5 DEF RequestRow
  <1> HIDE DEF q
  <1> QED
    BY <1>1, <1>2, <1>4, RequestKept

LEMMA SetupApprovalWorkflowOK ==
  ASSUME IInv, UNCHANGED catalogVars, NEW r \in Request, NEW current \in {1, None},
         SetupApprovalWorkflow(r, current)
  PROVE  IInv'
  <1> DEFINE p == request[r]
             q == [p EXCEPT !.steps = NoSteps, !.current = current]
  <1>1. Open(r) /\ request' = [request EXCEPT ![r] = q]
    BY DEF SetupApprovalWorkflow
  <1>2. /\ p \in RequestRow /\ Exists(p.operation)
        /\ \A x \in Variable : p.user[x] # None => kind[p.operation][x] # "ADMIN"
    BY <1>1, RequestSays
  <1> HIDE DEF p
  <1>4. current \in Step \union {None}
    BY StepAssumption DEF Step
  <1>3. q \in RequestRow /\ q.operation = p.operation /\ q.user = p.user
    BY <1>2, <1>4, NoStepsIs DEF RequestRow
  <1> HIDE DEF q
  <1> QED
    BY <1>1, <1>2, <1>3, RequestKept

(* What the administrator of the workflows makes of a request. *)
LEMMA WithoutWorkflowIs ==
  ASSUME NEW q \in RequestRow, NEW c, c = WithoutWorkflow(q)
  PROVE  c \in RequestRow /\ c.operation = q.operation /\ c.user = q.user
  BY NoStepsIs DEF WithoutWorkflow, RequestRow

LEMMA WithoutStepIs ==
  ASSUME NEW q \in RequestRow, NEW s \in Step
  PROVE  /\ WithoutStep(q, s) \in RequestRow
         /\ WithoutStep(q, s).operation = q.operation /\ WithoutStep(q, s).user = q.user
         /\ q.current # s => /\ WithoutStep(q, s).admin = q.admin
                            /\ \A t \in Step : t # s => WithoutStep(q, s).steps[t] = q.steps[t]
  <1> DEFINE steps == [q.steps EXCEPT ![s] = Blank]
  <1>1. q.steps \in [Step -> Answers]
    BY DEF RequestRow
  <1>2. steps \in [Step -> Answers] /\ \A t \in Step : t # s => steps[t] = q.steps[t]
    BY <1>1, BlankIs
  <1>3. q.current # s => WithoutStep(q, s) = [q EXCEPT !.steps = steps]
    BY DEF WithoutStep
  <1> HIDE DEF steps
  <1>4. CASE q.current # s
    BY <1>2, <1>3, <1>4 DEF RequestRow
  <1>5. CASE q.current = s
    BY <1>5, WithoutWorkflowIs DEF WithoutStep
  <1> QED
    BY <1>4, <1>5

LEMMA OtherIs ==
  ASSUME NEW s \in Step, NEW t \in Step, NEW x \in Step
  PROVE  Other(s, t, x) \in Step /\ Other(s, t, Other(s, t, x)) = x
  BY DEF Other

LEMMA ExchangedIs ==
  ASSUME NEW q \in RequestRow, NEW s \in Step, NEW t \in Step
  PROVE  /\ Exchanged(q, s, t) \in RequestRow /\ Exchanged(q, s, t).admin = q.admin
         /\ Exchanged(q, s, t).operation = q.operation /\ Exchanged(q, s, t).user = q.user
         /\ Exchanged(q, s, t).steps = [x \in Step |-> q.steps[Other(s, t, x)]]
  <1> DEFINE steps == [x \in Step |-> q.steps[Other(s, t, x)]]
             current == Other(s, t, q.current)
  <1>1. q.steps \in [Step -> Answers] /\ q.current \in Step \union {None}
    BY DEF RequestRow
  <1>2. \A x \in Step : Other(s, t, x) \in Step
    BY OtherIs
  <1>3. current \in Step \union {None}
    BY <1>1, StepAssumption DEF Other
  <1>4. steps \in [Step -> Answers]
    BY <1>1, <1>2
  <1>5. Exchanged(q, s, t) = [q EXCEPT !.steps = steps, !.current = current]
    BY DEF Exchanged
  <1> HIDE DEF steps, current
  <1>6. /\ Exchanged(q, s, t) \in RequestRow /\ Exchanged(q, s, t).admin = q.admin
        /\ Exchanged(q, s, t).operation = q.operation /\ Exchanged(q, s, t).user = q.user
        /\ Exchanged(q, s, t).steps = steps
    BY <1>3, <1>4, <1>5 DEF RequestRow
  <1> QED
    BY <1>6 DEF steps

LEMMA WorkflowChangeOK ==
  ASSUME IInv, UNCHANGED catalogVars, NEW rs \in SUBSET Request,
         \/ DeleteApprovalWorkflow(rs)
         \/ \E s \in Step : DeleteApprovalStep(rs, s)
         \/ \E s, t \in Step : MoveStep(rs, s, t)
  PROVE  IInv'
  <1>1. request' = [r \in Request |-> request'[r]]
    BY DEF DeleteApprovalWorkflow, DeleteApprovalStep, MoveStep
  <1>2. ASSUME NEW r \in Request, request'[r] # None
        PROVE  /\ Open(r) /\ request'[r] \in RequestRow
               /\ request'[r].operation = request[r].operation /\ request'[r].user = request[r].user
    <2>1. Open(r)
      BY <1>2 DEF DeleteApprovalWorkflow, DeleteApprovalStep, MoveStep, Open
    <2>2. request[r] \in RequestRow
      BY <2>1, RequestSays
    <2>6. CASE r \notin rs
      <3>1. request'[r] = request[r]
        BY <2>6 DEF DeleteApprovalWorkflow, DeleteApprovalStep, MoveStep
      <3> QED
        BY <2>1, <2>2, <3>1
    <2>3. CASE r \in rs /\ DeleteApprovalWorkflow(rs)
      <3>1. request'[r] = WithoutWorkflow(request[r])
        BY <2>1, <2>3 DEF DeleteApprovalWorkflow
      <3> QED
        BY <2>1, <2>2, <3>1, WithoutWorkflowIs
    <2>4. ASSUME r \in rs, NEW s \in Step, DeleteApprovalStep(rs, s)
          PROVE  /\ request'[r] \in RequestRow
                 /\ request'[r].operation = request[r].operation /\ request'[r].user = request[r].user
      <3>1. request'[r] = WithoutStep(request[r], s)
        BY <2>1, <2>4 DEF DeleteApprovalStep
      <3> QED
        BY <2>2, <3>1, WithoutStepIs
    <2>5. ASSUME r \in rs, NEW s \in Step, NEW t \in Step, MoveStep(rs, s, t)
          PROVE  /\ request'[r] \in RequestRow
                 /\ request'[r].operation = request[r].operation /\ request'[r].user = request[r].user
      <3>1. request'[r] = Exchanged(request[r], s, t)
        BY <2>1, <2>5 DEF MoveStep
      <3>2. Exchanged(request[r], s, t) \in RequestRow
        BY <2>2, ExchangedIs
      <3>3. Exchanged(request[r], s, t).operation = request[r].operation
        BY <2>2, ExchangedIs
      <3>4. Exchanged(request[r], s, t).user = request[r].user
        BY <2>2, ExchangedIs
      <3> QED
        BY <3>1, <3>2, <3>3, <3>4
    <2> QED
      BY <2>1, <2>3, <2>4, <2>5, <2>6
  <1> QED
    BY <1>1, <1>2, RequestsKept

LEMMA AcceptUIOK ==
  ASSUME IInv, UNCHANGED catalogVars, NEW r \in Request, NEW v \in [Variable -> Value], AcceptUI(r, v)
  PROVE  IInv'
  <1> DEFINE p == request[r]
             admin == Updated(Blank, Asked(r), v)
             q == [p EXCEPT !.admin = admin]
  <1>1. Open(r) /\ request' = [request EXCEPT ![r] = q]
    BY DEF AcceptUI
  <1>2. /\ p \in RequestRow /\ Exists(p.operation)
        /\ \A x \in Variable : p.user[x] # None => kind[p.operation][x] # "ADMIN"
    BY <1>1, RequestSays
  <1> HIDE DEF p
  <1>3. admin \in Answers
    BY BlankIs, UpdatedIs DEF Asked, Fields
  <1> HIDE DEF admin
  <1>4. q \in RequestRow /\ q.operation = p.operation /\ q.user = p.user
    BY <1>2, <1>3 DEF RequestRow
  <1> HIDE DEF q
  <1> QED
    BY <1>1, <1>2, <1>4, RequestKept

LEMMA AcceptAPIOK ==
  ASSUME IInv, UNCHANGED catalogVars, NEW r \in Request, NEW xs \in SUBSET Variable,
         NEW v \in [Variable -> Value], AcceptAPI(r, xs, v)
  PROVE  IInv'
  <1> DEFINE p == request[r]
             us == {x \in xs : Kind(r)[x] = "USER"}
             adm == {x \in xs : Kind(r)[x] = "ADMIN"}
             user == Updated(p.user, us, v)
             admin == Updated(p.admin, adm, v)
             q == [p EXCEPT !.user = user, !.admin = admin]
  <1>1. Open(r) /\ request' = [request EXCEPT ![r] = q]
    BY DEF AcceptAPI
  <1>2. /\ p \in RequestRow /\ p.user \in Answers /\ p.admin \in Answers /\ Exists(p.operation)
        /\ \A x \in Variable : p.user[x] # None => kind[p.operation][x] # "ADMIN"
    BY <1>1, RequestSays
  <1>3. us \in SUBSET Variable /\ adm \in SUBSET Variable /\ \A x \in us : kind[p.operation][x] = "USER"
    BY DEF Kind
  <1> HIDE DEF p, us, adm
  <1>4. /\ user \in Answers /\ admin \in Answers
        /\ \A x \in Variable : user[x] # None => kind[p.operation][x] # "ADMIN"
    <2>1. admin \in Answers
      BY <1>2, <1>3, UpdatedIs
    <2>2. user \in Answers /\ \A x \in Variable : user[x] = IF x \in us THEN v[x] ELSE p.user[x]
      BY <1>2, <1>3, UpdatedIs
    <2> HIDE DEF user, admin
    <2>3. \A x \in Variable : user[x] # None => kind[p.operation][x] # "ADMIN"
      BY <1>2, <1>3, <2>2
    <2> QED
      BY <2>1, <2>2, <2>3
  <1> HIDE DEF user, admin
  <1>5. q \in RequestRow /\ q.operation = p.operation /\ q.user = user
    BY <1>2, <1>4 DEF RequestRow
  <1> HIDE DEF q
  <1> QED
    BY <1>1, <1>2, <1>4, <1>5, RequestKept

LEMMA AnswerStepOK ==
  ASSUME IInv, AnswerStep, UNCHANGED catalogVars
  PROVE  IInv'
  <1>1. ASSUME NEW r \in Request, NEW o \in Operation, NEW current \in {1, None},
               NEW v \in [Variable -> Value], RequestOperation(r, o, current, v)
        PROVE  IInv'
    BY <1>1, RequestOperationOK
  <1>2. ASSUME NEW r \in Request, NEW next \in Step \union {None}, NEW xs \in SUBSET Variable,
               NEW v \in [Variable -> Value], ApproveStep(r, next, xs, v)
        PROVE  IInv'
    BY <1>2, ApproveStepOK
  <1>3. ASSUME NEW r \in Request, NEW current \in {1, None}, SetupApprovalWorkflow(r, current)
        PROVE  IInv'
    BY <1>3, SetupApprovalWorkflowOK
  <1>4. ASSUME NEW r \in Request, NEW v \in [Variable -> Value], AcceptUI(r, v)
        PROVE  IInv'
    BY <1>4, AcceptUIOK
  <1>5. ASSUME NEW r \in Request, NEW xs \in SUBSET Variable, NEW v \in [Variable -> Value], AcceptAPI(r, xs, v)
        PROVE  IInv'
    BY <1>5, AcceptAPIOK
  <1>6. ASSUME NEW r \in Request, DeleteRequest(r)
        PROVE  IInv'
    BY <1>6, RequestKept DEF DeleteRequest
  <1>7. ASSUME NEW rs \in SUBSET Request,
               \/ DeleteApprovalWorkflow(rs)
               \/ \E s \in Step : DeleteApprovalStep(rs, s)
               \/ \E s, t \in Step : s < t /\ MoveStep(rs, s, t)
        PROVE  IInv'
    BY <1>7, WorkflowChangeOK
  <1> QED
    BY <1>1, <1>2, <1>3, <1>4, <1>5, <1>6, <1>7 DEF AnswerStep

LEMMA StutterOK ==
  ASSUME IInv, UNCHANGED vars
  PROVE  IInv'
  BY DEF IInv, TypeOK, CatalogTypeOK, SurveyFollows, NoStrayFields, HiddenFromUser, Exists, Fields, Open, Kind,
         vars, catalogVars

LEMMA InvHolds == Spec => []IInv
  <1>1. IInv /\ [Next]_vars => IInv'
    BY CatalogStepOK, AnswerStepOK, StutterOK DEF Next
  <1> QED
    BY InitOK, <1>1, PTL DEF Spec

-----------------------------------------------------------------------------
(* The theorems: the invariants.                                           *)

(* Rows refer to rows that exist, and an open request has an operation. *)
THEOREM TypeCorrect == Spec => []TypeOK
  <1>1. IInv => TypeOK
    BY DEF IInv
  <1> QED
    BY <1>1, InvHolds, PTL

(* The survey of every operation is that of its template, whichever of the three callers of *)
(* update_survey changed it last (operations.py, job_templates.py).                         *)
THEOREM SurveysFollow == Spec => []SurveyFollows
  <1>1. IInv => SurveyFollows
    BY DEF IInv
  <1> QED
    BY <1>1, InvHolds, PTL

(* The survey a user may read never holds an answer to a field the administrator keeps. *)
THEOREM NothingShown == Spec => []HiddenFromUser
  <1>1. IInv => HiddenFromUser
    BY DEF IInv
  <1> QED
    BY <1>1, InvHolds, PTL

-----------------------------------------------------------------------------
(* The theorems: what a step never does.                                   *)

LEMMA StepsAreFieldSteps ==
  ASSUME IInv, Next
  PROVE  FieldSteps
  <1>1. CASE CatalogNext
    BY <1>1, CatalogStepKeeps DEF IInv, TypeOK, CInv
  <1>2. CASE UNCHANGED catalogVars
    BY <1>2 DEF catalogVars, FieldSteps, FieldStep
  <1> QED
    BY <1>1, <1>2 DEF Next

(* Only the administrator moves a field between the two surveys. *)
THEOREM SplitKept == Spec => SplitIsKept
  <1> DEFINE A == \A o \in Operation : \A x \in Fields(o) :
                     kind'[o][x] \notin {"NONE", kind[o][x]} => SwitchField(o, x)
  <1>1. IInv /\ [Next]_vars => [A]_catalogVars
    <2> SUFFICES ASSUME IInv, [Next]_vars, ~UNCHANGED catalogVars PROVE A
      OBVIOUS
    <2>1. FieldSteps
      BY StepsAreFieldSteps DEF vars
    <2> QED
      BY <2>1 DEF FieldSteps, FieldStep, Fields
  <1> QED
    BY <1>1, InvHolds, PTL DEF Spec, SplitIsKept

(* A change of the catalog never takes away what the job would be given for a field that stays. *)
LEMMA CatalogForgetsNothing ==
  ASSUME IInv, CatalogNext, UnderCatalog, NEW r \in Request, Open(r), Open(r)',
         NEW x \in Asked(r) \intersect Asked(r)', FullSurvey(request[r], x) # None
  PROVE  FullSurvey(request'[r], x) # None
  <1> DEFINE o == request[r].operation
             q == request[r]
  <1>1. /\ o \in Operation /\ request'[r] = Carried(q, kind[o], kind'[o]) /\ request'[r].operation = o
        /\ kind[o] \in Kinds /\ kind'[o] \in Kinds
    BY CarriedAlong DEF Open
  <1>2. q \in RequestRow /\ \A y \in Variable : q.user[y] # None => kind[o][y] # "ADMIN"
    BY RequestSays
  <1>3. /\ x \in Variable /\ kind[o][x] \in {"USER", "ADMIN"} /\ kind'[o][x] \in {"USER", "ADMIN"}
    BY <1>1 DEF Asked, Fields, Kinds
  <1> HIDE DEF o, q
  <1> DEFINE c == request'[r]
  <1>4. /\ c.steps = q.steps
        /\ c.user[x] = IF ToUser(q, kind[o], kind'[o], x) THEN q.admin[x]
                       ELSE IF ToAdmin(q, kind[o], kind'[o], x) THEN None ELSE q.user[x]
        /\ c.admin[x] = IF ToAdmin(q, kind[o], kind'[o], x) THEN q.user[x]
                        ELSE IF ToUser(q, kind[o], kind'[o], x) THEN None ELSE q.admin[x]
    BY <1>1, <1>2, <1>3, CarriedIs
  <1>5. q.admin[x] # None \/ Holders(q, x) # {} \/ q.user[x] # None
    BY <1>3, FullSurveyIs DEF q
  <1>6. Holders(c, x) = Holders(q, x)
    BY <1>4 DEF Holders
  <1> HIDE DEF c
  <1>7. c.admin[x] # None \/ Holders(c, x) # {} \/ c.user[x] # None
    BY <1>3, <1>4, <1>5, <1>6 DEF ToUser, ToAdmin
  <1> QED
    BY <1>3, <1>7, FullSurveyIs DEF c

(* Nor does what is done to the steps: what one of them holds stays somewhere. *)
LEMMA WorkflowKeepsOthers ==
  ASSUME NEW r \in Request, Open(r), request[r] \in RequestRow, NEW x \in Variable,
         ~WorkflowLoses(r, x), NEW rs \in SUBSET Request,
         \/ DeleteApprovalWorkflow(rs)
         \/ \E s \in Step : DeleteApprovalStep(rs, s)
         \/ \E s, t \in Step : MoveStep(rs, s, t)
  PROVE  /\ request'[r].admin = request[r].admin /\ request'[r].user = request[r].user
         /\ Holders(request[r], x) # {} => Holders(request'[r], x) # {}
  <1>1. CASE r \notin rs
    <2>1. request'[r] = request[r]
      BY <1>1 DEF DeleteApprovalWorkflow, DeleteApprovalStep, MoveStep
    <2> QED
      BY <2>1
  <1>2. CASE r \in rs /\ DeleteApprovalWorkflow(rs)
    BY <1>2 DEF WorkflowLoses
  <1>3. ASSUME r \in rs, NEW s \in Step, DeleteApprovalStep(rs, s)
        PROVE  /\ request'[r].admin = request[r].admin /\ request'[r].user = request[r].user
               /\ Holders(request[r], x) # {} => Holders(request'[r], x) # {}
    <2>1. request'[r] = WithoutStep(request[r], s)
      BY <1>3 DEF DeleteApprovalStep
    <2>2. s \notin Holders(request[r], x) /\ request[r].current # s
      BY <1>3 DEF WorkflowLoses
    <2>3. /\ WithoutStep(request[r], s).admin = request[r].admin
          /\ WithoutStep(request[r], s).user = request[r].user
          /\ \A t \in Step : t # s => WithoutStep(request[r], s).steps[t] = request[r].steps[t]
      BY <2>2, WithoutStepIs
    <2> QED
      BY <2>1, <2>2, <2>3 DEF Holders
  <1>4. ASSUME r \in rs, NEW s \in Step, NEW t \in Step, MoveStep(rs, s, t)
        PROVE  /\ request'[r].admin = request[r].admin /\ request'[r].user = request[r].user
               /\ Holders(request[r], x) # {} => Holders(request'[r], x) # {}
    <2>1. request'[r] = Exchanged(request[r], s, t)
      BY <1>4 DEF MoveStep
    <2>2. Exchanged(request[r], s, t).admin = request[r].admin
      BY ExchangedIs
    <2>3. Exchanged(request[r], s, t).user = request[r].user
      BY ExchangedIs
    <2>4. ASSUME NEW y \in Step PROVE Other(s, t, y) \in Step
      BY OtherIs
    <2>6. Exchanged(request[r], s, t).steps = [y \in Step |-> request[r].steps[Other(s, t, y)]]
      BY ExchangedIs
    <2>5. ASSUME NEW y \in Step PROVE Exchanged(request[r], s, t).steps[Other(s, t, y)] = request[r].steps[y]
      BY <2>6, OtherIs
    <2> QED
      BY <2>1, <2>2, <2>3, <2>4, <2>5 DEF Holders
  <1> QED
    BY <1>1, <1>2, <1>3, <1>4

(* Nor does an answer. *)
LEMMA AnswersForgetNothing ==
  ASSUME IInv, AnswerStep, UNCHANGED catalogVars, NEW r \in Request, Open(r), Open(r)',
         NEW x \in Asked(r) \intersect Asked(r)', FullSurvey(request[r], x) # None,
         ~WorkflowLoses(r, x)
  PROVE  FullSurvey(request'[r], x) # None
  <1> DEFINE p == request[r]
             Held(q) == q.admin[x] # None \/ Holders(q, x) # {} \/ q.user[x] # None
  <1>1. /\ request \in [Request -> {None} \union RequestRow] /\ p \in RequestRow /\ x \in Asked(r)
        /\ p.user \in Answers /\ p.steps \in [Step -> Answers] /\ p.admin \in Answers /\ x \in Variable
    BY RequestSays DEF IInv, TypeOK, Asked, Fields
  <1>2. Held(p)
    BY <1>1, FullSurveyIs
  <1>3. SUFFICES Held(request'[r])
    BY <1>1, <1>3, FullSurveyIs
  <1>4. ASSUME request'[r] # p
        PROVE  \/ \E next \in Step \union {None}, xs \in SUBSET Variable, v \in [Variable -> Value] :
                     ApproveStep(r, next, xs, v)
               \/ \E v \in [Variable -> Value] : AcceptUI(r, v)
               \/ \E xs \in SUBSET Variable, v \in [Variable -> Value] : AcceptAPI(r, xs, v)
               \/ \E rs \in SUBSET Request : \/ DeleteApprovalWorkflow(rs)
                                             \/ \E s \in Step : DeleteApprovalStep(rs, s)
                                             \/ \E s, t \in Step : MoveStep(rs, s, t)
    <2>1. ASSUME NEW s \in Request, NEW q, request' = [request EXCEPT ![s] = q]
          PROVE  s = r
      BY <1>1, <1>4, <2>1
    <2>2. ASSUME NEW s \in Request, NEW o \in Operation, NEW current \in {1, None}, NEW v \in [Variable -> Value],
                 RequestOperation(s, o, current, v)
          PROVE  FALSE
      BY <2>1, <2>2 DEF RequestOperation
    <2>3. ASSUME NEW s \in Request, NEW next \in Step \union {None}, NEW xs \in SUBSET Variable,
                 NEW v \in [Variable -> Value], ApproveStep(s, next, xs, v)
          PROVE  s = r
      BY <2>1, <2>3 DEF ApproveStep
    <2>4. ASSUME NEW s \in Request, NEW current \in {1, None}, SetupApprovalWorkflow(s, current)
          PROVE  FALSE
      <3>1. s = r
        BY <2>1, <2>4 DEF SetupApprovalWorkflow
      <3> QED
        BY <2>4, <3>1 DEF WorkflowLoses
    <2>5. ASSUME NEW s \in Request, NEW v \in [Variable -> Value], AcceptUI(s, v)
          PROVE  s = r
      BY <2>1, <2>5 DEF AcceptUI
    <2>6. ASSUME NEW s \in Request, NEW xs \in SUBSET Variable, NEW v \in [Variable -> Value], AcceptAPI(s, xs, v)
          PROVE  s = r
      BY <2>1, <2>6 DEF AcceptAPI
    <2>7. ASSUME NEW s \in Request, DeleteRequest(s)
          PROVE  FALSE
      BY <1>1, <2>1, <2>7 DEF DeleteRequest, Open
    <2> QED
      BY <2>2, <2>3, <2>4, <2>5, <2>6, <2>7 DEF AnswerStep
  <1>5. CASE request'[r] = p
    BY <1>2, <1>5
  <1>6. ASSUME NEW next \in Step \union {None}, NEW xs \in SUBSET Variable, NEW v \in [Variable -> Value],
               ApproveStep(r, next, xs, v)
        PROVE  Held(request'[r])
    <2> DEFINE new == [p.steps EXCEPT ![p.current] = Updated(Blank, xs, v)]
    <2>1. request'[r] = [p EXCEPT !.steps = new, !.current = next]
      BY <1>1, <1>6 DEF ApproveStep
    <2>2. p.current \notin Holders(p, x)
      BY <1>6 DEF WorkflowLoses
    <2>3. \A s \in Step : s # p.current => new[s] = p.steps[s]
      BY <1>1
    <2> HIDE DEF new, p
    <2>4. request'[r].steps = new /\ request'[r].admin = p.admin /\ request'[r].user = p.user
      BY <1>1, <2>1 DEF RequestRow
    <2> QED
      BY <1>2, <2>2, <2>3, <2>4 DEF Holders
  <1>9. ASSUME NEW rs \in SUBSET Request,
               \/ DeleteApprovalWorkflow(rs)
               \/ \E s \in Step : DeleteApprovalStep(rs, s)
               \/ \E s, t \in Step : MoveStep(rs, s, t)
        PROVE  Held(request'[r])
    BY <1>1, <1>2, <1>9, WorkflowKeepsOthers
  <1>7. ASSUME NEW v \in [Variable -> Value], AcceptUI(r, v)
        PROVE  Held(request'[r])
    <2> DEFINE new == Updated(Blank, Asked(r), v)
    <2>1. request'[r] = [p EXCEPT !.admin = new]
      BY <1>1, <1>7 DEF AcceptUI
    <2>2. Asked(r) \in SUBSET Variable
      BY DEF Asked, Fields
    <2>3. new[x] # None
      BY <1>1, <2>2, BlankIs, UpdatedIs
    <2> HIDE DEF new, p
    <2>4. request'[r].admin = new
      BY <1>1, <2>1 DEF RequestRow
    <2> QED
      BY <2>3, <2>4
  <1>8. ASSUME NEW xs \in SUBSET Variable, NEW v \in [Variable -> Value], AcceptAPI(r, xs, v)
        PROVE  Held(request'[r])
    <2> DEFINE us == {y \in xs : Kind(r)[y] = "USER"}
               adm == {y \in xs : Kind(r)[y] = "ADMIN"}
               user == Updated(p.user, us, v)
               admin == Updated(p.admin, adm, v)
    <2>1. request'[r] = [p EXCEPT !.user = user, !.admin = admin]
      BY <1>1, <1>8 DEF AcceptAPI
    <2>2. us \in SUBSET Variable /\ adm \in SUBSET Variable
      OBVIOUS
    <2> HIDE DEF us, adm
    <2> HIDE DEF p
    <2>3. /\ \A y \in Variable : user[y] = IF y \in us THEN v[y] ELSE p.user[y]
          /\ \A y \in us : user[y] # None
      BY <1>1, <2>2, UpdatedIs
    <2>4. /\ \A y \in Variable : admin[y] = IF y \in adm THEN v[y] ELSE p.admin[y]
          /\ \A y \in adm : admin[y] # None
      <3>1. p.admin \in Answers /\ adm \in SUBSET Variable
        BY <1>1, <2>2
      <3> QED
        BY <3>1, UpdatedIs
    <2> HIDE DEF user, admin
    <2>5. request'[r].user = user /\ request'[r].admin = admin /\ request'[r].steps = p.steps
      BY <1>1, <2>1 DEF RequestRow
    <2> QED
      BY <1>1, <1>2, <2>3, <2>4, <2>5 DEF Holders
  <1> QED
    BY <1>4, <1>5, <1>6, <1>7, <1>8, <1>9

(* An answer to a field that stays is lost only with the workflow state or the step that holds it, *)
(* or when that step is approved once more.                                                        *)
THEOREM NoAnswerForgotten == Spec => NothingForgotten
  <1> DEFINE A == \A r \in Request : Open(r) /\ Open(r)' =>
                    \A x \in Asked(r) \intersect Asked(r)' :
                       FullSurvey(request[r], x) # None /\ FullSurvey(request[r], x)' = None
                          => WorkflowLoses(r, x)
  <1>1. IInv /\ [Next]_vars => [A]_vars
    <2> SUFFICES ASSUME IInv, Next, NEW r \in Request, Open(r), Open(r)',
                        NEW x \in Asked(r) \intersect Asked(r)',
                        FullSurvey(request[r], x) # None, FullSurvey(request'[r], x) = None,
                        ~WorkflowLoses(r, x)
                 PROVE  FALSE
      BY DEF FullSurvey
    <2> QED
      BY CatalogForgetsNothing, AnswersForgetNothing DEF Next
  <1> QED
    BY <1>1, InvHolds, PTL DEF Spec, NothingForgotten

(* Moving a field leaves what the job will be given, if only one of the three surveys answers it. *)
THEOREM MovesKeepAnswers == Spec => MoveKeepsAnswer
  <1> DEFINE A == \A r \in Request : Open(r) /\ Open(r)' =>
                    \A x \in Variable :
                       HeldOnce(request[r], x) /\ FullSurvey(request[r], x)' # FullSurvey(request[r], x)
                          => ~\E o \in Operation : SwitchField(o, x)
  <1>1. IInv /\ [Next]_vars => [A]_vars
    <2> SUFFICES ASSUME IInv, Next, NEW r \in Request, Open(r), Open(r)', NEW x \in Variable,
                        HeldOnce(request[r], x), NEW y \in Operation, SwitchField(y, x)
                 PROVE  FullSurvey(request'[r], x) = FullSurvey(request[r], x)
      BY DEF FullSurvey
    <2> DEFINE o == request[r].operation
               q == request[r]
    <2>1. kind \in [Operation -> Kinds] /\ x \in Fields(y)
      BY DEF IInv, TypeOK, CatalogTypeOK, Kinds, SwitchField
    <2>2. kind'[y][x] # kind[y][x]
      BY <2>1 DEF SwitchField, Switched, Kinds, Fields
    <2>3. CatalogNext /\ UnderCatalog
      BY <2>2 DEF Next, catalogVars
    <2>4. /\ o \in Operation /\ request'[r] = Carried(q, kind[o], kind'[o])
          /\ kind[o] \in Kinds /\ kind'[o] \in Kinds
      BY <2>3, CarriedAlong DEF Open
    <2>5. q \in RequestRow
      BY RequestSays
    <2>6. \/ kind'[o][x] = kind[o][x]
          \/ kind[o][x] = "USER" /\ kind'[o][x] = "ADMIN"
          \/ kind[o][x] = "ADMIN" /\ kind'[o][x] = "USER"
      BY <2>1, <2>4 DEF SwitchField, Switched, Kinds, Fields
    <2> HIDE DEF o
    <2>7. /\ request'[r].steps = q.steps
          /\ request'[r].user[x] = IF ToUser(q, kind[o], kind'[o], x) THEN q.admin[x]
                                   ELSE IF ToAdmin(q, kind[o], kind'[o], x) THEN None ELSE q.user[x]
          /\ request'[r].admin[x] = IF ToAdmin(q, kind[o], kind'[o], x) THEN q.user[x]
                                    ELSE IF ToUser(q, kind[o], kind'[o], x) THEN None ELSE q.admin[x]
      BY <2>4, <2>5, CarriedIs
    <2>8. /\ q.user[x] # None => StepAnswer(q, x) = None /\ q.admin[x] = None
          /\ q.admin[x] # None => StepAnswer(q, x) = None
      BY DEF HeldOnce
    <2> HIDE DEF q
    <2>10. StepAnswer(request'[r], x) = StepAnswer(q, x)
      BY <2>7 DEF StepAnswer, Holders
    <2>9. FullSurvey(request'[r], x) = FullSurvey(q, x)
      BY <2>6, <2>7, <2>8, <2>10 DEF ToUser, ToAdmin, FullSurvey
    <2> QED
      BY <2>9 DEF q
  <1> QED
    BY <1>1, InvHolds, PTL DEF Spec, MoveKeepsAnswer

-----------------------------------------------------------------------------
(* The services.                                                           *)

LEMMA SoundNext ==
  ASSUME NEW z \in Service
  PROVE  Sound(z)' <=> (service'[z] = "ENABLED" => CanBeEnabled(z, operation'))
  BY DEF Sound, CanBeEnabled, Creations

(* Rows that keep what z offers keep the service open. *)
LEMMA OfferKept ==
  ASSUME NEW z \in Service, NEW a, NEW b, CanBeEnabled(z, a),
         \A o \in Operation : a[o] # None /\ a[o].service = z /\ a[o].type = "CREATE"
                              /\ a[o].enabled /\ a[o].template # None => b[o] = a[o]
  PROVE  CanBeEnabled(z, b)
  BY DEF CanBeEnabled, Creations

(* Saving a service makes it sound, and leaves the offers of the others. *)
LEMMA SaveServiceSound ==
  ASSUME NEW s \in Service, NEW on \in BOOLEAN, NEW rows \in Rows, SaveService(s, on, rows),
         service \in [Service -> {"NONE", "DISABLED", "ENABLED"}], NEW z \in Service
  PROVE  /\ z = s => Sound(z)'
         /\ z # s /\ CanBeEnabled(z, rows) => CanBeEnabled(z, operation')
         /\ z # s => service'[z] = service[z]
  <1>1. service' = [service EXCEPT ![s] = FlagStored(s, on, rows)] /\ operation' = OperationsLeft(s, on, rows)
    BY DEF SaveService
  <1>2. ASSUME z = s PROVE Sound(z)'
    <2>1. CASE on /\ CanBeEnabled(s, rows)
      <3>1. operation' = rows
        BY <1>1, <2>1 DEF OperationsLeft
      <3> QED
        BY <1>2, <2>1, <3>1, SoundNext
    <2>2. CASE ~(on /\ CanBeEnabled(s, rows))
      <3>1. service'[s] = "DISABLED"
        BY <1>1, <2>2 DEF FlagStored, Flag
      <3> QED
        BY <1>2, <3>1, SoundNext
    <2> QED
      BY <2>1, <2>2
  <1>3. ASSUME z # s, CanBeEnabled(z, rows) PROVE CanBeEnabled(z, operation')
    <2>1. \A o \in Operation : o \notin Creations(s, rows) => operation'[o] = rows[o]
      BY <1>1 DEF OperationsLeft
    <2>2. \A o \in Operation : rows[o] # None /\ rows[o].service = z => o \notin Creations(s, rows)
      BY <1>3 DEF Creations
    <2> QED
      BY <1>3, <2>1, <2>2, OfferKept
  <1> QED
    BY <1>1, <1>2, <1>3

(* Storing the row of an operation that is new, or stays where it is, leaves the offers of the others. *)
LEMMA StoringSound ==
  ASSUME operation \in Rows, NEW o \in Operation, NEW row \in Row, NEW z \in Service, z # row.service,
         Exists(o) => row.service = operation[o].service, CanBeEnabled(z, operation)
  PROVE  CanBeEnabled(z, Stored(o, row))
  <1>1. \A q \in Operation : q # o => Stored(o, row)[q] = operation[q]
    BY DEF Stored, Rows
  <1>2. operation[o] # None => operation[o].service # z
    BY DEF Exists
  <1> QED
    BY <1>1, <1>2, OfferKept

LEMMA CreateOperationSound ==
  ASSUME CInv, NEW o \in Operation, NEW row \in Row, CreateOperation(o, row), NEW z \in Service, Sound(z)
  PROVE  Sound(z)'
  <1> DEFINE s == row.service
             rows == Stored(o, row)
  <1>1. /\ s \in Service /\ ~Exists(o) /\ operation \in Rows /\ rows \in Rows
        /\ service \in [Service -> {"NONE", "DISABLED", "ENABLED"}]
    BY StoredIsRows DEF Row, CreateOperation, CInv, CatalogTypeOK, Rows
  <1>2. CanBeEnabled(z, operation) => z = s \/ CanBeEnabled(z, rows)
    BY <1>1, StoringSound
  <1>3. CASE row.type = "CREATE"
    <2>1. SaveService(s, TRUE, rows)
      BY <1>3 DEF CreateOperation
    <2> HIDE DEF s, rows
    <2> QED
      BY <1>1, <1>2, <2>1, SaveServiceSound, SoundNext DEF Sound
  <1>4. CASE row.type # "CREATE"
    <2>1. operation' = rows /\ service' = service
      BY <1>4 DEF CreateOperation
    <2>2. \A q \in Operation : Exists(q) => rows[q] = operation[q]
      BY <1>1 DEF Stored, Rows
    <2>3. CanBeEnabled(z, operation) => CanBeEnabled(z, rows)
      BY <2>2, OfferKept DEF Exists
    <2> QED
      BY <2>1, <2>3, SoundNext DEF Sound
  <1> QED
    BY <1>3, <1>4

LEMMA EditOperationSound ==
  ASSUME CInv, NEW o \in Operation, NEW row \in Row, Exists(o), InPlace(o, row), EditOperation(o, row),
         NEW z \in Service, Sound(z)
  PROVE  Sound(z)'
  <1> DEFINE s == row.service
             rows == Stored(o, row)
  <1>1. /\ s \in Service /\ operation \in Rows /\ rows \in Rows
        /\ service \in [Service -> {"NONE", "DISABLED", "ENABLED"}]
    BY StoredIsRows DEF Row, CInv, CatalogTypeOK, Rows
  <1>2. CanBeEnabled(z, operation) => z = s \/ CanBeEnabled(z, rows)
    BY <1>1, StoringSound DEF InPlace
  <1>3. CASE Closes(o, row)
    <2>1. SaveService(s, FALSE, rows)
      BY <1>3 DEF EditOperation
    <2> HIDE DEF s, rows
    <2> QED
      BY <1>1, <1>2, <2>1, SaveServiceSound, SoundNext DEF Sound
  <1>4. CASE ~Closes(o, row)
    <2>1. operation' = rows /\ \A x \in Service : x # s => service'[x] = service[x]
      BY <1>1, <1>4 DEF EditOperation
    <2>2. CASE row.type = "CREATE"
      <3>1. CanBeEnabled(s, rows)
        BY <1>4, <2>2 DEF Closes
      <3> HIDE DEF s, rows
      <3> QED
        BY <1>2, <2>1, <3>1, SoundNext DEF Sound
    <2>3. CASE row.type # "CREATE"
      <3>1. service' = service
        BY <1>4, <2>3 DEF EditOperation, Reopens
      <3>2. operation[o].type # "CREATE" /\ \A q \in Operation : q # o => rows[q] = operation[q]
        BY <1>1, <2>3 DEF InPlace, Stored, Rows
      <3>3. CanBeEnabled(z, operation) => CanBeEnabled(z, rows)
        BY <3>2, OfferKept
      <3> QED
        BY <2>1, <3>1, <3>3, SoundNext DEF Sound
    <2> QED
      BY <2>2, <2>3
  <1> QED
    BY <1>3, <1>4

LEMMA DeleteOperationSound ==
  ASSUME CInv, NEW o \in Operation, DeleteOperation(o), NEW z \in Service, Sound(z)
  PROVE  Sound(z)'
  <1> DEFINE s == operation[o].service
             rows == Without({o})
  <1>1. /\ s \in Service /\ rows \in Rows
        /\ service \in [Service -> {"NONE", "DISABLED", "ENABLED"}]
    BY WithoutIsRows, CatalogSays DEF Row, CInv, CatalogTypeOK, DeleteOperation
  <1>2. \A q \in Operation : q # o => rows[q] = operation[q]
    BY DEF Without
  <1>3. CASE operation[o].type = "CREATE" /\ ~CanBeEnabled(s, rows)
    <2>1. SaveService(s, FALSE, rows)
      BY <1>3 DEF DeleteOperation
    <2> HIDE DEF rows
    <2>2. CanBeEnabled(z, operation) => z = s \/ CanBeEnabled(z, rows)
      BY <1>2, OfferKept
    <2> HIDE DEF s
    <2> QED
      BY <1>1, <2>1, <2>2, SaveServiceSound, SoundNext DEF Sound
  <1>4. CASE ~(operation[o].type = "CREATE" /\ ~CanBeEnabled(s, rows))
    <2>1. operation' = rows /\ service' = service
      BY <1>4 DEF DeleteOperation
    <2>2. CanBeEnabled(z, operation) => CanBeEnabled(z, rows)
      <3>1. CASE operation[o].type = "CREATE" /\ z = s
        BY <1>4, <3>1
      <3> HIDE DEF rows
      <3>2. CASE ~(operation[o].type = "CREATE" /\ z = s)
        BY <1>2, <3>2, OfferKept
      <3> QED
        BY <3>1, <3>2
    <2> QED
      BY <2>1, <2>2, SoundNext DEF Sound
  <1> QED
    BY <1>3, <1>4

LEMMA DeleteServiceSound ==
  ASSUME CInv, NEW s \in Service, DeleteService(s), NEW z \in Service, Sound(z)
  PROVE  Sound(z)'
  <1>1. service' = [service EXCEPT ![s] = "NONE"] /\ service \in [Service -> {"NONE", "DISABLED", "ENABLED"}]
    BY DEF DeleteService, CInv, CatalogTypeOK
  <1>2. CASE z = s
    BY <1>1, <1>2, SoundNext
  <1>3. CASE z # s
    <2>1. \A o \in Operation : Exists(o) /\ operation[o].service = z => operation'[o] = operation[o]
      BY <1>3 DEF DeleteService, Without
    <2>2. CanBeEnabled(z, operation) => CanBeEnabled(z, operation')
      BY <2>1, OfferKept DEF Exists
    <2> QED
      BY <1>1, <1>3, <2>2, SoundNext DEF Sound
  <1> QED
    BY <1>2, <1>3

LEMMA DeleteTemplatesSound ==
  ASSUME CInv, NEW ts \in SUBSET Template, DeleteTemplates(ts), NEW z \in Service, Sound(z)
  PROVE  Sound(z)'
  <1>1. CASE z \in ServicesUsing(ts)
    <2>1. service'[z] = "DISABLED"
      BY <1>1 DEF DeleteTemplates
    <2> QED
      BY <2>1, SoundNext
  <1>2. CASE z \notin ServicesUsing(ts)
    <2>1. service'[z] = service[z]
      BY <1>2 DEF DeleteTemplates
    <2>2. ASSUME service[z] = "ENABLED", CanBeEnabled(z, operation) PROVE CanBeEnabled(z, operation')
      <3>1. \A o \in Creations(z, operation) : operation[o].template \notin ts
        BY <1>2, <2>2 DEF ServicesUsing
      <3>2. \A o \in Operation : operation[o] # None /\ operation[o].template \notin ts => operation'[o] = operation[o]
        BY DEF DeleteTemplates
      <3>3. \A o \in Operation : operation[o] # None /\ operation[o].service = z /\ operation[o].type = "CREATE"
                                   => operation'[o] = operation[o]
        BY <3>1, <3>2 DEF Creations
      <3> QED
        BY <2>2, <3>3, OfferKept
    <2> QED
      BY <2>1, <2>2, SoundNext DEF Sound
  <1> QED
    BY <1>1, <1>2

LEMMA UpkeepSound ==
  ASSUME CInv, CatalogUpkeep, NEW z \in Service, Sound(z)
  PROVE  Sound(z)'
  <1>1. ASSUME NEW s \in Service, CreateServiceUI(s) PROVE Sound(z)'
    BY <1>1, SoundNext DEF CreateServiceUI, Sound, CInv, CatalogTypeOK
  <1>2. ASSUME NEW s \in Service, NEW on \in BOOLEAN, EditService(s, on) PROVE Sound(z)'
    BY <1>2, SaveServiceSound, SoundNext DEF EditService, Sound, CInv, CatalogTypeOK, Rows
  <1>3. ASSUME UNCHANGED <<service, operation>> PROVE Sound(z)'
    BY <1>3, SoundNext DEF Sound
  <1> QED
    BY <1>1, <1>2, <1>3, DeleteServiceSound, CreateOperationSound, EditOperationSound, DeleteOperationSound,
       DeleteTemplatesSound
    DEF CatalogUpkeep, SwitchField, SyncTemplate

(* A service of the catalog that can be requested stays so, or is disabled, whatever an    *)
(* administrator who leaves operations in place, or a synchronisation, does (services.py,  *)
(* operations.py, job_templates.py).                                                       *)
THEOREM ServicesSound == Spec => ServicesStaySound
  <1> DEFINE A == \A s \in Service : Sound(s) /\ ~Sound(s)' => ~CatalogUpkeep
  <1>1. IInv /\ [Next]_vars => [A]_catalogVars
    BY UpkeepSound DEF IInv, TypeOK, CInv
  <1> QED
    BY <1>1, InvHolds, PTL DEF Spec, ServicesStaySound
=============================================================================
