------------------------------ MODULE Catalog ------------------------------
(***************************************************************************)
(* The catalog: services, the operations they offer, the job templates     *)
(* copied from RHAAP/AWX that the operations launch, and the survey of     *)
(* each operation, a copy of the survey of its template in which every     *)
(* field is shown to the user or kept for the administrator.               *)
(*                                                                         *)
(* Signals keep the copies and the flag of the service up to date.  A save *)
(* is one step with all its signals; a synchronisation is one step per     *)
(* template, as it commits, and one for the templates that are gone.       *)
(***************************************************************************)

CONSTANTS Service, Operation, Template, Variable,
          None    \* no row, no job template

ASSUME NoneAssumption == None \notin Template /\ \A xs \in SUBSET Variable : None # xs

VARIABLES
    service,    \* Service.enabled, or "NONE"
    operation,  \* rows of Operation, or None
    survey,     \* the variables of JobTemplate.survey, or None
    kind        \* TowerSurveyField.is_customer_field, or "NONE" without such a field

catalogVars == <<service, operation, survey, kind>>

Row == [service : Service, type : {"CREATE", "OTHER"}, enabled : BOOLEAN, template : Template \union {None}]

ASSUME RowAssumption == None \notin Row

Exists(o) == operation[o] # None
Fields(o) == {x \in Variable : kind[o][x] # "NONE"}

NoField == [x \in Variable |-> "NONE"]

CatalogTypeOK ==
    /\ service \in [Service -> {"NONE", "DISABLED", "ENABLED"}]
    /\ operation \in [Operation -> {None} \union Row]
    /\ survey \in [Template -> {None} \union SUBSET Variable]
    /\ kind \in [Operation -> [Variable -> {"NONE", "USER", "ADMIN"}]]

CatalogInit ==
    /\ service = [s \in Service |-> "NONE"]
    /\ operation = [o \in Operation |-> None]
    /\ survey = [t \in Template |-> None]
    /\ kind = [o \in Operation |-> NoField]

----------------------------------------------------------------------------
\* Saving a service

\* Every CREATE operation of s that rows hold
Creations(s, rows) == {o \in Operation : rows[o] # None /\ rows[o].service = s /\ rows[o].type = "CREATE"}

CanBeEnabled(s, rows) == \E o \in Creations(s, rows) : rows[o].enabled /\ rows[o].template # None

Flag(on) == IF on THEN "ENABLED" ELSE "DISABLED"

\* The flag service_pre_save stores
FlagStored(s, on, rows) == Flag(on /\ CanBeEnabled(s, rows))

\* The operations service_pre_save leaves: those of a disabled service are disabled
OperationsLeft(s, on, rows) ==
    IF on /\ CanBeEnabled(s, rows) THEN rows
    ELSE [o \in Operation |-> IF o \in Creations(s, rows) THEN [rows[o] EXCEPT !.enabled = FALSE] ELSE rows[o]]

SaveService(s, on, rows) ==
    /\ service' = [service EXCEPT ![s] = FlagStored(s, on, rows)]
    /\ operation' = OperationsLeft(s, on, rows)

\* The form asks for no flag; the API takes one, and a service without id is not checked.
CreateServiceUI(s) ==
    /\ service[s] = "NONE"
    /\ service' = [service EXCEPT ![s] = "DISABLED"]
    /\ UNCHANGED <<operation, survey, kind>>

CreateServiceAPI(s) ==
    /\ service[s] = "NONE"
    /\ service' = [service EXCEPT ![s] = "ENABLED"]
    /\ UNCHANGED <<operation, survey, kind>>

\* The form refuses what the save would undo, the API does not.
EditService(s, on) ==
    /\ service[s] # "NONE"
    /\ SaveService(s, on, operation)
    /\ UNCHANGED <<survey, kind>>

Without(os) == [o \in Operation |-> IF o \in os THEN None ELSE operation[o]]
WithoutFields(os) == [o \in Operation |-> IF o \in os THEN NoField ELSE kind[o]]

DeleteService(s) ==
    LET os == {o \in Operation : Exists(o) /\ operation[o].service = s} IN
    /\ service[s] # "NONE"
    /\ service' = [service EXCEPT ![s] = "NONE"]
    /\ operation' = Without(os) /\ kind' = WithoutFields(os)
    /\ UNCHANGED survey

----------------------------------------------------------------------------
\* Saving an operation

DefaultSurvey(xs) == [x \in Variable |-> IF x \in xs THEN "USER" ELSE "NONE"]

\* mutant: every field starts anew
UpdateAnew(k, xs) == DefaultSurvey(xs)

\* mutant: the fields that left the survey stay
UpdateOnlyAdds(k, xs) == [x \in Variable |-> IF x \in xs /\ k[x] = "NONE" THEN "USER" ELSE k[x]]

\* The fields after update_survey with a template of variables xs
UpdateSurvey(k, xs) ==
    [x \in Variable |-> IF x \notin xs THEN "NONE" ELSE IF k[x] = "NONE" THEN "USER" ELSE k[x]]

Stored(o, row) == [operation EXCEPT ![o] = row]

\* Without a template the first signal raises: the row stays, without its survey.
CreateOperation(o, row) ==
    /\ ~Exists(o) /\ service[row.service] # "NONE"
    /\ row.template # None => survey[row.template] # None
    /\ IF row.type = "CREATE" THEN SaveService(row.service, TRUE, Stored(o, row))
       ELSE operation' = Stored(o, row) /\ UNCHANGED service
    /\ kind' = IF row.template = None THEN kind
               ELSE [kind EXCEPT ![o] = DefaultSurvey(survey[row.template])]
    /\ UNCHANGED survey

\* on_change: enabling a CREATE operation enables a service that already has another one
Reopens(o, row) ==
    /\ row.type = "CREATE" /\ row.enabled /\ ~operation[o].enabled
    /\ CanBeEnabled(row.service, operation)

\* mutant: only an operation that was saved enabled can close its service
ClosesIfEnabled(o, row) ==
    row.type = "CREATE" /\ row.enabled /\ ~CanBeEnabled(row.service, Stored(o, row))

\* disable_service
Closes(o, row) == row.type = "CREATE" /\ ~CanBeEnabled(row.service, Stored(o, row))

EditOperation(o, row) ==
    /\ Exists(o) /\ service[row.service] # "NONE"
    /\ row.template # None => survey[row.template] # None
    /\ IF Closes(o, row) THEN SaveService(row.service, FALSE, Stored(o, row))
       ELSE /\ operation' = Stored(o, row)
            /\ service' = IF Reopens(o, row) THEN [service EXCEPT ![row.service] = "ENABLED"] ELSE service
    /\ kind' = IF row.template \in {None, operation[o].template} THEN kind
               ELSE [kind EXCEPT ![o] = UpdateSurvey(kind[o], survey[row.template])]
    /\ UNCHANGED survey

DeleteOperation(o) ==
    LET s == operation[o].service IN
    /\ Exists(o)
    /\ IF operation[o].type = "CREATE" /\ ~CanBeEnabled(s, Without({o}))
       THEN SaveService(s, FALSE, Without({o}))
       ELSE operation' = Without({o}) /\ UNCHANGED service
    /\ kind' = WithoutFields({o})
    /\ UNCHANGED survey

Switched(k, x) == [k EXCEPT ![x] = IF k[x] = "USER" THEN "ADMIN" ELSE "USER"]

\* An administrator moves a field between the two surveys of its operation.
SwitchField(o, x) ==
    /\ x \in Fields(o)
    /\ kind' = [kind EXCEPT ![o] = Switched(kind[o], x)]
    /\ UNCHANGED <<service, operation, survey>>

----------------------------------------------------------------------------
\* Job templates

\* One template is created or updated by TowerServer.sync
SyncTemplate(t, xs) ==
    /\ survey' = [survey EXCEPT ![t] = xs]
    /\ kind' = [o \in Operation |-> IF Exists(o) /\ operation[o].template = t
                                    THEN UpdateSurvey(kind[o], xs) ELSE kind[o]]
    /\ UNCHANGED <<service, operation>>

\* The services job_template_delete disables, whatever other operations they have
ServicesUsing(ts) ==
    {s \in Service : service[s] # "NONE" /\ \E o \in Creations(s, operation) : operation[o].template \in ts}

\* By hand, by the end of a synchronisation, or with their server
DeleteTemplates(ts) ==
    /\ \A t \in ts : survey[t] # None
    /\ service' = [s \in Service |-> IF s \in ServicesUsing(ts) THEN "DISABLED" ELSE service[s]]
    /\ operation' = [o \in Operation |-> IF Exists(o) /\ operation[o].template \in ts
                                         THEN [operation[o] EXCEPT !.template = None] ELSE operation[o]]
    /\ survey' = [t \in Template |-> IF t \in ts THEN None ELSE survey[t]]
    /\ UNCHANGED kind

----------------------------------------------------------------------------
InPlace(o, row) == row.service = operation[o].service /\ row.type = operation[o].type

\* The steps of an administrator who leaves operations where they are, and of the synchronisation
CatalogUpkeep ==
    \/ \E s \in Service : CreateServiceUI(s) \/ DeleteService(s)
    \/ \E s \in Service, on \in BOOLEAN : EditService(s, on)
    \/ \E o \in Operation, row \in Row : CreateOperation(o, row)
    \/ \E o \in Operation, row \in Row : Exists(o) /\ InPlace(o, row) /\ EditOperation(o, row)
    \/ \E o \in Operation : DeleteOperation(o)
    \/ \E o \in Operation, x \in Variable : SwitchField(o, x)
    \/ \E t \in Template, xs \in SUBSET Variable : SyncTemplate(t, xs)
    \/ \E ts \in SUBSET Template : DeleteTemplates(ts)

CatalogNext ==
    \/ CatalogUpkeep
    \/ \E s \in Service : CreateServiceAPI(s)
    \/ \E o \in Operation, row \in Row : Exists(o) /\ ~InPlace(o, row) /\ EditOperation(o, row)

CatalogSpec == CatalogInit /\ [][CatalogNext]_catalogVars

----------------------------------------------------------------------------
Sound(s) == service[s] = "ENABLED" => CanBeEnabled(s, operation)

(***************************************************************************)
(* A service shown in the catalog can be requested: the last creation      *)
(* operation that is enabled and has a job template takes the flag of its  *)
(* service with it, whichever of its edition, its deletion, the deletion   *)
(* of the template or a synchronisation it is.  Only an unchecked creation *)
(* by the API, or an operation moved to another service or type, leaves an *)
(* enabled service without one.                                            *)
(***************************************************************************)
ServicesStaySound == [][\A s \in Service : Sound(s) /\ ~Sound(s)' => ~CatalogUpkeep]_catalogVars

(***************************************************************************)
(* The survey of an operation has the fields of the survey of its job      *)
(* template, however the template, its survey or the operation changed     *)
(* (update_survey is called from three places).                            *)
(***************************************************************************)
SurveyFollows ==
    \A o \in Operation : Exists(o) /\ operation[o].template # None
        => Fields(o) = survey[operation[o].template]

(***************************************************************************)
(* What the administrator kept for himself stays so: as long as a field is *)
(* in the survey only he moves it, neither an update of the template nor a *)
(* template that takes the place of another.                               *)
(***************************************************************************)
SplitIsKept ==
    [][\A o \in Operation : \A x \in Fields(o) :
          kind'[o][x] \notin {"NONE", kind[o][x]} => SwitchField(o, x)]_catalogVars
=============================================================================
