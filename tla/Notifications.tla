--------------------------- MODULE Notifications ---------------------------
(***************************************************************************)
(* Who gets a mail about a request or an instance.  A user switches the    *)
(* mails of a kind off, or narrows them with filters: he gets a mail if he *)
(* has no filter of its kind, or if one of them matches.                   *)
(*                                                                         *)
(* A filter is saved in three commits: its row, its services and its       *)
(* operations.  An empty criterion matches everything, so between two      *)
(* commits a filter is neither what it was nor what its owner asked for.   *)
(* A mail reads in as many queries as the forms write: the filters are     *)
(* counted, then listed, and for each one it is asked whether the filter   *)
(* names any operation, then which ones, and the same of the services.     *)
(* One mail to one user is followed: mails only read, and do not meet.     *)
(***************************************************************************)
EXTENDS Integers

CONSTANTS
    User,        \* with an address, and the mails switched on: others are not looked at
    Kind,        \* "request" and "instance"; rows of different kinds never meet
    Filter,      \* primary keys of the rows of both kinds
    State, Service, Operation,
    Detail,       \* what the conditions of filters look at
    Web,         \* threads of the web server that save forms
    Other,       \* in an event: a state, service, operation or spec no filter names
    None,
    MaxPost      \* bound: forms posted

ASSUME Distinct ==
    /\ Kind \subseteq {"request", "instance"}
    /\ Other \notin State \union Service \union Operation \union Detail
    /\ None \notin Filter
    /\ MaxPost \in Nat

\* when: the specs for which it renders to something: all of them when it is empty, and none
\* when it has an error
Row == [owner : User, kind : Kind, states : SUBSET State, when : SUBSET (Detail \union {Other}),
        services : SUBSET Service, operations : SUBSET Operation]

ASSUME NoneIsNoRow == None \notin Row

VARIABLES
    filter,      \* RequestNotification and InstanceNotification
    service, operation,  \* the rows that exist
    posted,      \* how many forms were posted
    thread,      \* what each thread of the web server is doing
    mail,        \* the mail that is prepared, as far as one user is concerned
    wish,        \* history: what the owner of a filter may mean it to be
    blurred,     \* history: filters whose last form was cut off, or that lost a service or operation
    meant,       \* history: what each filter was meant to say of the mail since it began
    hazy         \* history: the filters the mail holds that were blurred, or being saved, since they
                 \* were listed

settings == <<filter, service, operation, posted, wish, blurred>>
vars == <<settings, thread, mail, meant, hazy>>

Idle == [at |-> "idle"]

At(h, point) == thread[h].at = point
Go(h, record) == thread' = [thread EXCEPT ![h] = record]
End(h) == Go(h, Idle)

----------------------------------------------------------------------------
\* What a filter matches

Event == [kind : Kind, state : State \union {Other}, spec : Detail \union {Other},
          service : Service \union {Other}, operation : Operation \union {Other}]

\* an instance has no operation
Happens(e) == e.kind = "instance" => e.operation = Other

StillThere(e) == e.service \in service \union {Other} /\ e.operation \in operation \union {Other}

WhenRender(w, spec) == spec \in w

\* Profile.*_notification_filters: the filters of a user and a kind
Of(rows, u, kind) == {f \in Filter :
    rows[f] # None /\ rows[f].owner = u /\ rows[f].kind = kind}

\* docs/manual/notifications.md: every criterion must be valid, one of the selected items is
\* enough for a criterion, and without filters every mail is sent.
Selected(items, item) == items = {} \/ item \in items

Selects(row, e) ==
    /\ Selected(row.states, e.state) /\ Selected(row.services, e.service)
    /\ e.kind = "request" => Selected(row.operations, e.operation)
    /\ WhenRender(row.when, e.spec)

Verdict(row, u, e) ==
    IF row = None \/ row.owner # u \/ row.kind # e.kind THEN "no filter"
    ELSE IF Selects(row, e) THEN "yes" ELSE "no"

Wants(verdict) == (\A f \in Filter : verdict[f] = "no filter") \/ \E f \in Filter : verdict[f] = "yes"

----------------------------------------------------------------------------
\* A mail, query by query.  left holds the rows that were listed and not tried in vain, as they
\* were read; on is the filter that is tried; torn says that a filter which named something,
\* when that was asked, named nothing when it was read what.

Saving(h, f) == thread[h].at \in {"services", "operations"} /\ thread[h].filter = f

Listed(f) == mail.at # "idle" /\ mail.left[f] # None

Remember ==
    /\ meant' = [f \in Filter |-> IF mail'.at = "idle" THEN {}
          ELSE meant[f] \union {Verdict(w, mail'.user, mail'.event) : w \in wish'[f]}]
    /\ hazy' = {f \in Filter : Listed(f)' /\
          (f \in hazy \/ f \in blurred' \/ \E h \in Web : Saving(h, f)')}

MailGoesOn == UNCHANGED <<settings, thread>> /\ Remember
MailWaits == UNCHANGED mail /\ Remember

Notify(u, e) ==
    /\ mail.at = "idle" /\ Happens(e) /\ StillThere(e)
    /\ mail' = [at |-> "count", user |-> u, event |-> e,
                left |-> [f \in Filter |-> None], on |-> None, torn |-> FALSE]
    /\ MailGoesOn

CountFilters ==
    /\ mail.at = "count"
    /\ mail' = [mail EXCEPT !.at = IF Of(filter, mail.user, mail.event.kind) = {} THEN "sent" ELSE "list"]
    /\ MailGoesOn

\* The columns of a row; its services and operations are in tables of their own.
Columns(row) == [row EXCEPT !.services = {}, !.operations = {}]

ListFilters ==
    /\ mail.at = "list"
    /\ LET listed == Of(filter, mail.user, mail.event.kind)
       IN  mail' = [mail EXCEPT
               !.at = IF listed = {} THEN "emptied" ELSE "filters",
               !.left = [f \in Filter |-> IF f \in listed THEN Columns(filter[f]) ELSE None]]
    /\ MailGoesOn

\* is_authorized returned False.
Dropped(f, torn) ==
    [mail EXCEPT !.at = IF \A g \in Filter \ {f} : mail.left[g] = None THEN "skipped" ELSE "filters",
                 !.left[f] = None, !.on = None, !.torn = @ \/ torn]

\* mutant: an empty list of states matches nothing
ColumnsMatchListed(row, e) == e.state \in row.states

ColumnsMatch(row, e) == row.states # {} => e.state \in row.states

TryFilter(f) ==
    /\ mail.at = "filters" /\ Listed(f)
    /\ mail' = IF ColumnsMatch(mail.left[f], mail.event)
               THEN [mail EXCEPT !.on = f,
                        !.at = IF mail.event.kind = "request" THEN "operations" ELSE "services"]
               ELSE Dropped(f, FALSE)
    /\ MailGoesOn

\* What the table between the filters and a list holds: nothing, of a filter that was deleted.
Named(field) == IF filter[mail.on] = None THEN {} ELSE filter[mail.on][field]

Rendered == IF WhenRender(mail.left[mail.on].when, mail.event.spec)
            THEN [mail EXCEPT !.at = "sent"] ELSE Dropped(mail.on, FALSE)

OperationsExist ==
    /\ mail.at = "operations"
    /\ mail' = [mail EXCEPT !.at = IF Named("operations") # {} THEN "all operations" ELSE "services"]
    /\ MailGoesOn

AllOperations ==
    /\ mail.at = "all operations"
    /\ mail' = IF mail.event.operation \in Named("operations") THEN [mail EXCEPT !.at = "services"]
               ELSE Dropped(mail.on, Named("operations") = {})
    /\ MailGoesOn

ServicesExist ==
    /\ mail.at = "services"
    /\ mail' = IF Named("services") # {} THEN [mail EXCEPT !.at = "all services"] ELSE Rendered
    /\ MailGoesOn

AllServices ==
    /\ mail.at = "all services"
    /\ mail' = IF mail.event.service \in Named("services") THEN Rendered
               ELSE Dropped(mail.on, Named("services") = {})
    /\ MailGoesOn

\* The mail goes to the broker, without the user who was passed over; or its process is killed.
Notified ==
    /\ mail.at # "idle"
    /\ mail' = Idle
    /\ MailGoesOn

----------------------------------------------------------------------------
\* The forms of a user

\* Another page of the same filter answers at the same time: each may win.
Disturbed(f) == [h \in Web |-> IF Saving(h, f) THEN [thread[h] EXCEPT !.alone = FALSE] ELSE thread[h]]

Exists(row) == /\ row.services \subseteq service /\ row.operations \subseteq operation
               /\ row.kind = "instance" => row.operations = {}

\* obj.save(): the row alone; the services and operations stay as they are until save_m2m.
Post(h, f, row, services, operations) ==
    /\ At(h, "idle") /\ Exists(row) /\ posted < MaxPost
    /\ posted' = posted + 1
    /\ filter' = [filter EXCEPT ![f] =
          [row EXCEPT !.services = services, !.operations = operations]]
    /\ thread' = [Disturbed(f) EXCEPT ![h] =
          [at |-> "services", filter |-> f, row |-> row, alone |-> \A g \in Web : ~Saving(g, f)]]
    /\ wish' = [wish EXCEPT ![f] = @ \union {row}]
    /\ UNCHANGED <<service, operation, blurred>>
    /\ MailWaits

\* bound: a key is not given again while a form or a mail still holds the row that had it
Create(h, f, row) ==
    /\ filter[f] = None /\ ~Listed(f) /\ \A g \in Web : ~Saving(g, f)
    /\ Post(h, f, row, {}, {})

Edit(h, f, row) ==
    /\ filter[f] # None
    /\ row.owner = filter[f].owner /\ row.kind = filter[f].kind
    /\ Post(h, f, row, filter[f].services, filter[f].operations)

\* save_m2m(), a relation after the other.  What does not exist any more is refused by the
\* database, and the form is cut off.
CutOff(h) ==
    /\ blurred' = blurred \union {thread[h].filter}
    /\ End(h)
    /\ UNCHANGED <<filter, service, operation, wish, posted>>
    /\ MailWaits

Refused(h, named, existing) ==
    named # {} /\ (filter[thread[h].filter] = None \/ ~(named \subseteq existing))

SaveServices(h) ==
    /\ At(h, "services")
    /\ LET f == thread[h].filter
           row == thread[h].row
       IN  IF Refused(h, row.services, service)
           THEN CutOff(h)
           ELSE /\ filter' = IF filter[f] = None THEN filter
                             ELSE [filter EXCEPT ![f].services = row.services]
                /\ Go(h, [thread[h] EXCEPT !.at = "operations"])
                /\ UNCHANGED <<service, operation, wish, blurred, posted>>
                /\ MailWaits

\* What is left of the wishes when a form is through.
Settled(h) == IF thread[h].alone THEN {thread[h].row} ELSE wish[thread[h].filter]

\* mutant: save(False) without save_m2m
SaveNoOperations(h) ==
    /\ At(h, "operations")
    /\ wish' = [wish EXCEPT ![thread[h].filter] = Settled(h)]
    /\ blurred' = IF thread[h].alone THEN blurred \ {thread[h].filter} ELSE blurred
    /\ End(h)
    /\ UNCHANGED <<filter, service, operation, posted>>
    /\ MailWaits

SaveOperations(h) ==
    /\ At(h, "operations")
    /\ LET f == thread[h].filter
           row == thread[h].row
       IN  IF Refused(h, row.operations, operation)
           THEN CutOff(h)
           ELSE /\ filter' = IF filter[f] = None THEN filter
                             ELSE [filter EXCEPT ![f].operations = row.operations]
                /\ wish' = [wish EXCEPT ![f] = Settled(h)]
                /\ blurred' = IF thread[h].alone /\ row.services \subseteq service
                              THEN blurred \ {f} ELSE blurred \union {f}
                /\ End(h)
                /\ UNCHANGED <<service, operation, posted>>
                /\ MailWaits

DeleteFilter(f) ==
    /\ filter[f] # None
    /\ filter' = [filter EXCEPT ![f] = None]
    /\ IF \E h \in Web : Saving(h, f)
       THEN wish' = [wish EXCEPT ![f] = @ \union {None}] /\ UNCHANGED blurred
       ELSE wish' = [wish EXCEPT ![f] = {None}] /\ blurred' = blurred \ {f}
    /\ thread' = Disturbed(f)
    /\ UNCHANGED <<service, operation, posted>>
    /\ MailWaits

----------------------------------------------------------------------------
\* An administrator deletes what filters name: the rows between them go with it (CASCADE).

Naming(ids, field) == {f \in Filter : filter[f] # None /\ filter[f][field] \intersect ids # {}}

Delete(ids, field) ==
    /\ filter' = [f \in Filter |->
          IF f \in Naming(ids, field) THEN [filter[f] EXCEPT ![field] = @ \ ids] ELSE filter[f]]
    /\ blurred' = blurred \union Naming(ids, field)
    /\ UNCHANGED <<wish, thread, posted>>

DeleteService(v) ==
    /\ v \in service
    /\ service' = service \ {v}
    /\ Delete({v}, "services")
    /\ UNCHANGED operation
    /\ MailWaits

DeleteOperation(p) ==
    /\ p \in operation
    /\ operation' = operation \ {p}
    /\ Delete({p}, "operations")
    /\ UNCHANGED service
    /\ MailWaits

\* The process of a thread is killed, in the middle of a form.
Crash(h) == ~At(h, "idle") /\ CutOff(h)

Init ==
    /\ service = Service /\ operation = Operation
    /\ filter = [f \in Filter |-> None]
    /\ thread = [h \in Web |-> Idle]
    /\ mail = Idle
    /\ posted = 0
    /\ wish = [f \in Filter |-> {None}]
    /\ blurred = {}
    /\ meant = [f \in Filter |-> {}]
    /\ hazy = {}

Next ==
    \/ \E u \in User, e \in Event : Notify(u, e)
    \/ CountFilters \/ ListFilters \/ Notified
    \/ \E f \in Filter : TryFilter(f)
    \/ OperationsExist \/ AllOperations \/ ServicesExist \/ AllServices
    \/ \E h \in Web, f \in Filter, row \in Row : Create(h, f, row) \/ Edit(h, f, row)
    \/ \E h \in Web : SaveServices(h) \/ SaveOperations(h) \/ Crash(h)
    \/ \E f \in Filter : DeleteFilter(f)
    \/ \E v \in Service : DeleteService(v)
    \/ \E p \in Operation : DeleteOperation(p)

Spec == Init /\ [][Next]_vars
----------------------------------------------------------------------------
\* What the filters may have been meant to say, each one at its own moment of the mail.
Meanings == {c \in [Filter -> {"no filter", "yes", "no"}] : \A f \in Filter : c[f] \in meant[f]}

\* request_notification.py: an event a user wants whatever the forms that were saved or cut off
\* meanwhile end up with is mailed to him, wherever the queries of the mail fall between their
\* commits.  Three things lose it: his last filter is deleted after it was counted ("emptied"),
\* a filter is emptied between the question whether it names anything and the one what (torn), or
\* what the event is about is deleted.
NothingMissed ==
    (mail.at = "skipped" /\ ~mail.torn /\ StillThere(mail.event)) =>
        \E c \in Meanings : ~Wants(c)

\* A mail that no setting of the user's filters, from the first query of the mail to the last, asked
\* for is sent only if the filter that let it through was being saved meanwhile, was cut off, had
\* lost something it named, or was deleted after it was listed.
OnlyWanted ==
    mail.at = "sent" =>
        \/ \E c \in Meanings : Wants(c)
        \/ mail.on # None /\ (mail.on \in hazy \/ filter[mail.on] = None)
============================================================================
