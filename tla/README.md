# Squest in TLA+

Squest is a self-service portal in front of RHAAP/AWX: a user requests a service or an
operation on one of his instances, administrators (or the steps of an approval workflow)
accept the request, Squest launches a job template on RHAAP/AWX and polls the job until it
ends. It is a Django application on a database in autocommit mode (`ATOMIC_REQUESTS` is not
set), with one Celery worker for background tasks and one Celery beat process that schedules
them. This directory models the parts of it that decide something, checks them with TLC and
proves what matters most with TLAPS. What it leaves out is listed at the end, with the reason.

## The system

| Part | State it keeps | Operations | Made correct by |
|---|---|---|---|
| Requests and instances (`service_catalog/models/request.py`, `instance.py`) | `Request.state`, `tower_job_id`, `periodic_task`, `approval_workflow_state`; `Instance.state` | create, hold, re-submit, accept, reject, cancel, process, retry, archive, delete, in the UI, in the API and in `post_save` signals | a job that runs is followed; an instance is busy only while a request works on it; the result of one job never settles another request |
| Job polling (`tasks.py`, `celery_beat_scheduler.py`) | one `PeriodicTask` per PROCESSING request, messages in the broker | tick, check, expire, restart of beat | exactly the waiting requests are polled, and polling ends |
| Approval workflows (`approval_*.py`) | workflow, ordered steps, their state for each request | create, reorder, delete steps; approve, reject; reset | a request accepted by its workflow went through every step in order; the workflow of a scope is unique |
| Catalog (`services.py`, `operations.py`, `portfolio.py`) | `Service.enabled`, operations and their job template | enable, disable, edit, delete | an enabled service can be requested |
| Job templates and servers (`job_templates.py`, `tower_server.py`) | a copy of the templates of each server | synchronise, delete | a deleted template disables what depends on it |
| Survey fields (`tower_survey_field.py`, `request.py`) | fields of an operation, answers of the user, of the approvers and of the administrator | answer, move a field between surveys | a value lives in one survey; the documented precedence |
| Quota (`profiles/models/quota.py`) | limit of each scope and attribute | set, edit, delete | a limit covers what was consumed and what teams were given |
| Resource tracker (`resource_tracker_v2`) | resources, attributes, transformers with cached totals | create, edit, delete, move | cached totals equal the sums |
| Scopes and roles (`profiles/models`, `Squest/utils/squest_rbac.py`) | global scope, organizations, teams, roles, default roles, permission cache | add and remove users, roles, teams | the three queries about permissions agree; a member of a team is a member of its organization |
| Support, messages, hooks, mail, documentation, announcements, tokens, monitoring | rows read by people, jobs and mails sent | create, edit, delete | mostly output |

How they interact: every save of a `Request` runs `pre_save` (`on_change`, which triggers the
global hooks) and `post_save` (`on_create`, `auto_accept_and_process_signal`), so that one
`save()` may approve steps, accept, process and launch a job, and these save again inside. The
worker reads and writes the same rows as the web handlers, without locks or transactions;
`Model.save()` writes every column, stale ones included. Beat and the worker share the broker,
which keeps messages while the worker is away.

What is hard: the nested signals, whose inner writes are overwritten by outer objects; a handler
that stops half way, between two commits; a check message executed after its request was
retried; the expiry of a request whose job still runs; two administrators who act on one
request; configuration (steps, scopes, templates) that changes under requests on their way.
`PROJECT.json` lists these hazards at the line where they bite.


## Modules

| Module | Models | Extends |
|---|---|---|
| `Transitions` | the `@transition` tables of `Request` and `Instance` | |
| `RequestLifecycle` | the handlers of requests, instances, check task and beat, each as one step | `Transitions` |
| `InstancePromise` | abstract: what the owner of an instance may count on | |
| `HandlerInterleaving` | processing, accepting, cancelling and checking, cut at their commits | `Transitions` |
| `ApprovalFlow` | the steps of one approval workflow and the requests that go through them | `Transitions` |
| `Scopes` | the organizations, the teams and the organization of each team | |
| `WorkflowScopes` | which workflow a request goes through, computed in three places | `Scopes` |
| `Catalog` | services, operations, job templates, their copies and flags | |
| `Survey` | the answers of a request, composed with the catalog that changes under it | `Catalog` |
| `ScopeAccess` | scopes, roles, owners, and the three ways to ask who may do what | `Scopes` |
| `PermissionCache` | `has_perm` and its cache, at the granularity of its queries | |
| `SupportDesk` | support tickets and messages, behind the cache | `PermissionCache` |
| `Quota` | limits of organizations and teams, validated and then saved | `Scopes` |
| `ResourceTracker` | resources, links between groups, and the totals they cache | |
| `Notifications` | who gets a mail, while filters are edited | |
| `PermissionProofs` | theorems about permissions | `ScopeAccess`, `SupportDesk` |
| `TotalsProofs` | theorems about sums | `Quota`, `ResourceTracker` |
| other `*Proofs` | theorems | the module they are about |
| `MC*` | the instances TLC checks | the module they are about |

Four compositions: `RequestLifecycle` implements `InstancePromise`; `Survey` is the product of the catalog
and the requests (every step of `Catalog` is a step of `Survey`, with what `on_change` of `TowerSurveyField` does
to the requests); `SupportDesk` uses `PermissionCache` and is proved to be one of its behaviours;
`HandlerInterleaving` and `RequestLifecycle` share the transition tables. What a module takes from another that it
does not extend is said in its header: `PermissionCache` has two facts per key where `ScopeAccess` has rows,
`WorkflowScopes` has a workflow where `ApprovalFlow` has its steps.

### RequestLifecycle

The tables are functions over primary keys; a row that does not exist yet is `"FREE"`, a deleted
one `"GONE"`. `reqState`, `operation`, `target`, `approval`, `towerJobId` and `expired` are columns
of `Request` (`approval` keeps of the workflow whether a step waits, `expired` is the comparison of
`periodic_task_date_expire` with the clock); `instState` is `Instance.state`; `task` says whether the
`PeriodicTask` of the request exists, `queue` how many of its messages wait in the broker, and
`jobStatus`, `jobOwner` are RHAAP/AWX.

One action is one HTTP request, one execution of `check_tower_job_status_task`, one restart of beat,
one tick, one job that ends. An action contains every save it makes and what `post_save` does in
each: `Accepted`, `Processed`, `AutoStepAccepted` and `Submitted` map the row before a save to the
rows that may be left after it, because a launch may succeed, fail, or not find its job template.
The nesting matters: `accept()` inside `try_accept_current_step()` saves, its signal may launch a
job and store PROCESSING, and the outer signal then saves an object that django-fsm has set to
ACCEPTED. `AutoStepAccepted` and `SavedAgain` are that order of writes. Where the UI and the API
differ (accept, re-submit, a new operation on an instance) each has its action; elsewhere they do the same and
share one. A re-submission without a workflow saves nothing in the UI, and twice in the API, each time with its signal.

`Orphaned` holds the operations whose job template was deleted (`on_delete=SET_NULL`). The module
assumes that such an operation has no `auto_accept`: then creating the request would already be cut
short, with one more outcome per handler that no property here tells apart. It is a bound.

### InstancePromise

An instance is reserved, then withdrawn or delivered; delivered only after a creation job succeeded,
retired only after a deletion job succeeded; it never comes back. `RequestLifecycle!KeepsPromise` is the
refinement, with `PhaseOf(instState)` and the sets of instances for which RHAAP/AWX reported success.

### HandlerInterleaving

The database commits every statement on its own, handlers work on Python objects loaded at the
beginning, and `Model.save` writes every column. A `thread` is a handler that stopped between two
commits: the point it reached, the `Request` object it holds and the state of the `Instance` object it
holds. The web server's threads run `request_process`, `request_accept`, `request_cancel` and
`request_reject`; the worker's threads run `check_job_status`. What keeps them apart is the
database: `Save` fails when the object refers to a `PeriodicTask` that is gone, `Schedule` fails when
the task's unique name is taken, and both leave what was committed. `Crash` ends a thread anywhere.
Expiry, restarts of beat and deletions of rows are left to `RequestLifecycle`.

### ApprovalFlow

`position` maps the steps that exist to their position, `request` maps a request to its state and its
`ApprovalWorkflowState`: the version (hash) it was instantiated with, the current step, and the verdict
of every step. `AutoApproved` is the closed form of the recursion in `try_accept_current_step`, and
`Saved` is what a save leaves after its signal. Approving by hand saves the workflow state only, so the
condition of the next step is evaluated at the next save of the request and not before. Deleting a
step follows Django's cascades: the state of the step, and the whole workflow state of the requests
whose current step it was. `Process` and `End` stand for everything `RequestLifecycle` does after
acceptance; they are there because views approve a step whatever the state of the request.

### WorkflowScopes

One operation: workflows of different operations never meet. `scopes[w]` is `ApprovalWorkflow.scopes`, and the empty
set means all scopes. `GetApprovalWorkflow` is the choice of a request, `ShouldUse` and `RequestToReset` the
queries a reset makes, `GetWorkflows` the page of a scope; each is translated from its own code, and
`ChoicesAgree` compares them. `uses` and `old` keep of a request's workflow state which workflow it belongs to and
whether its steps have changed since. A scope that is deleted leaves the many-to-many rows of the workflows that
named it, which can turn a workflow for one scope into one for all: `OneDefault` is therefore no invariant, the
agreement is claimed as long as it holds, and `DefaultsFromDeletion` says that nothing else breaks it.

### Catalog and Survey

`Catalog` is the part administrators and the synchronisation work on. A save is one step with its signals:
`SaveService` is `service_pre_save`, `CreateOperation` is the row followed by
`add_job_template_survey_as_default_survey`, `EditOperation` is `on_change` and then `disable_service`. `UpdateSurvey`
is what `update_survey` leaves of the fields of an operation. `Survey` adds the requests: the answers of the user
(`fill_in_survey`), of each approval step, and of the administrator (`admin_fill_in_survey`), and `FullSurvey`, the
precedence with which the job is launched. `steps` has the answers of the `ApprovalStepState` at each position: approving
the current step replaces them, a new workflow state or its deletion drops all, the deletion of a step drops its own or,
when it is the current one, the whole state, and a step that is moved takes them along. A step of the catalog takes the
answers along (`Carried`) and deletes the requests of a deleted operation.

Bounds: every field of a form is answered, with something; handlers are atomic; the administrator's free edit of a
request (`RequestForm`) is left out; UPDATE and DELETE operations are one type, `OTHER`, since only CREATE is looked at; a
workflow has at most `MaxStep` steps, which are moved by exchanging two (any order is reached by that), and which steps
exist is not looked at: who comes next is any later one.

### ScopeAccess

`member` is the set of (scope, role, user) in the `RBAC` groups. One permission is followed: `granting` is the set
of roles that have it, `globalPerm` and `ownerPerm` say whether `GlobalScope` gives it to everybody and to owners.
`HasPerm` is `SquestRBACBackend.has_perm`, `GetQuerysetForUser` goes through the `get_q_filter` of each model, `WhoHasPerm`
is `who_has_perm` with its overrides; `RequestedBy`, `SentBy` and `About` are the rows whose owners differ from the
instance's. The methods of `Organization`, `Team` and `AbstractScope` that remove users are three, and the API uses
only the last: `MemberStep` are the UI's, `Bypass` what goes around them. A superuser is granted everything by all
three questions and would hide their differences: the run has none.

### PermissionCache and SupportDesk

A handler that asks for a permission reads the cache, then the roles, then the owner, then stores its answer: four
moments (`AskRoles`, `AskOwner`, `Store`), between which rows change (`Change`), a second passes (`Tick`) and it may
die. Nothing invalidates an entry. `quiet`, `seen` and `late` are history: how long the rows have been left alone, what
they granted since a handler began, whether they changed under it. The desk's pages go through it: `Open` is the
beginning of a page, which continues at once with a cached answer or waits for its thread; then the commits of
`SupportRequestForm.save`, `SupportMessageForm.save`, `support_close`, `support_reopen` and the deletion. `heard` and `told`
record what mails said.

Bounds: one ticket, and messages whose keys are not used again; a page waits when there is no key left; the first mail
of a ticket and the row it tells about are never mixed up with another's; `SQUEST_EMAIL_NOTIFICATION_ENABLED` is on.
Comments on requests (`RequestMessageForm`) save before they mail and are left out.

### Quota

One attribute. `limit` is the quota of each scope, `usage` what its instances use. `FormAccepts` and `ApiAccepts` are the
two validations, `Saved` what each saves; `pending` is the change of a slow administrator, validated when the page was
posted and saved in another statement. The teams of `Without` go with the quota of their organization, by signal.

`QuotaSerializer` also takes another scope and another attribute: a change of the API names the place of the row it edits
(`of`) and the one where it puts it, and `Elsewhere` is any row of another attribute. A row that is taken away is not deleted, so
no signal comes and the quotas of the teams stay. An edit that waits holds its row, wherever others put it meanwhile
(`Followed`), and saving brings a deleted one back. `given` is history: the place the last step took a row from, which is
how `TeamsUnderOrg` names the hand-over (`HandedOver`).

### ResourceTracker

`transformer` holds the rows of `Transformer` with the two sums they cache, `resource` the resources with their values.
`Notified` is the chain of saves that `post_save` sets off, from a transformer to its parents; `Recounted` is
`calculate_total_produced` of some of them followed by that chain. The handlers differ in what they recount, which is
what the module is for: `ResourceMoveForm` recounts nothing, `ResourceSerializer.update` recounts in the old group, cascades
call no `delete()`.

`TotalsFollow` names the three ways in which balanced totals go wrong: a child was lost (`LostChild`), a resource was moved
(`Moved`), or the API gave the transformer another row (`MovedTo`).

Bounds: a group has no state of its own; a factor divides `Unit`; the sum of quotients is taken without the
rounding of floats.

### Notifications

`filter` holds `RequestNotification` and `InstanceNotification`. A form is saved in three commits, `Post` (the row), `SaveServices`
and `SaveOperations` (`save_m2m`). A mail is prepared in as many queries as the code makes, and rows change between any two:
`CountFilters`, `ListFilters` (which reads the columns of the rows), then for each filter `TryFilter` (its states),
`OperationsExist` and `AllOperations`, `ServicesExist` and `AllServices` (`exists()` and `all()` of the two tables between), and
at last its condition. `mail` is the mail as far as one user is concerned: what was listed and not dropped (`left`), which
filter is tried (`on`), whether one that named something when it was asked named nothing when it was read (`torn`).

Three histories say what the mail should be compared with. `wish` holds what the owner of a filter may mean it to be while
forms are on their way, `blurred` the filters whose last form was cut off or which lost something they named. `meant` is
what each filter was meant to say of this mail at any moment since the mail began, and `hazy` the filters it holds that were
blurred or being saved since they were listed. `Selects` is written from the documentation and the queries from the code.

Bounds: one mail to one user is followed, since mails only read and users do not meet; the user has an address and his
mails are on (the two switches of a profile only decide whether any of this happens); the row and the POST are one step;
a key is not given again while a form or the mail still holds its row; what mails say and whether the SMTP server takes
them is not modelled.

## Runs

| Run | Instance | Shows |
|---|---|---|
| `lifecycle` | 2 requests, 1 instance, 3 jobs; `auto_accept` on updates and deletions, `auto_process` on updates, a workflow with automatic steps on creations | jobs, polls, requests and instances stay consistent; refusals are final; `InstancePromise` is implemented; polling ends |
| `timeout` | 2 requests, 1 instance, nothing automatic | expects a violation (below) |
| `workers` | 1 request, 1 web thread, 2 workers, 2 jobs | the first job is followed, its success delivered once, and it settles the request |
| `admins` | 1 request, 2 web threads, 1 worker, crashes | no stale object or crash makes up a result |
| `steps` | 2 requests, 3 steps, the second one conditional | steps are taken in order and all of them, a refused or finished request is never accepted, reset renews |
| `workflows` | 1 request, 2 organizations, 1 team, 3 workflows | the request, the reset and the page of the scope choose the same workflow |
| `survey` | 1 service, 2 operations, 2 templates, 1 variable, 1 request, 3 steps, 2 answers | flags and copies follow; an answer is lost for named reasons only, and never shown to whom it is kept from |
| `access` | 1 user, 2 roles, 2 organizations, 1 team, an instance, 2 requests, 1 message | the three questions agree on every row; the UI keeps members of teams in their organization |
| `desk` | 2 pages, 1 key, a time to live of 1, 1 message, 2 texts | nothing is used longer than its time, granted without having been granted, or shown without having been mailed |
| `quota` | 2 organizations, 2 teams, amounts 0 and 1, rows of another attribute | what a limit covers is lost in the named ways only |
| `tracker` | 3 rows that may be linked, 2 resources, values 0 and 1, factors 1 and 2 | totals follow but for the named gaps; links form no loop |
| `mails` | 1 user, 2 filters, 2 web threads, 2 forms | a wanted mail is lost, and an unwanted one sent, for named reasons only |

The bounds. *lifecycle*: requests of different instances share nothing but the operations, so one instance is enough;
with two requests one is the creation and the other whatever meets it, and a third job allows a retry of each kind.
`MaxMsg` = 1 is enough for late messages, since a message may wait through any number of other steps, and for
duplicated ones in `HandlerInterleaving`, since beat fills the place as soon as a worker took the first. *steps*: three
are the fewest with one before, one at and one after the current step; requests meet only in the reset. *workflows*:
three are one for the team, one for the organization and one for all; `ChoicesAgree` and `ResetIsDone` speak of one
request at a time. *survey*: fields do not meet, so one variable; two templates, for the field that leaves with one
and comes back with the other; two operations, for a service that keeps one; three steps, one before, at and after the
current one, as in *steps*. A constraint (`MCSurvey!Alone`) makes the operation of a request the only one while the request
is under a workflow: the answers depend on the request's own operation, and the other one matters to the flag of the
service only, which the run follows in all the states without a workflow. *access*: users do not meet; two
organizations, for a team that moves; one role that never grants, for members without the permission. *desk*: keys
share nothing, two handlers are a race; the proofs have no such bounds. *quota*: two teams compete for what one
organization has; moving a team needs two. *tracker*: three rows are the fewest with a chain and a loop of three;
`FewErrors` follows a total that is wrong for one more step, since `TotalsFollow` speaks of balanced totals only; a
second resource is there only while totals are right. *mails*: two forms
are the fewest that overlap, and the fewest that change a filter; two filters, for one that is listed while the other is
tried; an event of kind "request" asks every query there is; conditions and states are read with the row and only make the
state larger.

Deadlock is checked in `access`, `desk`, `workflows`, `tracker`, `quota` and `survey`, whose systems go on for ever. In the
others a system whose requests are settled, or whose bounds are used up, stops.

Fairness. `RequestLifecycle!FairSpec` has weak fairness for beat, the worker, the clock and RHAAP/AWX,
which are processes that run on their own, and none for people. Beat is not restarted for ever
(`<>[][~BeatRestart]_vars`): a restart renews the expiry dates, so that endless restarts would poll for
ever. `HandlerInterleaving!FairSpec` has weak fairness for each worker thread, beat and each job. The other modules have
none: everything in them is started by a person, and their properties are about what a step may do.

## What the code does not do

Found by a run:

* `timeout`: `check_job_status` deletes the check task and then cannot save the request, because the
  deleted object is still cached on its foreign key. The instance is failed, the request stays PROCESSING.

Reproduced with other values of the constants, which the theorems exclude by hypothesis:

* An operation with both a single automatic step (`AutoStep`, not `AutoChain`) and `auto_process` launches the job and then
  overwrites PROCESSING with ACCEPTED; the result of the job is never applied. Put the operation into `AutoStep` and
  `AutoProcess`: `RunningJobIsTracked` fails.
* Processing a request whose job template was deleted leaves the instance busy for good. Put the operation into
  `Orphaned`: `BusyInstanceHasDriver` fails.
* A handler that dies after it launched a job, two administrators who process one request at once, and two requests of one
  instance processed at once each leave a job that runs and that nobody follows, or an instance it does not keep busy. Give
  `workers` a second thread of the web server, or `Crashes`, or both a second thread and a second request of an available
  instance (with `MCTwoTypeOf`, `MCAvailable`): `FirstJobIsFollowed` fails.
* Moving steps under a waiting request lets it be accepted without one of them. Set `Reorders` in `ApprovalFlow`:
  `AcceptedStepByStep` fails.

Seen while modelling. *Requests*: deleting requests from the list leaves their check tasks behind
(`views/request.py:422`); a retry between the two commits of a failed check loses the job it launches; two
administrators can process two requests of one instance at once. The API accepts a request whose workflow still
waits (`request_state_machine_api_view.py:33`; the UI refuses, `views/request.py:248`), and `re_submit` of the API saves
SUBMITTED over the acceptance an automatic step decided (`:97`); for an operation whose `auto_accept` and `auto_process` were
switched on since, that last save accepts the request again while its job runs. An operation with `auto_accept` accepts a request at
any save while a step still waits (`request.py:468`). `request_reject` raises for an ACCEPTED request that went through
its workflow, which has no current step any more (`views/request.py:211`). Deleting a PROCESSING request leaves its
instance busy (`request.py:328`); `BusyInstanceHasDriver` counts the deleted request as its driver. The API checks for no
pending deletion when it requests another operation.

*Workflows*: after the step at position 0 was deleted `instantiate` finds no first step (`approval_workflow.py:62`) and
new requests wait for nobody; deleting the current step deletes the workflow state of the request.

*Catalog and answers*: moving a field to the administrator overwrites his answer with the user's
(`tower_survey_field.py:312`); an answer the API takes for a user's field after the UI accepted is ignored by `full_survey`.
Deleting an approval step takes its answers out of every request that has them (`approval_step_state.py:22`), and a step
moved behind the current one is approved once more and its answers replaced.
Deleting a template disables services that have another way to be requested (`job_templates.py:107`) and leaves enabled
operations without template. The API creates an enabled service unchecked, and creating an operation without template by
the API raises after the row was stored (`operations.py:149`). Enabling the only creation operation of a service does not
enable the service. Moving the last creation operation to another service or type leaves its service enabled.

*Scopes*: the API removes users with the method of `AbstractScope`, which does not take them out of the teams
(`scope_api_views.py:70`); so do the deletion of a role and a team that changes its organization.

*Support*: a closed ticket still takes messages; a deleted ticket or message comes back when a page that had read it
saves it; a crash leaves the first message of a ticket unmailed; a closing may be mailed and never saved.

*Quota*: limits are advisory (they bound what a survey offers, `tower_survey_field.py:294`); the API takes a new limit of an
organization below its consumption, and any limit of a team below the team's. It also moves a row to another scope or
attribute (`quota_serializer.py:17`), which leaves the teams of an organization with quotas and the organization without.

*Resource tracker*: a transformer that loses a child, by deletion or by a new parent, keeps a stale total; moving a
resource recounts neither group; the API's change of a transformer's own row leaves its children dangling, and a link
closed later through a dangling one may be a loop; `calculate_total_produced` saves the whole row (`transformer.py:143`); a
factor of 0 raises (`transformer.py:154`).

*Mails*: between the commits of a filter's form it matches more than its owner asked for, and a mail prepared then is sent
to him; a filter whose last service or operation is deleted matches everything, and so does one that was deleted after the
mail listed it (`profile.py:18`). A mail both the old and the new filter ask for is lost when a form empties a list between
the query whether it is empty and the one what is in it (`request_notification.py:28`), or when the last filter is deleted
between the count and the list.

## Proofs

Every theorem is for all values of the constants, from the assumptions on the constants alone unless a hypothesis is
named.

**RequestLifecycleProofs**: `TypeCorrect`; `JobsAreTracked`, `CompletionIsEarned`, `BusyInstancesAreDriven` and `PollersMatch`, the
four safety invariants, under `WellConfigured`: no operation has both an automatic step and `auto_process`, and none lost
its job template; `RefusedForGood`, without that hypothesis; `PromiseKept`. None of the four invariants is inductive on
its own. `Safe` is their conjunction with `TypeOK` and `JobsInOrder` (the jobs launched are `1..lastJob` and each has an owner). The argument:
a launch happens only when the request is not PROCESSING, hence by `PollerMatchesProcessing` has no check task, hence
`setup_periodic_check_task` finds the name free and stores the id of the new job; so the running job is the one in the row
(`RunningJobIsTracked`), so a check that sees success sees the success of the last job (`CompleteMeansSuccess`). A busy
instance cannot be started again (`CanProcess`), so the request that made it busy is the only one that moves it
(`BusyInstanceHasDriver`); accepting resets only failed states, and expiry, which moves the instance alone, moves it out of
the busy states. A re-submission would break this for an operation with `auto_accept`, whose request has perhaps been launched when the last
save accepts it again; `NeverWaits`, an invariant of its own, says that no such request is ever SUBMITTED.

The refinement is `PromiseKept`, under `WellConfigured`: every behaviour of the life cycle is one of `InstancePromise`. The
invariants above say nothing about which requests an instance may have, which is what the promise depends on; `Owed` adds
it. An instance has one creation request, and it is over once the instance is delivered; every other request is
about an instance that was delivered; a running job implies that the promise still has room for its success (a
creation job runs on a reserved instance, a deletion job on a live one or one already destroyed). `Advance` is what a step
must leave alone for `Owed` to survive; each group of handlers is shown to be such a step and to move the phase as the
promise allows.

**ApprovalFlowProofs**: `TypeCorrect`; `StepsInOrder` and `AcceptedAtEveryStep` under `~Reorders`, the hypothesis that no step is moved
while a request waits; `SettledForGood` and `ResetMissesNobody` without it. The invariant is `Typed` and `Ordered`. `Typed`
adds to `TypeOK` that the positions are distinct and below the number of steps ever created: distinct, or the step after the current one could have
its position and be passed over; bounded, or `on_create_set_position` would have no largest position to go after. One lemma
per routine (`InstantiatedOK`, `ApprovedOK`, `AutoApprovedOK`, `RejectedStepOK`, `WithoutStepOK`), one about saving (`SavedOK`),
one per action; `Follows` collects what every action on a request leaves in its row, and the two action properties are read
off it. `ResetMissesNobody` needs of the invariant only that the state of a workflow has a version: a waiting request that a
reset leaves alone is up to date by the three queries that chose the others.

**WorkflowScopesProofs**: `TypeCorrect`, `ScopesServedOnce`, `OneChoice`, `ResetComplete`, `SecondDefaultFromDeletion`. The
invariant is `ServedOnce` with the types and the fact that a request that was not made has no team's scope. The
agreement of the queries needs no induction beyond it: with `ServedOnce` at most one workflow serves a scope directly, so
each of the three queries has one candidate at each level.

**SurveyProofs**: `TypeCorrect`, `SurveysFollow`, `NothingShown`, `SplitKept`, `NoAnswerForgotten`, `MovesKeepAnswers`, `ServicesSound`.
Every step of the catalog changes a field in one of three ways (`FieldStep`: it goes, it comes as the user's, or the
administrator moves it), and a field that comes had no answers kept from the user; what is said of the answers follows.
`NoStrayFields` (fields go with their operation) is the strengthening. `NoAnswerForgotten` is about the last step that
answered a field: `LastStep` says there is one whenever there is any, and `WorkflowKeepsOthers` that deleting or moving steps
that do not hold the answer leaves a step that holds one.

**HandlerInterleavingProofs**: `TypeCorrect` and `OutcomesAreEarned`, for any number of administrators, workers, jobs,
crashes and requests on one instance; `FirstJobsAreFollowed` and `CompletionsAreDelivered`, under three hypotheses. There are
two invariants. `IInv` says what each object a thread holds is worth: the job in it is a job of its request, a success in it
was one, and the state of the instance in it was earned, so that writing it back, however late, makes up nothing. `Follows`
is about a request whose only job runs or succeeded: either one thread is between the launch and the check task
(`Launching`), or the job is in the row with its task, or workers are applying it (`Polled`), each with what the objects
they hold must say. The hypotheses are `~Crashes` (no thread dies between two commits), `OneRequestEach` (requests do not
share an instance) and `[]OneHandlerEach` (two administrators are not at work on one request at once). None can be dropped:
without each of them TLC finds a job nobody follows, with two threads of the web server. They exclude what "What the code
does not do" lists; any number of workers may still look at the same job, and administrators may come one after the
other, in any order and over several requests. In the runs `OneHandlerEach` holds because `workers` has one web thread.

**PermissionProofs**, about three modules. *ScopeAccess*: `AccessTypeCorrect`, `OneRule`, `ToldMayAct`, `UsersLeaveFirst`. The
three questions are compared with one form of the rule, `Reaches`: the user has a granting role in a scope of the row, or
is a member of an organization or team whose default roles grant. That they agree is no matter of definitions alone: it
needs that rows of different kinds never meet (`KindsAreListedApart`), that an instance always has a scope that exists, and
that a scope that does not exist has no members, which is the part of `AccessTypeOK` that is an invariant. *PermissionCache*:
`TypeCorrect`, `StaleForTtlOnly`, `GrantsEarned`. A wrong entry is explained by something recent (`WrongIsRecent`: its
remaining time and the quiet time are at most the time to live); a handler that was not overtaken by a change holds what
the rows say (`HandlersAreHonest`). *SupportDesk*: `DeskUsesCache`, the refinement: the desk is a behaviour of the cache, so
its invariant holds here; `DeskStale`, `ClosedTold`, `StoredMailed`, `RevokedRefused`. `PagesAreSound` says what a page that is
about to save has already mailed, and `Waits` that a page waits exactly while its thread computes what the page asked.

**NotificationsProofs**: `TypeCorrect`, `NothingIsMissed`, `OnlyWantedIsSent`. The invariant has two parts. `IInv` is about the
filters: one between two commits of its form is neither the old wish nor the new one, and no single wish explains it.
`Covered` says that each of its criteria comes from some wish or is wider; `Clean` says that a filter no form works on or was
cut off on is a wish as it stands; `FormsOK`, what a form still has to save and whether it is alone with its filter, makes
both inductive. `MInv` is about the mail: what it holds of a filter was true of the filter at some moment since it began, and
either still is or the filter is in `hazy`. So a filter that is dropped fails one criterion in some wish it had meanwhile
(`NoIsMeant`), hence nothing is missed unless `torn`; and a filter that lets the mail through and is not hazy did match in a
wish (`YesIsMeant`), hence what is sent was wanted.

**TotalsProofs**, about two modules. *Sums*: a sum is a fold, and the library has no theorem for what it does when a set
loses an element, so `SumWithout`, `SumSame`, `SumType` and `SumShrinks` are proved here from the definition of the fold. An
induction over finite sets cannot be cited with the property as a parameter; instead, a smallest set on which the
lemma is wrong is taken (strict inclusion is well founded on finite sets) and shown not to exist. *Quota*:
`QuotaTypeCorrect`, `ApiIsNeverStricter`, `TeamsStayUnderOrg`, and `LimitsCoverUse`, which needs the sums: what a scope has
committed grows only with the limit a step accepted, by no more than the form or the serializer compared, and shrinks when
a row leaves for another attribute. It assumes
that there are finitely many teams, as in any database. *ResourceTracker*: `TrackerTypeCorrect`, `TotalsFollowRows`,
`LinksAreSound`, for finite sets of rows and resources. `notify_parent` is a chain of saves with no bound but the number of
rows; `AncestorsClosed` and `AncestorsLeast` (again by a smallest counterexample, of the length of the chain) say that it
reaches the least set with the parent and closed under taking parents. So a sum that changed is among those recounted, and
a link that is added puts nothing above itself if its target was not below it. `TotalsFollow` and `LinksStaySound` need no
other invariant than the types: both say what one step does to totals that were right and links that were sound.

Only model-checked: the liveness properties `PollingEnds` and `FirstJobSettles`, which with their fairness are out of the
prover's reach. Every other property of a passing run is stated by a theorem.

## Not modelled

The map covers about a sixth of the Python lines. A third of the rest is migrations, settings, URL tables,
management commands and demonstration data; most of the remainder builds tables, forms, filters, breadcrumbs and pages,
which hold no state and decide nothing. Left out although it holds state:

* *Hooks* (`hooks.py`): `HookManager` launches jobs that nothing waits for and keeps nothing. It runs in `pre_save`, before
  the row is stored, so a hook may tell of a change that is then refused.
* *Launch parameters* (`process_request_form.py`, `perform_processing`): pure precedence of the job template, the defaults of
  the operation and the page. The defaults are rendered with Jinja on the page and passed as they are by automatic
  processing and the API, against `docs/manual/service_catalog/operation.md:52`.
* *Free edits by administrators* (`RequestForm`, `InstanceForm` and the API's PATCH of both): they assign any state; every
  invariant about states is relative to the handlers.
* *Documentation*: `cleanup_ghost_docs_images` deletes images no document names, and may meet a document that is being
  written. *Backups*, *announcements*, *custom links*, *portfolios*, *tokens*, *profiles*: single rows, written by one form each.
* *Maintenance mode*: the middleware runs the view before it looks at the mode, against
  `docs/configuration/squest_settings.md:173`. No state of its own.
* *Monitoring*, *tables*, *filters*, *templates*, *authentication*: output, or Django's.
* *Deletion dialogs* (`squest_model.py:38`): what they say will be deleted is presentation.

A module that could follow is `Launch`, the three sources of each launch parameter and the two ways to process.
