----------------------------- MODULE SupportDesk -----------------------------
(***************************************************************************)
(* A support ticket on an instance and its messages.  Each page first asks *)
(* for a permission, through the cache, and then reads, mails and writes   *)
(* at separate moments.  What it read may be closed, reopened or deleted   *)
(* in between: Django saves a row that is gone by inserting it again, and  *)
(* only a foreign key stops it.                                            *)
(*                                                                         *)
(* A reply and an edit are mailed before they are saved, the first message *)
(* of a ticket after.                                                      *)
(***************************************************************************)
EXTENDS PermissionCache

CONSTANTS
    Message,  \* primary keys of support messages
    Text,
    KeyOf     \* what the cache is asked for a page

Kind == {"new", "reply", "edit", "close", "reopen", "delete"}

ASSUME KeyOfAssumption == KeyOf \in [Kind -> Key]
ASSUME NotMissing == Missing \notin Message \union Text

VARIABLES
    instance,  \* whether the instance exists
    ticket,    \* the state of its ticket; "unborn" before it is created, "deleted" after
    message,   \* Text, or Missing
    page,      \* what a handler does once it is past has_perm
    heard,     \* history: the texts of a message that were mailed
    told,      \* history: a mail said the ticket is closed since it was last opened
    dumb       \* history: first messages their page has not mailed, or will not

rows == <<instance, ticket, message>>
history == <<heard, told, dumb>>
desk == <<rows, page, history>>
all == <<vars, desk>>

SupportState == {"opened", "closed"}
OnDesk == {m \in Message : message[m] # Missing}
Exists == ticket \in SupportState

NoPage == [at |-> "none"]

\* asks: has_perm computes; granted: the view runs; the others are its later commits
Page == [at : {"asks", "granted", "content", "mail", "save"}, kind : Kind,
         message : Message \union {Missing}, text : Text \union {Missing}]

At(t, kind, point) == page[t].at = point /\ page[t].kind = kind
Go(t, point) == page' = [page EXCEPT ![t].at = point]
Leave(t) == page' = [page EXCEPT ![t] = NoPage]
Free(t) == page[t].at = "none"

----------------------------------------------------------------------------
\* The rows the URL names exist when the page is called, or it answers 404.
Found(kind, m) ==
    \/ kind = "new" /\ instance /\ ticket = "unborn" /\ m = Missing
    \/ kind = "edit" /\ m \in OnDesk
    \/ kind \notin {"new", "edit"} /\ Exists /\ m = Missing

Writes(kind) == kind \in {"new", "reply", "edit"}

\* The next primary keys; a bound: a page waits when there is none left.
Fresh == {m \in Message \ OnDesk : heard[m] = {} /\ \A t \in Thread : page[t].at # "none" => page[t].message # m}

\* has_perm: an entry of the cache answers at once, otherwise the thread computes.
Open(t, kind, m, text) ==
    /\ Free(t) /\ Found(kind, m) /\ (Writes(kind) <=> text # Missing)
    /\ LET Continue(point) == page' =
              [page EXCEPT ![t] = [at |-> point, kind |-> kind, message |-> m, text |-> text]]
       IN  IF Misses(KeyOf[kind])
           THEN AskRoles(t, KeyOf[kind]) /\ Continue("asks")
           ELSE /\ entry[KeyOf[kind]].answer /\ Continue("granted")
                /\ UNCHANGED vars
    /\ UNCHANGED <<rows, history>>

\* The thread stores its answer, and has_perm returns it.
Answered(t) ==
    /\ Store(t)
    /\ IF thread[t].answer THEN Go(t, "granted") ELSE Leave(t)
    /\ UNCHANGED <<rows, history>>

----------------------------------------------------------------------------
\* SupportRequestForm.save: the ticket, then its first message, then the mail.

CreateSupport(t) ==
    /\ At(t, "new", "granted")
    /\ IF instance /\ ticket = "unborn"
       THEN ticket' = "opened" /\ Go(t, "content")
       ELSE UNCHANGED ticket /\ Leave(t)
    /\ UNCHANGED <<vars, instance, message, history>>

Insert(m, text) == message' = [message EXCEPT ![m] = text]

CreateMessage(t) ==
    /\ At(t, "new", "content")
    /\ IF Exists
       THEN \E m \in Fresh : /\ Insert(m, page[t].text)
                             /\ dumb' = dumb \union {m}
                             /\ page' = [page EXCEPT ![t].at = "mail", ![t].message = m]
       ELSE UNCHANGED <<message, dumb>> /\ Leave(t)
    /\ UNCHANGED <<vars, instance, ticket, heard, told>>

Hear(m, text) == heard' = [heard EXCEPT ![m] = @ \union {text}]

MailFirst(t) ==
    /\ At(t, "new", "mail")
    /\ Hear(page[t].message, page[t].text)
    /\ dumb' = dumb \ {page[t].message}
    /\ Leave(t)
    /\ UNCHANGED <<vars, rows, told>>

----------------------------------------------------------------------------
\* SupportMessageForm.save: the mail, then the message.

Ready(t) == page[t].at = "granted" /\ page[t].kind \in {"reply", "edit"}

Subject(t) == IF page[t].kind = "edit" THEN {page[t].message} ELSE Fresh

\* mutant: the mail only after the message, like in RequestMessageForm
MailLater(t) ==
    /\ Ready(t)
    /\ \E m \in Subject(t) : page' = [page EXCEPT ![t].at = "save", ![t].message = m]
    /\ UNCHANGED <<vars, rows, history>>

\* The mail names the instance: without it the page fails.
MailMessage(t) ==
    /\ Ready(t)
    /\ \/ /\ instance
          /\ \E m \in Subject(t) : /\ Hear(m, page[t].text)
                                   /\ page' = [page EXCEPT ![t].at = "save", ![t].message = m]
       \/ ~instance /\ Leave(t) /\ UNCHANGED heard
    /\ UNCHANGED <<vars, rows, told, dumb>>

\* A message that was deleted under an edit is inserted again if its ticket exists.
SaveMessage(t) ==
    /\ page[t].at = "save" /\ page[t].kind \in {"reply", "edit"}
    /\ IF Exists THEN Insert(page[t].message, page[t].text) ELSE UNCHANGED message
    /\ Leave(t)
    /\ UNCHANGED <<vars, instance, ticket, history>>

----------------------------------------------------------------------------
\* The ticket is read, its transition is made, which mails the closing, and the row is saved.

SourceOf == [close |-> "opened", reopen |-> "closed"]
TargetOf == [close |-> "closed", reopen |-> "opened"]

\* mutant: the closing is mailed after the ticket is saved
TransitionUntold(t, kind) ==
    /\ At(t, kind, "granted")
    /\ IF ticket = SourceOf[kind] THEN Go(t, "save") ELSE Leave(t)
    /\ UNCHANGED <<vars, rows, history>>

\* do_close, do_open
Transition(t, kind) ==
    /\ At(t, kind, "granted")
    /\ IF ticket = SourceOf[kind]
       THEN Go(t, "save") /\ told' = (told \/ kind = "close")
       ELSE Leave(t) /\ UNCHANGED told
    /\ UNCHANGED <<vars, rows, heard, dumb>>

\* A page that mailed a closing and has not saved it yet.
Closing(t) == At(t, "close", "save")

\* The whole row is saved: a deleted ticket comes back, unless its instance is gone.
SaveTicket(t, kind) ==
    /\ At(t, kind, "save")
    /\ ticket' = IF instance THEN TargetOf[kind] ELSE ticket
    /\ told' = IF kind = "reopen" THEN \E u \in Thread : Closing(u) ELSE told
    /\ Leave(t)
    /\ UNCHANGED <<vars, instance, message, heard, dumb>>

DeleteAll == /\ ticket' = IF Exists THEN "deleted" ELSE ticket
             /\ message' = [m \in Message |-> Missing]

DeleteSupport(t) ==
    /\ At(t, "delete", "granted")
    /\ DeleteAll
    /\ Leave(t)
    /\ UNCHANGED <<vars, instance, history>>

\* The instance is deleted, and its tickets with it.
DeleteInstance ==
    /\ instance /\ instance' = FALSE
    /\ DeleteAll
    /\ UNCHANGED <<vars, page, history>>

\* The process of a handler is killed.
Crash(t) ==
    /\ ~Free(t)
    /\ IF thread[t].at = "idle" THEN UNCHANGED vars ELSE Die(t)
    /\ Leave(t)
    /\ UNCHANGED <<rows, history>>

DeskInit ==
    /\ Init
    /\ instance = TRUE /\ ticket = "unborn" /\ message = [m \in Message |-> Missing]
    /\ page = [t \in Thread |-> NoPage]
    /\ heard = [m \in Message |-> {}] /\ told = FALSE /\ dumb = {}

Step(t) ==
    \/ CreateSupport(t) \/ CreateMessage(t) \/ MailFirst(t)
    \/ MailMessage(t) \/ SaveMessage(t)
    \/ \E kind \in {"close", "reopen"} : Transition(t, kind) \/ SaveTicket(t, kind)
    \/ DeleteSupport(t)

Answering(t) == (AskOwner(t) /\ UNCHANGED desk) \/ Answered(t)

DeskNext ==
    \/ \E t \in Thread, kind \in Kind, m \in Message \union {Missing}, text \in Text \union {Missing} :
           Open(t, kind, m, text)
    \/ \E t \in Thread : Answering(t) \/ Step(t) \/ Crash(t)
    \/ \E k \in Key : Change(k) /\ UNCHANGED desk
    \/ Tick /\ UNCHANGED desk
    \/ DeleteInstance

DeskSpec == DeskInit /\ [][DeskNext]_all

----------------------------------------------------------------------------
\* support.py: a closed ticket was announced as closed since it was last opened, or by a page that
\* was closing it already when it was reopened.
ClosedWasTold == ticket = "closed" => told

\* support_message_forms.py: whatever pages reply, edit, delete and die, a message on the desk
\* says what a mail said; only the first message of a ticket may be there and nobody heard of it.
StoredWasMailed == \A m \in OnDesk \ dumb : message[m] \in heard[m]

\* A page that passes has_perm had its permission less than the life of an entry ago, or was
\* answering since before it was taken away: a revocation reaches every page.
RevokedIsRefused ==
    [][\A t \in Thread : page'[t].at = "granted" /\ page[t].at # "granted" =>
          LET k == KeyOf[page'[t].kind]
          IN  Granted(k) \/ quiet[k] < Ttl \/ (thread[t].at # "idle" /\ thread[t].late)]_all
============================================================================
