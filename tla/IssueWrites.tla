----------------------------- MODULE IssueWrites -----------------------------
(***************************************************************************)
(* The other tools that change an issue, and the download of what is       *)
(* attached to it (src/internal/tools/tools.go and jira/client.go).  Most  *)
(* ask Jira something first and act on the answer with a request of its    *)
(* own, while other users change what was asked.                           *)
(*                                                                         *)
(* What no property tells apart is chosen anew where it is read: the       *)
(* metadata of fields, the size of an attachment, what Jira refuses.       *)
(***************************************************************************)
EXTENDS Naturals

CONSTANTS
    None,
    Tasks,        \* tool calls in flight
    Selections,   \* as in IssueRelations
    Words,        \* names of types, transitions, statuses and files
    Fields,       \* fields besides project, type and summary
    CustomFields, \* those named customfield_*
    Values,       \* JSON values, by their shape
    SchemaTypes,  \* types of fields, those Fits knows and "other"
    NameOf,       \* id of a type -> its name at first
    TransitionOf, \* id -> its name and that of the status it leads to
    FileOf,       \* id of an attachment -> the name of its file
    MaxFaults,
    MaxEdits

TypeIds == DOMAIN NameOf
TransitionIds == DOMAIN TransitionOf
Attachments == DOMAIN FileOf

Sides == {"", "blank", "other"}

(* None is nothing that Jira gave or did. *)
ConstantsOK ==
    /\ NameOf \in [TypeIds -> Words]
    /\ None \notin TypeIds \union TransitionIds \union Attachments
    /\ None \notin {"text", "document", "name", "accountId", "deleted"}
    /\ None \notin [before : Sides, after : Sides]
    /\ \A fs \in SUBSET Fields : None \notin [fs -> Values \union {"document"}]

VARIABLES
    enabled,
    name,       \* the name of each type
    available,  \* the transitions the issue can take
    attached,   \* the attachments it has
    task,       \* the tool call in each slot
    faults,
    edits

vars ==
    <<enabled, name, available, attached, task, faults, edits>>

site == <<name, available, attached>>
fixed == <<enabled, edits>>

Idle == [at |-> "idle"]

Init ==
    /\ enabled \in Selections
    /\ name = NameOf
    /\ available = TransitionIds
    /\ attached = Attachments
    /\ task = [c \in Tasks |-> Idle]
    /\ faults = 0
    /\ edits = 0

-----------------------------------------------------------------------------
(* A call *)

At(c, label) == task[c].at = label

(* A tool that was not selected is not registered. *)
Offers(c, tool) == At(c, "idle") /\ tool \in enabled

(* A call with its arguments.  No call has to do with the deployment of    *)
(* another, so each says what its own site is.                             *)
Begin(c, deployment, tool, at, asks) ==
    /\ task' = [task EXCEPT ![c] =
           [at |-> at, tool |-> tool, asks |-> asks, found |-> None,
            deployment |-> deployment]]
    /\ UNCHANGED <<site, fixed, faults>>

Goes(c, at, found) ==
    task' = [task EXCEPT ![c] =
        [at |-> at, tool |-> task[c].tool, asks |-> task[c].asks,
         found |-> found, deployment |-> task[c].deployment]]

(* What the call tells its client, and what Jira has done for it. *)
Tell(c, outcome, did) ==
    task' = [task EXCEPT ![c] =
        [at |-> "told", tool |-> task[c].tool, asks |-> task[c].asks,
         found |-> task[c].found, deployment |-> task[c].deployment,
         outcome |-> outcome, did |-> did]]

Refuse(c) == Tell(c, "error", None) /\ UNCHANGED faults

(* Jira has done the last request; its answer may be lost. *)
Done(c, did) ==
    \/ Tell(c, "success", did) /\ UNCHANGED faults
    \/ /\ faults < MaxFaults
       /\ faults' = faults + 1
       /\ Tell(c, "lost", did)

(* A request Jira refuses, or one that fails, ends the call. *)
Fail(c) ==
    /\ ~ At(c, "idle")
    /\ ~ At(c, "told")
    /\ Refuse(c)
    /\ UNCHANGED <<site, fixed>>

Forget(c) ==
    /\ At(c, "told")
    /\ task' = [task EXCEPT ![c] = Idle]
    /\ UNCHANGED <<site, fixed, faults>>

(* Cloud takes texts as documents. *)
RichText(c, value) ==
    IF task[c].deployment = "cloud" /\ value = "text" THEN "document" ELSE value

-----------------------------------------------------------------------------
(* Checking fields against metadata *)

(* The shape of a JSON number is never that of an integer: it is decoded   *)
(* into a float64.                                                         *)
Fits(value, type) ==
    \/ value = "null"
    \/ type \in {"any", "other"}
    \/ <<value, type>> \in
           {<<"text", "string">>, <<"document", "string">>,
            <<"number", "number">>, <<"flag", "boolean">>,
            <<"list", "array">>, <<"object", "object">>,
            <<"document", "object">>}

Metadata ==
    UNION {[fs -> [type : SchemaTypes, required : BOOLEAN, set : BOOLEAN]]
              : fs \in SUBSET Fields}

Given == UNION {[fs -> Values] : fs \in SUBSET Fields}

AllFit(given, metadata) ==
    \A f \in DOMAIN given :
        f \in DOMAIN metadata /\ Fits(given[f], metadata[f].type)

validateCreateFields(given, metadata) ==
    /\ \A f \in DOMAIN metadata : metadata[f].required => f \in DOMAIN given
    /\ AllFit(given, metadata)

ValidateIssueFields(given, metadata) ==
    AllFit(given, metadata) /\ \A f \in DOMAIN given : metadata[f].set

-----------------------------------------------------------------------------
(* Creating an issue.  asks.type is an id or a name; asks.own is the type  *)
(* extra_fields names, if it does.                                         *)

CreateAsks ==
    [type : TypeIds \union Words, own : TypeIds \union {None}, given : Given]

Called(type, arg) == type = arg \/ name[type] = arg

createIssue(c, deployment, asks) ==
    Begin(c, deployment, "jira_create_issue",
          IF deployment = "cloud" THEN "types" ELSE "fields", asks)

resolveType(c) ==
    /\ At(c, "types")
    /\ \/ \E t \in TypeIds :
              /\ Called(t, task[c].asks.type)
              /\ Goes(c, "fields", t)
              /\ UNCHANGED faults
       \/ /\ \A t \in TypeIds : ~ Called(t, task[c].asks.type)
          /\ Refuse(c)
    /\ UNCHANGED <<site, fixed>>

(* The metadata of the type found, or on Server of the type of that name.  *)
checkCreate(c) ==
    /\ At(c, "fields")
    /\ \E valid \in {validateCreateFields(task[c].asks.given, metadata)
                         : metadata \in Metadata} :
           IF valid
           THEN Goes(c, "create", task[c].found) /\ UNCHANGED faults
           ELSE Refuse(c)
    /\ UNCHANGED <<site, fixed>>

(* Mutant: the id found is not passed on. *)
TypeByName(c) ==
    IF task[c].asks.own # None THEN {task[c].asks.own}
    ELSE {t \in TypeIds : name[t] = task[c].asks.type}

(* The type the payload names: extra_fields come last, and without an id   *)
(* found the argument is sent as a name.                                   *)
TypeSent(c) ==
    IF task[c].asks.own # None THEN {task[c].asks.own}
    ELSE IF task[c].found # None THEN {task[c].found}
    ELSE {t \in TypeIds : name[t] = task[c].asks.type}

postIssue(c) ==
    /\ At(c, "create")
    /\ \E t \in TypeSent(c) : Done(c, t)
    /\ UNCHANGED <<site, fixed>>

-----------------------------------------------------------------------------
(* Updating one.  `fields' and `custom_fields' come as one; the names in    *)
(* the second are checked before anything is asked.                        *)

updateIssue(c, deployment, fields, custom) ==
    /\ DOMAIN fields \union DOMAIN custom # {}
    /\ DOMAIN custom \subseteq CustomFields
    /\ Begin(c, deployment, "jira_update_issue", "editmeta",
             [f \in DOMAIN fields \union DOMAIN custom |->
                 IF f \in DOMAIN custom THEN custom[f] ELSE fields[f]])

checkUpdate(c) ==
    /\ At(c, "editmeta")
    /\ \E valid \in {ValidateIssueFields(task[c].asks, metadata)
                         : metadata \in Metadata} :
           IF valid
           THEN Goes(c, "put", None) /\ UNCHANGED faults
           ELSE Refuse(c)
    /\ UNCHANGED <<site, fixed>>

putIssue(c) ==
    /\ At(c, "put")
    /\ Done(c, [f \in DOMAIN task[c].asks |->
                   IF f = "description" THEN RichText(c, task[c].asks[f])
                   ELSE task[c].asks[f]])
    /\ UNCHANGED <<site, fixed>>

-----------------------------------------------------------------------------
(* Transitions, by id or by the name of one or of the status it leads to;  *)
(* a comment travels in the same request.                                  *)

transitionIssue(c, deployment, id, word) ==
    /\ <<id, word>> # <<None, None>>
    /\ Begin(c, deployment, "jira_transition_issue",
             IF id = None THEN "transitions" ELSE "transition",
             [id |-> id, word |-> word])

findTransitionByName(word) ==
    {t \in available : word \in {TransitionOf[t].name, TransitionOf[t].to}}

(* The first that matches, in the order Jira lists them. *)
listTransitions(c) ==
    LET found == findTransitionByName(task[c].asks.word)
    IN  /\ At(c, "transitions")
        /\ \/ /\ \E t \in found : Goes(c, "transition", t)
              /\ UNCHANGED faults
           \/ found = {} /\ Refuse(c)
        /\ UNCHANGED <<site, fixed>>

(* Jira refuses a transition the issue cannot take any more. *)
postTransition(c) ==
    LET t == IF task[c].asks.id # None THEN task[c].asks.id ELSE task[c].found
    IN  /\ At(c, "transition")
        /\ t \in available
        /\ Done(c, t)
        /\ available' \in SUBSET TransitionIds
        /\ UNCHANGED <<name, attached, fixed>>

-----------------------------------------------------------------------------
(* Attachments *)

getAttachment(c, deployment, id, file) ==
    /\ <<id, file>> # <<None, None>>
    /\ Begin(c, deployment, "jira_get_attachment", "attachments",
             [id |-> id, file |-> file])

(* The first with that id or, if it comes earlier, of that name; one that  *)
(* is too large is answered with its address alone.                        *)
listAttachments(c) ==
    LET found ==
            {a \in attached :
                a = task[c].asks.id \/ FileOf[a] = task[c].asks.file}
    IN  /\ At(c, "attachments")
        /\ \/ /\ \E a \in found : Goes(c, "download", a)
              /\ UNCHANGED faults
           \/ \E a \in found : Tell(c, "success", a) /\ UNCHANGED faults
           \/ found = {} /\ Refuse(c)
        /\ UNCHANGED <<site, fixed>>

download(c) ==
    /\ At(c, "download")
    /\ task[c].found \in attached
    /\ Done(c, task[c].found)
    /\ UNCHANGED <<site, fixed>>

-----------------------------------------------------------------------------
(* Tools of one request *)

Bodies == {"text", "blank", "document", "scrap"}

(* A scrap is a document of another shape. *)
commentBody(deployment, body) ==
    \/ body = "text"
    \/ body = "document" /\ deployment = "cloud"

comment(c, deployment, tool, body) ==
    /\ commentBody(deployment, body)
    /\ Begin(c, deployment, tool, "comment", body)

(* The key under which the deployment looks for the assignee. *)
AssigneeKey(c) ==
    IF task[c].deployment = "server" /\ task[c].asks # "unassign"
    THEN "name" ELSE "accountId"

assignIssue(c, deployment, assignee) ==
    Begin(c, deployment, "jira_assign_issue", "assign", assignee)

deleteIssue(c, deployment, confirm) ==
    /\ confirm
    /\ Begin(c, deployment, "jira_delete_issue", "delete", confirm)

(* Exactly one side is not blank; both are sent unless empty.              *)
updateIssueRank(c, deployment, before, after) ==
    /\ (before \in {"", "blank"}) # (after \in {"", "blank"})
    /\ Begin(c, deployment, "jira_update_issue_rank", "rank",
             [before |-> before, after |-> after])

(* Mutant: an answer that is no error counts as success. *)
rankAnswered(c, moved) == Done(c, IF moved THEN task[c].asks ELSE None)

(* HTTP 207 says that the issue was not moved. *)
rankAnswer(c, moved) ==
    \/ moved /\ Done(c, task[c].asks)
    \/ ~ moved /\ Refuse(c)

putRank(c) ==
    /\ At(c, "rank")
    /\ "blank" \notin {task[c].asks.before, task[c].asks.after}
    /\ \E moved \in BOOLEAN : rankAnswer(c, moved)
    /\ UNCHANGED <<site, fixed>>

request(c) ==
    /\ \/ At(c, "comment") /\ Done(c, RichText(c, task[c].asks))
       \/ At(c, "assign") /\ Done(c, AssigneeKey(c))
       \/ At(c, "delete") /\ Done(c, "deleted")
    /\ UNCHANGED <<site, fixed>>

-----------------------------------------------------------------------------
(* While a call is at work, another user renames a type, moves the issue,  *)
(* or changes its files.                                                   *)
Elsewhere(c) ==
    /\ task[c].at \notin {"idle", "told"}
    /\ edits < MaxEdits
    /\ edits' = edits + 1
    /\ \/ /\ name' \in {n \in [TypeIds -> Words] :
                            \A t, u \in TypeIds : n[t] = n[u] => t = u}
          /\ UNCHANGED <<available, attached>>
       \/ available' \in SUBSET TransitionIds /\ UNCHANGED <<name, attached>>
       \/ attached' \in SUBSET Attachments /\ UNCHANGED <<name, available>>
    /\ UNCHANGED <<enabled, task, faults>>

Starts(c, d) ==
    \/ /\ Offers(c, "jira_create_issue")
       /\ \E asks \in CreateAsks : createIssue(c, d, asks)
    \/ /\ Offers(c, "jira_update_issue")
       /\ \E fields, custom \in Given : updateIssue(c, d, fields, custom)
    \/ /\ Offers(c, "jira_transition_issue")
       /\ \E id \in TransitionIds \union {None}, word \in Words \union {None} :
              transitionIssue(c, d, id, word)
    \/ /\ Offers(c, "jira_get_attachment")
       /\ \E id \in Attachments \union {None}, file \in Words \union {None} :
              getAttachment(c, d, id, file)
    \/ \E tool \in {"jira_add_comment", "jira_update_comment"} :
           /\ Offers(c, tool)
           /\ \E body \in Bodies : comment(c, d, tool, body)
    \/ /\ Offers(c, "jira_assign_issue")
       /\ \E assignee \in {"unassign", "someone"} : assignIssue(c, d, assignee)
    \/ /\ Offers(c, "jira_delete_issue")
       /\ \E confirm \in BOOLEAN : deleteIssue(c, d, confirm)
    \/ /\ Offers(c, "jira_update_issue_rank")
       /\ \E before, after \in Sides : updateIssueRank(c, d, before, after)

Requests(c) ==
    \/ resolveType(c) \/ checkCreate(c) \/ postIssue(c)
    \/ checkUpdate(c) \/ putIssue(c)
    \/ listTransitions(c) \/ postTransition(c)
    \/ listAttachments(c) \/ download(c)
    \/ putRank(c) \/ request(c)
    \/ Fail(c) \/ Forget(c)

Next ==
    \E c \in Tasks :
        \/ \E deployment \in {"cloud", "server"} : Starts(c, deployment)
        \/ Requests(c)
        \/ Elsewhere(c)

Spec == Init /\ [][Next]_vars

-----------------------------------------------------------------------------
(* Properties *)

(* Type invariant. *)
TypeOK ==
    /\ name \in [TypeIds -> Words]
    /\ available \subseteq TransitionIds
    /\ attached \subseteq Attachments
    /\ \A c \in Tasks :
           At(c, "idle") \/ task[c].found \in
               TypeIds \union TransitionIds \union Attachments \union {None}

(* A call of these tools tells success when, and only when, Jira has done  *)
(* what it asks, unless the answer is lost: an error means that nothing    *)
(* was done, also when a rank is answered with 207 (UpdateIssueRank).      *)
ToldTruly ==
    \A c \in Tasks : At(c, "told") =>
        /\ task[c].outcome = "success" => task[c].did # None
        /\ task[c].outcome = "error" => task[c].did = None

(* What was done is what was asked and, where the call looked first, what  *)
(* it found: on Cloud an issue is created in the type whose fields were    *)
(* checked even if types are renamed meanwhile ("keeps validation and the  *)
(* create payload consistent"), unless extra_fields name another; the      *)
(* transition and the file answer to what the caller gave; nothing is      *)
(* deleted unconfirmed; Cloud gets the text of a comment, and of an        *)
(* update's description, as a document, Server as text.                    *)
DoneAsAsked ==
    \A c \in Tasks : At(c, "told") /\ task[c].did # None =>
        LET asks == task[c].asks
            did == task[c].did
            cloud == task[c].deployment = "cloud"
        IN  /\ task[c].tool = "jira_create_issue" /\ cloud
                   => did = IF asks.own # None THEN asks.own ELSE task[c].found
            /\ task[c].tool = "jira_transition_issue"
                   => IF asks.id # None THEN did = asks.id
                      ELSE asks.word \in
                               {TransitionOf[did].name, TransitionOf[did].to}
            /\ task[c].tool = "jira_get_attachment"
                   => did = asks.id \/ FileOf[did] = asks.file
            /\ task[c].tool = "jira_delete_issue" => asks
            /\ task[c].tool \in {"jira_add_comment", "jira_update_comment"}
                   => did # IF cloud THEN "text" ELSE "document"
            /\ /\ task[c].tool = "jira_update_issue"
                  /\ cloud
                  /\ "description" \in DOMAIN did
               => did["description"] # "text"
=============================================================================
