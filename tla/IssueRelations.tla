--------------------------- MODULE IssueRelations ---------------------------
(***************************************************************************)
(* The tools that change how issues hang together: the parent or Epic of   *)
(* an issue and the links between issues (src/internal/jira/client.go and  *)
(* the handlers in src/internal/tools/tools.go).                           *)
(*                                                                         *)
(* The state is Jira's.  A tool call is a sequence of requests; between    *)
(* two of them other tool calls and other users of the site change what    *)
(* the call has read.  A request fails, or its answer is lost (the client  *)
(* waits 30 seconds) after Jira did what it asks; either way the call      *)
(* returns an error, and the user may repeat it.                           *)
(***************************************************************************)
EXTENDS Integers, FiniteSets

CONSTANTS
    Issues,
    Epics,      \* the issues whose type is Epic at first
    LinkTypes,
    LinkIds,    \* ids Jira gives to links, each once
    Namings,    \* the sets of fields callers of an update name
    Selections, \* tool selections of setup or of the sign-in form
    Calls,      \* tool calls in flight
    None,
    MaxFaults,  \* bound: failed requests and lost answers
    MaxEdits    \* bound: changes made elsewhere

LinkFields == {"type", "inward", "outward"}

(* replaces and named belong to the properties: the link a link was made   *)
(* to replace, and the fields the caller of the update named.              *)
Link == [type : LinkTypes, inward : Issues, outward : Issues,
         replaces : LinkIds \union {None}, named : SUBSET LinkFields]

ASSUME RelationsAssumption ==
    /\ Epics \subseteq Issues
    /\ None \notin Issues \union LinkTypes \union LinkIds
                     \union {"parent", "epic"}
    /\ None \notin Link

VARIABLES
    enabled,  \* the tools the server offers
    epics,    \* the issues whose type is Epic
    parent,   \* the issue above an issue
    through,  \* the field that holds it: "parent" or "epic"
    links,    \* ids of the links that exist
    link,     \* the link each id was given to
    call,     \* the tool call in each slot
    disturbed, \* calls whose look at an issue was outdated since
    faults,
    edits

vars == <<enabled, epics, parent, through, links, link, call, disturbed,
          faults, edits>>

hierarchy == <<parent, through, disturbed>>
linking == <<links, link>>
other == <<enabled, epics, edits>>

Idle == [at |-> "idle"]

(* What the edit metadata says of the two hierarchy fields, each time it   *)
(* is read: not there, shown, or open to "set".                            *)
EditMetadata == [parent : {"absent", "shown", "set"},
                 epic : {"absent", "shown", "set"}]

UnlinkSteps == {"hierarchy.meta", "hierarchy.get", "unlink.meta", "clear"}

At(c, label) == call[c].at = label

(* A tool that was not selected is not registered. *)
Begins(c, tool) == At(c, "idle") /\ tool \in enabled

Continue(c, locals) == call' = [call EXCEPT ![c] = locals]

Return(c) == Continue(c, Idle)

(* The request of this step is answered, and the call goes on; or Jira has *)
(* done it and the answer is lost, and the call returns an error.          *)
Answered(c, locals) ==
    \/ Continue(c, locals) /\ UNCHANGED faults
    \/ Return(c) /\ faults < MaxFaults /\ faults' = faults + 1

Init ==
    /\ enabled \in Selections
    /\ epics = Epics
    /\ parent = [i \in Issues |-> None]
    /\ through = [i \in Issues |-> None]
    /\ links = {}
    /\ link = [id \in LinkIds |-> None]
    /\ call = [c \in Calls |-> Idle]
    /\ disturbed = {}
    /\ faults = 0
    /\ edits = 0

-----------------------------------------------------------------------------
(* Jira.  An issue has one issue above it, through one of the two fields.  *)

Unlinking(i) ==
    {c \in Calls : call[c].at \in UnlinkSteps /\ call[c].issue = i}

(* Calls that looked at the type of p and went on. *)
EpicCalls(p) ==
    {c \in Calls : call[c].at \in {"epic.meta", "put"} /\ call[c].to = p}

SetRelation(i, field, p) ==
    /\ parent' = [parent EXCEPT ![i] = p]
    /\ through' = [through EXCEPT ![i] = field]
    /\ disturbed' = disturbed \union Unlinking(i)

(* Clearing a field that does not hold the relation changes nothing. *)
ClearField(i, field) ==
    IF through[i] = field
    THEN SetRelation(i, None, None)
    ELSE UNCHANGED hierarchy

AddLink(args) ==
    \E id \in LinkIds :
        /\ link[id] = None
        /\ link' = [link EXCEPT ![id] =
               [type |-> args.type, inward |-> args.inward,
                outward |-> args.outward, replaces |-> args.id,
                named |-> args.named]]
        /\ links' = links \union {id}

-----------------------------------------------------------------------------
(* Parent and Epic *)

setIssueEpic(c, i, epic) ==
    /\ Begins(c, "jira_set_issue_epic")
    /\ Continue(c, [at |-> "epic.type", issue |-> i, to |-> epic])
    /\ disturbed' = disturbed \ {c}
    /\ UNCHANGED <<linking, other, parent, through, faults>>

linkIssueParent(c, i, p) ==
    /\ Begins(c, "jira_link_issue_parent")
    /\ Continue(c, [at |-> "parent.meta", issue |-> i, to |-> p])
    /\ disturbed' = disturbed \ {c}
    /\ UNCHANGED <<linking, other, parent, through, faults>>

unlinkIssueParent(c, i) ==
    /\ Begins(c, "jira_unlink_issue_parent")
    /\ Continue(c, [at |-> "hierarchy.meta", issue |-> i])
    /\ disturbed' = disturbed \ {c}
    /\ UNCHANGED <<linking, other, parent, through, faults>>

Put(c, field) ==
    Answered(c, [at |-> "put", issue |-> call[c].issue, to |-> call[c].to,
                 field |-> field])

(* The parent field if it is open, else the path of SetIssueEpic, which    *)
(* checks the type of the issue above first.                               *)
setIssueParent(c) ==
    /\ At(c, "parent.meta")
    /\ \E fields \in EditMetadata :
           IF fields.parent = "set"
           THEN Put(c, "parent")
           ELSE Answered(c, [call[c] EXCEPT !.at = "epic.type"])
    /\ UNCHANGED <<hierarchy, linking, other>>

(* Mutant: the type of the issue is not looked at. *)
epicTypeAny(c) ==
    /\ At(c, "epic.type")
    /\ Answered(c, [call[c] EXCEPT !.at = "epic.meta"])
    /\ UNCHANGED <<hierarchy, linking, other>>

epicType(c) ==
    /\ At(c, "epic.type")
    /\ \/ /\ call[c].to \in epics
          /\ Answered(c, [call[c] EXCEPT !.at = "epic.meta"])
       \/ /\ call[c].to \notin epics
          /\ Return(c) /\ UNCHANGED faults
    /\ UNCHANGED <<hierarchy, linking, other>>

epicMeta(c) ==
    /\ At(c, "epic.meta")
    /\ \E fields \in EditMetadata :
           \/ fields.parent = "set" /\ Put(c, "parent")
           \/ /\ fields.parent # "set" /\ fields.epic = "set"
              /\ Put(c, "epic")
           \/ /\ "set" \notin {fields.parent, fields.epic}
              /\ Return(c) /\ UNCHANGED faults
    /\ UNCHANGED <<hierarchy, linking, other>>

updateIssue(c) ==
    /\ At(c, "put")
    /\ SetRelation(call[c].issue, call[c].field, call[c].to)
    /\ Answered(c, Idle)
    /\ UNCHANGED <<linking, other>>

hierarchyMeta(c) ==
    /\ At(c, "hierarchy.meta")
    /\ \E fields \in EditMetadata :
           Answered(c, [at |-> "hierarchy.get", issue |-> call[c].issue,
                        asks |-> {"parent"} \union
                            IF fields.epic = "absent" THEN {} ELSE {"epic"}])
    /\ UNCHANGED <<hierarchy, linking, other>>

(* Mutant: the parent field is cleared whatever holds the relation. *)
HeldByParent(c) == IF parent[call[c].issue] = None THEN None ELSE "parent"

(* The field that holds the relation, among those asked for. *)
HeldBy(c) ==
    IF through[call[c].issue] \in call[c].asks
    THEN through[call[c].issue]
    ELSE None

getIssueHierarchy(c) ==
    /\ At(c, "hierarchy.get")
    /\ \/ /\ HeldBy(c) = None
          /\ Return(c) /\ UNCHANGED faults
       \/ /\ HeldBy(c) # None
          /\ Answered(c, [at |-> "unlink.meta", issue |-> call[c].issue,
                          field |-> HeldBy(c)])
    /\ UNCHANGED <<hierarchy, linking, other>>

unlinkMeta(c) ==
    /\ At(c, "unlink.meta")
    /\ \E fields \in EditMetadata :
           IF fields[call[c].field] = "set"
           THEN Answered(c, [call[c] EXCEPT !.at = "clear"])
           ELSE Return(c) /\ UNCHANGED faults
    /\ UNCHANGED <<hierarchy, linking, other>>

unlinkClear(c) ==
    /\ At(c, "clear")
    /\ ClearField(call[c].issue, call[c].field)
    /\ Answered(c, Idle)
    /\ UNCHANGED <<linking, other>>

-----------------------------------------------------------------------------
(* Links.  A type the caller names is first looked up among the site's;    *)
(* the types here are what the names and aliases resolve to.               *)

createIssueLink(c, type, inward, outward) ==
    /\ Begins(c, "jira_create_issue_link")
    /\ Continue(c, [at |-> "link.type", id |-> None, type |-> type,
                    inward |-> inward, outward |-> outward,
                    named |-> LinkFields])
    /\ UNCHANGED <<hierarchy, linking, other, faults>>

Named(args) == {f \in LinkFields : args[f] # None}

(* What a caller of an update may say: None is a field it leaves out.      *)
LinkArgs ==
    {args \in [type : LinkTypes \union {None},
               inward : Issues \union {None},
               outward : Issues \union {None}] : Named(args) \in Namings}

updateIssueLink(c, id, args) ==
    /\ Begins(c, "jira_update_issue_link")
    /\ link[id] # None
    /\ Continue(c, [at |-> IF args.type = None THEN "link.get"
                           ELSE "link.type",
                    id |-> id, type |-> args.type, inward |-> args.inward,
                    outward |-> args.outward, named |-> Named(args)])
    /\ UNCHANGED <<hierarchy, linking, other, faults>>

deleteIssueLink(c, id) ==
    /\ Begins(c, "jira_delete_issue_link")
    /\ links' = links \ {id}
    /\ UNCHANGED <<hierarchy, other, link, call, faults>>

(* ResolveIssueLinkType; a type the site does not have ends the call.      *)
resolveLinkType(c) ==
    /\ At(c, "link.type")
    /\ \/ Return(c) /\ UNCHANGED faults
       \/ Answered(c, [call[c] EXCEPT
              !.at = IF call[c].id = None THEN "link.create" ELSE "link.get"])
    /\ UNCHANGED <<hierarchy, linking, other>>

(* Mutant: what the caller left out stays empty. *)
GivenAlone(value, current) == value

Given(value, current) == IF value = None THEN current ELSE value

(* Mutant: the ends the caller left out are taken the other way round. *)
CompletedCrossed(locals, current) ==
    [locals EXCEPT !.type = Given(locals.type, current.type),
                   !.inward = Given(locals.inward, current.outward),
                   !.outward = Given(locals.outward, current.inward)]

(* What the caller left out is taken from the link as it is. *)
Completed(locals, current) ==
    [locals EXCEPT !.type = Given(locals.type, current.type),
                   !.inward = Given(locals.inward, current.inward),
                   !.outward = Given(locals.outward, current.outward)]

getIssueLink(c) ==
    LET id == call[c].id
    IN  /\ At(c, "link.get")
        /\ \/ /\ id \in links
              /\ Answered(c, [Completed(call[c], link[id]) EXCEPT
                                 !.at = "link.delete"])
           \/ id \notin links /\ Return(c) /\ UNCHANGED faults
        /\ UNCHANGED <<hierarchy, linking, other>>

(* Mutant: a link that is already gone counts as deleted. *)
replaceDeleteLenient(c) ==
    /\ At(c, "link.delete")
    /\ links' = links \ {call[c].id}
    /\ Answered(c, [call[c] EXCEPT !.at = "link.create"])
    /\ UNCHANGED <<hierarchy, other, link>>

(* Jira answers 404 for a link that is gone, and the call ends. *)
replaceDelete(c) ==
    LET id == call[c].id
    IN  /\ At(c, "link.delete")
        /\ \/ /\ id \in links
              /\ links' = links \ {id}
              /\ Answered(c, [call[c] EXCEPT !.at = "link.create"])
           \/ /\ id \notin links
              /\ Return(c)
              /\ UNCHANGED <<links, faults>>
        /\ UNCHANGED <<hierarchy, other, link>>

(* Jira links no issue with itself. *)
linkCreate(c) ==
    /\ At(c, "link.create")
    /\ \/ /\ call[c].inward # call[c].outward
          /\ AddLink(call[c])
          /\ Answered(c, Idle)
       \/ /\ call[c].inward = call[c].outward
          /\ Return(c)
          /\ UNCHANGED <<linking, faults>>
    /\ UNCHANGED <<hierarchy, other>>

-----------------------------------------------------------------------------
(* A request is refused or never arrives. *)
Fail(c) ==
    /\ ~ At(c, "idle")
    /\ faults < MaxFaults
    /\ faults' = faults + 1
    /\ Return(c)
    /\ UNCHANGED <<hierarchy, linking, other>>

(* Another user of the site gives the issue of a call another place, makes *)
(* the issue it is to go under an Epic or no Epic, or deletes its link.    *)
Move(i) ==
    /\ \/ \E p \in Issues \ {i}, field \in {"parent", "epic"} :
              /\ field = "epic" => p \in epics
              /\ SetRelation(i, field, p)
       \/ SetRelation(i, None, None)
    /\ UNCHANGED <<epics, links>>

Retype(p) ==
    /\ \/ /\ p \in epics
          /\ epics' = epics \ {p}
          /\ disturbed' = disturbed \union EpicCalls(p)
       \/ /\ p \notin epics
          /\ epics' = epics \union {p}
          /\ UNCHANGED disturbed
    /\ UNCHANGED <<parent, through, links>>

Remove(id) ==
    /\ id \in links
    /\ links' = links \ {id}
    /\ UNCHANGED <<hierarchy, epics>>

Elsewhere(c) ==
    /\ edits < MaxEdits
    /\ edits' = edits + 1
    /\ \/ "issue" \in DOMAIN call[c] /\ Move(call[c].issue)
       \/ "to" \in DOMAIN call[c] /\ Retype(call[c].to)
       \/ "id" \in DOMAIN call[c] /\ Remove(call[c].id)
    /\ UNCHANGED <<enabled, link, call, faults>>

Hierarchy(c) ==
    \/ \E i \in Issues : \E p \in Issues \ {i} :
           setIssueEpic(c, i, p) \/ linkIssueParent(c, i, p)
    \/ \E i \in Issues : unlinkIssueParent(c, i)
    \/ setIssueParent(c) \/ epicType(c) \/ epicMeta(c) \/ updateIssue(c)
    \/ hierarchyMeta(c) \/ getIssueHierarchy(c) \/ unlinkMeta(c)
    \/ unlinkClear(c)

Links(c) ==
    \/ \E type \in LinkTypes, i \in Issues : \E j \in Issues \ {i} :
           createIssueLink(c, type, i, j)
    \/ \E id \in LinkIds, args \in LinkArgs : updateIssueLink(c, id, args)
    \/ \E id \in links : deleteIssueLink(c, id)
    \/ resolveLinkType(c) \/ getIssueLink(c) \/ replaceDelete(c)
    \/ linkCreate(c)

Next ==
    \E c \in Calls :
        Hierarchy(c) \/ Links(c) \/ Fail(c) \/ Elsewhere(c)

Spec == Init /\ [][Next]_vars

-----------------------------------------------------------------------------
(* Properties *)

Call ==
    {Idle}
    \union [at : {"epic.type", "epic.meta", "parent.meta"}, issue : Issues,
            to : Issues]
    \union [at : {"put"}, issue : Issues, to : Issues,
            field : {"parent", "epic"}]
    \union [at : {"hierarchy.meta"}, issue : Issues]
    \union [at : {"hierarchy.get"}, issue : Issues,
            asks : SUBSET {"parent", "epic"}]
    \union [at : {"unlink.meta", "clear"}, issue : Issues,
            field : {"parent", "epic"}]
    \union [at : {"link.type", "link.get", "link.delete", "link.create"},
            id : LinkIds \union {None}, type : LinkTypes \union {None},
            inward : Issues \union {None}, outward : Issues \union {None},
            named : SUBSET LinkFields]

(* Type invariant; a link request is only sent complete. *)
TypeOK ==
    /\ enabled \in Selections
    /\ epics \subseteq Issues
    /\ parent \in [Issues -> Issues \union {None}]
    /\ through \in [Issues -> {"parent", "epic", None}]
    /\ links \subseteq LinkIds
    /\ link \in [LinkIds -> Link \union {None}]
    /\ call \in [Calls -> Call]
    /\ disturbed \subseteq Calls
    /\ {faults, edits} \subseteq Nat
    /\ \A c \in Calls : At(c, "link.create") =>
           None \notin {call[c].type, call[c].inward, call[c].outward}

(* The Epic Link field is "a fallback only for an Epic parent": neither    *)
(* way to it writes an issue there that is no Epic, unless its type was    *)
(* changed after the call looked at it.                                    *)
EpicLinkToEpics ==
    [][\A c \in Calls :
           (updateIssue(c) /\ call[c].field = "epic" /\ c \notin disturbed)
               => parent'[call[c].issue] \in epics]_vars

(* An unlink that reports success has cleared the relation the issue had,  *)
(* unless someone changed it since the call began ("unlinking examines     *)
(* the current relationship before clearing it").                          *)
UnlinkClears ==
    [][\A c \in Calls :
           (unlinkClear(c) /\ c \notin disturbed)
               => parent'[call[c].issue] = None]_vars

(* Updates of one link, at once or repeated after a lost answer, replace   *)
(* it at most once, and never leave the link beside its replacement: the   *)
(* delete comes first and Jira accepts it once.                            *)
LinkReplacedOnce ==
    \A x \in LinkIds : link[x] # None /\ link[x].replaces # None =>
        /\ link[x].replaces \notin links
        /\ \A y \in LinkIds :
               link[y] # None /\ link[y].replaces = link[x].replaces => x = y

(* An update changes only what its caller named: what was left out is as   *)
(* in the link replaced, each end on its own side.                         *)
ReplacementKeeps ==
    \A x \in LinkIds : link[x] # None /\ link[x].replaces # None =>
        \A f \in LinkFields \ link[x].named :
            link[x][f] = link[link[x].replaces][f]

(* What UpdateIssueLink does of a link, in one or several calls.           *)
Replacements == LinkReplacedOnce /\ ReplacementKeeps
=============================================================================
