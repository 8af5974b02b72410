-------------------------- MODULE IssueToolsProofs --------------------------
(***************************************************************************)
(* What the tools that change issues guarantee for any site, any number of *)
(* calls and any failures and edits of other users.                        *)
(***************************************************************************)
EXTENDS IssueTools, TLAPS

-----------------------------------------------------------------------------
(* The calls of IssueWrites.  A call is named by the tool it began with    *)
(* and by the label it is at; what it has found by then matches what its   *)
(* caller asked, whatever the site looks like now.                         *)

Found ==
    Writes!TypeIds \union Writes!TransitionIds \union Writes!Attachments
    \union {None}

Working(t) ==
    t = [at |-> t.at, tool |-> t.tool, asks |-> t.asks, found |-> t.found,
         deployment |-> t.deployment]

Creating(t) ==
    /\ t.at \in {"types", "fields", "create"}
    /\ t.tool = "jira_create_issue"
    /\ t.asks \in Writes!CreateAsks
    /\ t.found \in Writes!TypeIds \union {None}
    /\ t.deployment = "cloud" /\ t.at # "types" => t.found # None

Updating(t) ==
    /\ t.at \in {"editmeta", "put"}
    /\ t.tool = "jira_update_issue"
    /\ t.asks \in Writes!Given

Transitioning(t) ==
    /\ t.at \in {"transitions", "transition"}
    /\ t.tool = "jira_transition_issue"
    /\ t.asks.id \in Writes!TransitionIds \union {None}
    /\ t.at = "transitions" => t.asks.id = None
    /\ t.at = "transition" /\ t.asks.id = None =>
           /\ t.found \in Writes!TransitionIds
           /\ t.asks.word \in
                  {TransitionOf[t.found].name, TransitionOf[t.found].to}

Downloading(t) ==
    /\ t.at \in {"attachments", "download"}
    /\ t.tool = "jira_get_attachment"
    /\ t.at = "download" =>
           /\ t.found \in Writes!Attachments
           /\ t.found = t.asks.id \/ FileOf[t.found] = t.asks.file

Requesting(t) ==
    \/ /\ t.at = "comment"
       /\ t.tool \in {"jira_add_comment", "jira_update_comment"}
       /\ Writes!commentBody(t.deployment, t.asks)
    \/ t.at = "assign" /\ t.tool = "jira_assign_issue"
    \/ t.at = "delete" /\ t.tool = "jira_delete_issue" /\ t.asks = TRUE
    \/ /\ t.at = "rank" /\ t.tool = "jira_update_issue_rank"
       /\ t.asks \in [before : Writes!Sides, after : Writes!Sides]

(* What was done is what was asked, of one call. *)
DidAsAsked(tool, asks, found, cloud, did) ==
    /\ tool = "jira_create_issue" /\ cloud
           => did = IF asks.own # None THEN asks.own ELSE found
    /\ tool = "jira_transition_issue"
           => IF asks.id # None THEN did = asks.id
              ELSE asks.word \in {TransitionOf[did].name, TransitionOf[did].to}
    /\ tool = "jira_get_attachment"
           => did = asks.id \/ FileOf[did] = asks.file
    /\ tool = "jira_delete_issue" => asks
    /\ tool \in {"jira_add_comment", "jira_update_comment"}
           => did # IF cloud THEN "text" ELSE "document"
    /\ tool = "jira_update_issue" /\ cloud /\ "description" \in DOMAIN did
           => did["description"] # "text"

Told(t) ==
    /\ t.at = "told"
    /\ t.outcome = "success" => t.did # None
    /\ t.outcome = "error" => t.did = None
    /\ t.did # None =>
           DidAsAsked(t.tool, t.asks, t.found, t.deployment = "cloud", t.did)

TaskOK(t) ==
    \/ t = Writes!Idle
    \/ /\ t.found \in Found
       /\ \/ /\ Working(t)
             /\ \/ Creating(t) \/ Updating(t) \/ Transitioning(t)
                \/ Downloading(t) \/ Requesting(t)
          \/ Told(t)

SiteOK ==
    /\ name \in [Writes!TypeIds -> Words]
    /\ available \subseteq Writes!TransitionIds
    /\ attached \subseteq Writes!Attachments

TasksOK ==
    /\ task = [c \in Tasks |-> task[c]]
    /\ \A c \in Tasks : TaskOK(task[c])

WritesInv == SiteOK /\ TasksOK /\ {faults, edits} \subseteq Nat

LEMMA InitWrites == Writes!Init => WritesInv
  <1> SUFFICES ASSUME Writes!Init PROVE WritesInv
    OBVIOUS
  <1>1. SiteOK
    BY ToolsAssumption DEF Writes!Init, SiteOK, Writes!ConstantsOK
  <1>2. TasksOK
    BY DEF Writes!Init, TasksOK, TaskOK
  <1>3. {faults, edits} \subseteq Nat
    BY DEF Writes!Init
  <1> QED BY <1>1, <1>2, <1>3 DEF WritesInv

(* One call changes to a call that is in order. *)
LEMMA SetTask ==
    ASSUME TasksOK, NEW c \in Tasks, NEW t, TaskOK(t),
           task' = [task EXCEPT ![c] = t]
    PROVE  TasksOK'
  <1>1. task'[c] = t /\ \A d \in Tasks \ {c} : task'[d] = task[d]
    BY DEF TasksOK
  <1>2. task' = [d \in Tasks |-> task'[d]]
    BY DEF TasksOK
  <1>3. \A d \in Tasks : TaskOK(task'[d])
    BY <1>1 DEF TasksOK
  <1> QED BY <1>2, <1>3 DEF TasksOK

(* A call at a label is the call its tool makes. *)
LEMMA AtWork ==
    ASSUME TasksOK, NEW c \in Tasks
    PROVE  /\ task[c].at \in {"types", "fields", "create"} => Creating(task[c])
           /\ task[c].at \in {"editmeta", "put"} => Updating(task[c])
           /\ task[c].at \in {"transitions", "transition"} =>
                  Transitioning(task[c])
           /\ task[c].at \in {"attachments", "download"} =>
                  Downloading(task[c])
           /\ task[c].at \in {"comment", "assign", "delete", "rank"} =>
                  Requesting(task[c])
           /\ task[c].at \notin {"idle", "told"} => Working(task[c])
           /\ task[c].at # "idle" => task[c].found \in Found
  <1> DEFINE t == task[c]
  <1>1. TaskOK(t)
    BY DEF TasksOK
  <1>2. CASE t = Writes!Idle
    BY <1>2 DEF Writes!Idle
  <1>3. CASE t.found \in Found /\ Told(t)
    BY <1>3 DEF Told
  <1>4. CASE /\ t.found \in Found /\ Working(t)
             /\ \/ Creating(t) \/ Updating(t) \/ Transitioning(t)
                \/ Downloading(t) \/ Requesting(t)
    <2>1. CASE Creating(t)
      BY <1>4, <2>1 DEF Creating
    <2>2. CASE Updating(t)
      BY <1>4, <2>2 DEF Updating
    <2>3. CASE Transitioning(t)
      BY <1>4, <2>3 DEF Transitioning
    <2>4. CASE Downloading(t)
      BY <1>4, <2>4 DEF Downloading
    <2>5. CASE Requesting(t)
      BY <1>4, <2>5 DEF Requesting
    <2> QED BY <1>4, <2>1, <2>2, <2>3, <2>4, <2>5
  <1> QED BY <1>1, <1>2, <1>3, <1>4 DEF TaskOK

(* A call that tells its client an error, or what it asked for, is in      *)
(* order.                                                                  *)
LEMMA TellsTruly ==
    ASSUME TasksOK, NEW c \in Tasks, task[c].at # "idle",
           NEW outcome, NEW did, Writes!Tell(c, outcome, did),
           outcome = "success" => did # None,
           outcome = "error" => did = None,
           did # None =>
               DidAsAsked(task[c].tool, task[c].asks, task[c].found,
                          task[c].deployment = "cloud", did)
    PROVE  TasksOK'
  <1> DEFINE t == [at |-> "told", tool |-> task[c].tool,
                   asks |-> task[c].asks, found |-> task[c].found,
                   deployment |-> task[c].deployment,
                   outcome |-> outcome, did |-> did]
  <1>1. task' = [task EXCEPT ![c] = t]
    BY DEF Writes!Tell
  <1>2. t.found \in Found
    BY AtWork
  <1>3. Told(t)
    BY DEF Told
  <1>4. TaskOK(t)
    BY <1>2, <1>3 DEF TaskOK
  <1> HIDE DEF t
  <1> QED BY <1>1, <1>4, SetTask

LEMMA RefusesTruly ==
    ASSUME TasksOK, NEW c \in Tasks, task[c].at # "idle", Writes!Refuse(c)
    PROVE  TasksOK'
  BY TellsTruly DEF Writes!Refuse

LEMMA DoneTruly ==
    ASSUME TasksOK, NEW c \in Tasks, task[c].at # "idle", NEW did,
           Writes!Done(c, did), did # None,
           DidAsAsked(task[c].tool, task[c].asks, task[c].found,
                      task[c].deployment = "cloud", did)
    PROVE  TasksOK'
  BY TellsTruly DEF Writes!Done

(* A call that begins is at the first step of its tool. *)
LEMMA BeginsRight ==
    ASSUME WritesInv, NEW c \in Tasks, NEW d \in {"cloud", "server"},
           Writes!Starts(c, d)
    PROVE  WritesInv'
  <1> USE DEF Writes!Begin
  <1>1. ASSUME NEW tool, NEW at, NEW asks, Writes!Begin(c, d, tool, at, asks),
               LET t == [at |-> at, tool |-> tool, asks |-> asks,
                         found |-> None, deployment |-> d]
               IN  Creating(t) \/ Updating(t) \/ Transitioning(t)
                   \/ Downloading(t) \/ Requesting(t)
        PROVE  WritesInv'
    <2> DEFINE t == [at |-> at, tool |-> tool, asks |-> asks,
                     found |-> None, deployment |-> d]
    <2>1. Working(t) /\ t.found \in Found
      BY DEF Working, Found
    <2>2. TaskOK(t)
      BY <1>1, <2>1 DEF TaskOK
    <2>3. task' = [task EXCEPT ![c] = t]
      BY <1>1
    <2> HIDE DEF t
    <2>4. TasksOK'
      BY <2>2, <2>3, SetTask DEF WritesInv
    <2> QED
      BY <1>1, <2>4 DEF WritesInv, SiteOK, Writes!site, Writes!fixed
  <1>2. ASSUME NEW asks \in Writes!CreateAsks, Writes!createIssue(c, d, asks)
        PROVE  WritesInv'
    BY <1>1, <1>2 DEF Writes!createIssue, Creating
  <1>3. ASSUME NEW fields \in Writes!Given, NEW custom \in Writes!Given,
               Writes!updateIssue(c, d, fields, custom)
        PROVE  WritesInv'
    <2> DEFINE asks == [f \in DOMAIN fields \union DOMAIN custom |->
                           IF f \in DOMAIN custom THEN custom[f]
                           ELSE fields[f]]
    <2>1. asks \in Writes!Given
      <3>1. PICK fs \in SUBSET Fields : fields \in [fs -> Values]
        BY DEF Writes!Given
      <3>2. PICK cs \in SUBSET Fields : custom \in [cs -> Values]
        BY DEF Writes!Given
      <3>3. asks \in [fs \union cs -> Values]
        BY <3>1, <3>2
      <3> QED BY <3>3 DEF Writes!Given
    <2>2. Writes!Begin(c, d, "jira_update_issue", "editmeta", asks)
      BY <1>3 DEF Writes!updateIssue
    <2> HIDE DEF asks
    <2> QED BY <1>1, <2>1, <2>2 DEF Updating
  <1>4. ASSUME NEW id \in Writes!TransitionIds \union {None},
               NEW word, Writes!transitionIssue(c, d, id, word)
        PROVE  WritesInv'
    <2> DEFINE at == IF id = None THEN "transitions" ELSE "transition"
               asks == [id |-> id, word |-> word]
               t == [at |-> at, tool |-> "jira_transition_issue",
                     asks |-> asks, found |-> None, deployment |-> d]
    <2>1. Writes!Begin(c, d, "jira_transition_issue", at, asks)
      BY <1>4 DEF Writes!transitionIssue
    <2>2. Transitioning(t)
      BY DEF Transitioning
    <2> HIDE DEF at, asks
    <2> QED BY <1>1, <2>1, <2>2
  <1>5. ASSUME NEW id, NEW file, Writes!getAttachment(c, d, id, file)
        PROVE  WritesInv'
    BY <1>1, <1>5 DEF Writes!getAttachment, Downloading
  <1>6. ASSUME NEW tool \in {"jira_add_comment", "jira_update_comment"},
               NEW body, Writes!comment(c, d, tool, body)
        PROVE  WritesInv'
    BY <1>1, <1>6 DEF Writes!comment, Requesting
  <1>7. ASSUME NEW assignee, Writes!assignIssue(c, d, assignee)
        PROVE  WritesInv'
    BY <1>1, <1>7 DEF Writes!assignIssue, Requesting
  <1>8. ASSUME NEW confirm \in BOOLEAN, Writes!deleteIssue(c, d, confirm)
        PROVE  WritesInv'
    BY <1>1, <1>8 DEF Writes!deleteIssue, Requesting
  <1>9. ASSUME NEW before \in Writes!Sides, NEW after \in Writes!Sides,
               Writes!updateIssueRank(c, d, before, after)
        PROVE  WritesInv'
    BY <1>1, <1>9 DEF Writes!updateIssueRank, Requesting
  <1> QED
    BY <1>2, <1>3, <1>4, <1>5, <1>6, <1>7, <1>8, <1>9 DEF Writes!Starts

(* A call that goes on is in order at the next step of its tool. *)
LEMMA GoesRight ==
    ASSUME TasksOK, NEW c \in Tasks, NEW at, NEW found,
           Writes!Goes(c, at, found), found \in Found,
           LET t == [at |-> at, tool |-> task[c].tool, asks |-> task[c].asks,
                     found |-> found, deployment |-> task[c].deployment]
           IN  Creating(t) \/ Updating(t) \/ Transitioning(t)
               \/ Downloading(t)
    PROVE  TasksOK'
  <1> DEFINE t == [at |-> at, tool |-> task[c].tool, asks |-> task[c].asks,
                   found |-> found, deployment |-> task[c].deployment]
  <1>1. Working(t) /\ t.found \in Found
    BY DEF Working
  <1>2. TaskOK(t)
    BY <1>1 DEF TaskOK
  <1>3. task' = [task EXCEPT ![c] = t]
    BY DEF Writes!Goes
  <1> HIDE DEF t
  <1> QED BY <1>2, <1>3, SetTask

LEMMA CreatesRight ==
    ASSUME WritesInv, NEW c \in Tasks,
           \/ Writes!resolveType(c) \/ Writes!checkCreate(c)
           \/ Writes!postIssue(c)
    PROVE  TasksOK'
  <1> USE DEF WritesInv, Writes!At
  <1>1. CASE Writes!resolveType(c)
    <2>1. Creating(task[c]) /\ task[c].at = "types"
      BY <1>1, AtWork DEF Writes!resolveType
    <2>2. CASE Writes!Refuse(c)
      BY <2>1, <2>2, RefusesTruly
    <2>3. ASSUME NEW t \in Writes!TypeIds, Writes!Goes(c, "fields", t)
          PROVE  TasksOK'
      <3>1. t # None /\ t \in Found
        BY ToolsAssumption DEF Writes!ConstantsOK, Found
      <3> QED BY <2>1, <2>3, <3>1, GoesRight DEF Creating
    <2> QED BY <1>1, <2>2, <2>3 DEF Writes!resolveType
  <1>2. CASE Writes!checkCreate(c)
    <2>1. /\ Creating(task[c]) /\ task[c].at = "fields"
          /\ task[c].found \in Found
      BY <1>2, AtWork DEF Writes!checkCreate
    <2>2. CASE Writes!Refuse(c)
      BY <2>1, <2>2, RefusesTruly
    <2>3. CASE Writes!Goes(c, "create", task[c].found)
      BY <2>1, <2>3, GoesRight DEF Creating
    <2> QED BY <1>2, <2>2, <2>3 DEF Writes!checkCreate
  <1>3. CASE Writes!postIssue(c)
    <2>1. /\ Creating(task[c]) /\ task[c].at = "create"
      BY <1>3, AtWork DEF Writes!postIssue
    <2>2. PICK t \in Writes!TypeSent(c) : Writes!Done(c, t)
      BY <1>3 DEF Writes!postIssue
    <2>3. t \in Writes!TypeIds /\ t # None
      BY <2>1, <2>2, ToolsAssumption
         DEF Creating, Writes!TypeSent, Writes!CreateAsks, Writes!ConstantsOK
    <2>4. task[c].deployment = "cloud" =>
              t = IF task[c].asks.own # None THEN task[c].asks.own
                  ELSE task[c].found
      BY <2>1, <2>2 DEF Creating, Writes!TypeSent
    <2>5. DidAsAsked(task[c].tool, task[c].asks, task[c].found,
                     task[c].deployment = "cloud", t)
      BY <2>1, <2>4 DEF DidAsAsked, Creating
    <2> QED BY <2>1, <2>2, <2>3, <2>5, DoneTruly
  <1> QED BY <1>1, <1>2, <1>3

LEMMA UpdatesRight ==
    ASSUME WritesInv, NEW c \in Tasks,
           Writes!checkUpdate(c) \/ Writes!putIssue(c)
    PROVE  TasksOK'
  <1> USE DEF WritesInv, Writes!At
  <1>1. CASE Writes!checkUpdate(c)
    <2>1. Updating(task[c]) /\ task[c].at = "editmeta"
      BY <1>1, AtWork DEF Writes!checkUpdate
    <2>2. CASE Writes!Refuse(c)
      BY <2>1, <2>2, RefusesTruly
    <2>3. CASE Writes!Goes(c, "put", None)
      BY <2>1, <2>3, GoesRight DEF Updating, Found
    <2> QED BY <1>1, <2>2, <2>3 DEF Writes!checkUpdate
  <1>2. CASE Writes!putIssue(c)
    <2> DEFINE given == task[c].asks
               did == [f \in DOMAIN given |->
                          IF f = "description"
                          THEN Writes!RichText(c, given[f]) ELSE given[f]]
    <2>1. Updating(task[c]) /\ task[c].at = "put" /\ Writes!Done(c, did)
      BY <1>2, AtWork DEF Writes!putIssue
    <2>2. PICK fs \in SUBSET Fields : given \in [fs -> Values]
      BY <2>1 DEF Updating, Writes!Given
    <2>3. did \in [fs -> Values \union {"document"}]
      BY <2>2 DEF Writes!RichText
    <2>4. did # None
      BY <2>3, ToolsAssumption DEF Writes!ConstantsOK
    <2>5. task[c].deployment = "cloud" /\ "description" \in DOMAIN did
              => did["description"] # "text"
      BY DEF Writes!RichText
    <2> HIDE DEF did
    <2>6. DidAsAsked(task[c].tool, task[c].asks, task[c].found,
                     task[c].deployment = "cloud", did)
      BY <2>1, <2>5 DEF DidAsAsked, Updating
    <2> QED BY <2>1, <2>4, <2>6, DoneTruly
  <1> QED BY <1>1, <1>2

LEMMA TransitionsRight ==
    ASSUME WritesInv, NEW c \in Tasks,
           Writes!listTransitions(c) \/ Writes!postTransition(c)
    PROVE  TasksOK'
  <1> USE DEF WritesInv, Writes!At
  <1>1. CASE Writes!listTransitions(c)
    <2>1. Transitioning(task[c]) /\ task[c].at = "transitions"
      BY <1>1, AtWork DEF Writes!listTransitions
    <2>2. CASE Writes!Refuse(c)
      BY <2>1, <2>2, RefusesTruly
    <2>3. ASSUME NEW t \in Writes!findTransitionByName(task[c].asks.word),
                 Writes!Goes(c, "transition", t)
          PROVE  TasksOK'
      <3>1. /\ t \in Writes!TransitionIds
            /\ task[c].asks.word \in {TransitionOf[t].name, TransitionOf[t].to}
        BY <2>3 DEF Writes!findTransitionByName, SiteOK
      <3> QED BY <2>1, <2>3, <3>1, GoesRight DEF Transitioning, Found
    <2> QED BY <1>1, <2>2, <2>3 DEF Writes!listTransitions
  <1>2. CASE Writes!postTransition(c)
    <2> DEFINE t == IF task[c].asks.id # None THEN task[c].asks.id
                    ELSE task[c].found
    <2>1. /\ Transitioning(task[c]) /\ task[c].at = "transition"
          /\ t \in available /\ Writes!Done(c, t)
      BY <1>2, AtWork DEF Writes!postTransition
    <2>2. t # None
      BY <2>1, ToolsAssumption DEF Writes!ConstantsOK, SiteOK
    <2>3. DidAsAsked(task[c].tool, task[c].asks, task[c].found,
                     task[c].deployment = "cloud", t)
      BY <2>1 DEF DidAsAsked, Transitioning
    <2> QED BY <2>1, <2>2, <2>3, DoneTruly
  <1> QED BY <1>1, <1>2

LEMMA DownloadsRight ==
    ASSUME WritesInv, NEW c \in Tasks,
           Writes!listAttachments(c) \/ Writes!download(c)
    PROVE  TasksOK'
  <1> USE DEF WritesInv, Writes!At
  <1>1. CASE Writes!listAttachments(c)
    <2>1. Downloading(task[c]) /\ task[c].at = "attachments"
      BY <1>1, AtWork DEF Writes!listAttachments
    <2>2. CASE Writes!Refuse(c)
      BY <2>1, <2>2, RefusesTruly
    <2>3. ASSUME NEW a \in attached,
                 a = task[c].asks.id \/ FileOf[a] = task[c].asks.file,
                 \/ Writes!Goes(c, "download", a)
                 \/ Writes!Tell(c, "success", a)
          PROVE  TasksOK'
      <3>1. a \in Writes!Attachments /\ a # None /\ a \in Found
        BY ToolsAssumption DEF Writes!ConstantsOK, SiteOK, Found
      <3>2. CASE Writes!Goes(c, "download", a)
        BY <2>1, <2>3, <3>1, <3>2, GoesRight DEF Downloading
      <3>3. CASE Writes!Tell(c, "success", a)
        <4>1. DidAsAsked(task[c].tool, task[c].asks, task[c].found,
                         task[c].deployment = "cloud", a)
          BY <2>1, <2>3 DEF DidAsAsked, Downloading
        <4> QED BY <2>1, <3>1, <3>3, <4>1, TellsTruly
      <3> QED BY <2>3, <3>2, <3>3
    <2> QED BY <1>1, <2>2, <2>3 DEF Writes!listAttachments
  <1>2. CASE Writes!download(c)
    <2>1. /\ Downloading(task[c]) /\ task[c].at = "download"
          /\ Writes!Done(c, task[c].found)
      BY <1>2, AtWork DEF Writes!download
    <2>2. task[c].found # None
      BY <2>1, ToolsAssumption DEF Writes!ConstantsOK, Downloading
    <2>3. DidAsAsked(task[c].tool, task[c].asks, task[c].found,
                     task[c].deployment = "cloud", task[c].found)
      BY <2>1 DEF DidAsAsked, Downloading
    <2> QED BY <2>1, <2>2, <2>3, DoneTruly
  <1> QED BY <1>1, <1>2

LEMMA RequestsRight ==
    ASSUME WritesInv, NEW c \in Tasks,
           Writes!putRank(c) \/ Writes!request(c)
    PROVE  TasksOK'
  <1> USE DEF WritesInv, Writes!At
  <1> DEFINE t == task[c]
             As(did) == DidAsAsked(t.tool, t.asks, t.found,
                                   t.deployment = "cloud", did)
  <1>1. CASE Writes!putRank(c)
    <2>1. /\ Requesting(t) /\ t.at = "rank"
          /\ Writes!Refuse(c) \/ Writes!Done(c, t.asks)
      BY <1>1, AtWork DEF Writes!putRank, Writes!rankAnswer
    <2>2. t.asks # None
      BY <2>1, ToolsAssumption DEF Requesting, Writes!ConstantsOK
    <2>3. As(t.asks)
      BY <2>1 DEF Requesting, DidAsAsked
    <2> QED BY <2>1, <2>2, <2>3, RefusesTruly, DoneTruly
  <1>2. CASE t.at = "comment" /\ Writes!Done(c, Writes!RichText(c, t.asks))
    <2> DEFINE did == Writes!RichText(c, t.asks)
    <2>1. Requesting(t)
      BY <1>2, AtWork
    <2>2. /\ t.asks \in {"text", "document"}
          /\ t.deployment # "cloud" => t.asks = "text"
      BY <1>2, <2>1 DEF Requesting, Writes!commentBody
    <2>3. did # None /\ did # IF t.deployment = "cloud" THEN "text"
                              ELSE "document"
      BY <2>2, ToolsAssumption DEF Writes!ConstantsOK, Writes!RichText
    <2> HIDE DEF did
    <2>4. As(did)
      BY <1>2, <2>1, <2>3 DEF Requesting, DidAsAsked
    <2> QED BY <1>2, <2>3, <2>4, DoneTruly DEF did
  <1>3. CASE t.at = "assign" /\ Writes!Done(c, Writes!AssigneeKey(c))
    <2> DEFINE did == Writes!AssigneeKey(c)
    <2>1. Requesting(t)
      BY <1>3, AtWork
    <2>2. did # None
      BY ToolsAssumption DEF Writes!ConstantsOK, Writes!AssigneeKey
    <2> HIDE DEF did
    <2>3. As(did)
      BY <1>3, <2>1 DEF Requesting, DidAsAsked
    <2> QED BY <1>3, <2>2, <2>3, DoneTruly DEF did
  <1>4. CASE t.at = "delete" /\ Writes!Done(c, "deleted")
    <2>1. Requesting(t)
      BY <1>4, AtWork
    <2>2. As("deleted")
      BY <1>4, <2>1 DEF Requesting, DidAsAsked
    <2> QED
      BY <1>4, <2>2, ToolsAssumption, DoneTruly DEF Writes!ConstantsOK
  <1> QED BY <1>1, <1>2, <1>3, <1>4 DEF Writes!request

LEMMA SiteKept == SiteOK /\ UNCHANGED Writes!site => SiteOK'
  BY DEF SiteOK, Writes!site

(* Every request leaves the counters numbers; only a transition changes    *)
(* the site, and Jira answers with transitions it has.                     *)
LEMMA RequestFrame ==
    ASSUME WritesInv, NEW c \in Tasks, Writes!Requests(c)
    PROVE  SiteOK' /\ {faults, edits}' \subseteq Nat
  <1> USE DEF WritesInv
  <1>1. ASSUME NEW at, NEW found, Writes!Goes(c, at, found), UNCHANGED faults
        PROVE  faults' \in Nat
    BY <1>1
  <1>2. ASSUME Writes!Refuse(c) PROVE faults' \in Nat
    BY <1>2 DEF Writes!Refuse
  <1>3. ASSUME NEW did, Writes!Done(c, did) PROVE faults' \in Nat
    BY <1>3 DEF Writes!Done
  <1>4. faults' \in Nat
    <2>1. CASE Writes!resolveType(c) \/ Writes!checkCreate(c)
               \/ Writes!checkUpdate(c) \/ Writes!listTransitions(c)
               \/ Writes!listAttachments(c)
      BY <1>2, <2>1
         DEF Writes!resolveType, Writes!checkCreate, Writes!checkUpdate,
             Writes!listTransitions, Writes!listAttachments
    <2>2. CASE Writes!postIssue(c) \/ Writes!postTransition(c)
               \/ Writes!download(c) \/ Writes!putIssue(c)
      BY <1>3, <2>2
         DEF Writes!postIssue, Writes!putIssue, Writes!postTransition,
             Writes!download
    <2>3. CASE Writes!putRank(c) \/ Writes!request(c)
      BY <1>2, <1>3, <2>3
         DEF Writes!putRank, Writes!rankAnswer, Writes!request
    <2>4. CASE Writes!Fail(c) \/ Writes!Forget(c)
      BY <1>2, <2>4 DEF Writes!Fail, Writes!Forget
    <2> QED BY <2>1, <2>2, <2>3, <2>4 DEF Writes!Requests
  <1>5. SiteOK' /\ UNCHANGED edits
    <2>1. CASE Writes!postTransition(c)
      BY <2>1 DEF Writes!postTransition, SiteOK, Writes!fixed
    <2>2. CASE UNCHANGED <<Writes!site, Writes!fixed>>
      BY <2>2, SiteKept DEF Writes!fixed
    <2> QED
      BY <2>1, <2>2
         DEF Writes!Requests, Writes!resolveType, Writes!checkCreate,
             Writes!postIssue, Writes!checkUpdate, Writes!putIssue,
             Writes!listTransitions, Writes!listAttachments, Writes!download,
             Writes!putRank, Writes!request, Writes!Fail, Writes!Forget
  <1> QED BY <1>4, <1>5

LEMMA NextWrites == WritesInv /\ Writes!Next => WritesInv'
  <1> SUFFICES ASSUME WritesInv, NEW c \in Tasks,
                      \/ \E d \in {"cloud", "server"} : Writes!Starts(c, d)
                      \/ Writes!Requests(c)
                      \/ Writes!Elsewhere(c)
               PROVE  WritesInv'
    BY DEF Writes!Next
  <1>1. CASE \E d \in {"cloud", "server"} : Writes!Starts(c, d)
    BY <1>1, BeginsRight
  <1>2. CASE Writes!Requests(c)
    <2>1. Writes!Fail(c) => TasksOK'
      BY RefusesTruly DEF Writes!Fail, Writes!At, WritesInv
    <2>2. Writes!Forget(c) => TasksOK'
      <3>1. TaskOK(Writes!Idle)
        BY DEF TaskOK
      <3> QED BY <3>1, SetTask DEF Writes!Forget, WritesInv
    <2>3. TasksOK'
      BY <1>2, <2>1, <2>2, CreatesRight, UpdatesRight, TransitionsRight,
         DownloadsRight, RequestsRight
         DEF Writes!Requests, WritesInv
    <2> QED BY <1>2, <2>3, RequestFrame DEF WritesInv
  <1>3. CASE Writes!Elsewhere(c)
    <2>1. SiteOK'
      BY <1>3 DEF Writes!Elsewhere, SiteOK, WritesInv
    <2>2. TasksOK'
      BY <1>3 DEF Writes!Elsewhere, TasksOK, WritesInv
    <2>3. {faults, edits}' \subseteq Nat
      BY <1>3 DEF Writes!Elsewhere, WritesInv
    <2> QED BY <2>1, <2>2, <2>3 DEF WritesInv
  <1> QED BY <1>1, <1>2, <1>3

(* What a call in order tells, and what it has found.                      *)
LEMMA WritesProperties ==
    WritesInv => Writes!TypeOK /\ Writes!ToldTruly /\ Writes!DoneAsAsked
  <1> SUFFICES ASSUME WritesInv
               PROVE  Writes!TypeOK /\ Writes!ToldTruly /\ Writes!DoneAsAsked
    OBVIOUS
  <1> USE DEF WritesInv
  <1>1. Writes!TypeOK
    BY AtWork DEF Writes!TypeOK, Writes!At, SiteOK, Found
  <1>2. ASSUME NEW c \in Tasks, task[c].at = "told" PROVE Told(task[c])
    <2>1. TaskOK(task[c])
      BY DEF TasksOK
    <2> QED
      BY <1>2, <2>1
         DEF TaskOK, Writes!Idle, Creating, Updating, Transitioning,
             Downloading, Requesting
  <1>3. Writes!ToldTruly
    BY <1>2 DEF Writes!ToldTruly, Writes!At, Told
  <1>4. Writes!DoneAsAsked
    BY <1>2 DEF Writes!DoneAsAsked, Writes!At, Told, DidAsAsked
  <1> QED BY <1>1, <1>3, <1>4

-----------------------------------------------------------------------------
(* The calls of IssueRelations.                                            *)

LinkLabels == {"link.type", "link.get", "link.delete", "link.create"}

LinkCall ==
    [at : LinkLabels, id : LinkIds \union {None},
     type : LinkTypes \union {None}, inward : Issues \union {None},
     outward : Issues \union {None}, named : SUBSET LinkFields]

ToCall == [at : {"epic.type", "epic.meta", "parent.meta"}, issue : Issues,
           to : Issues]

PutCall == [at : {"put"}, issue : Issues, to : Issues,
            field : {"parent", "epic"}]

UnlinkCall == [at : {"unlink.meta", "clear"}, issue : Issues,
               field : {"parent", "epic"}]

LEMMA CallKinds ==
    Call = {Idle} \union ToCall \union PutCall
           \union [at : {"hierarchy.meta"}, issue : Issues]
           \union [at : {"hierarchy.get"}, issue : Issues,
                   asks : SUBSET {"parent", "epic"}]
           \union UnlinkCall \union LinkCall
  BY DEF Call, ToCall, PutCall, UnlinkCall, LinkCall, LinkLabels

(* A call at a label has the locals of that label. *)
LEMMA Locals ==
    ASSUME TypeOK, NEW c \in Calls
    PROVE  /\ call[c].at \in {"epic.type", "epic.meta", "parent.meta"}
                  => call[c] \in ToCall
           /\ call[c].at = "put" => call[c] \in PutCall
           /\ call[c].at \in {"hierarchy.meta", "hierarchy.get"}
                  => call[c].issue \in Issues
           /\ call[c].at = "hierarchy.get"
                  => call[c].asks \subseteq {"parent", "epic"}
           /\ call[c].at \in {"unlink.meta", "clear"} => call[c] \in UnlinkCall
           /\ call[c].at \in LinkLabels => call[c] \in LinkCall
           /\ call[c].at # "idle" \/ call[c] = Idle
  <1>1. call[c] \in Call
    BY DEF TypeOK
  <1> QED
    BY <1>1, CallKinds
       DEF ToCall, PutCall, UnlinkCall, LinkCall, LinkLabels, Idle

(* A call that looked at the type of the issue to put into the field for   *)
(* Epics, which makes it disturbed when the type changes.                  *)
Looked(t) == t.at = "epic.meta" \/ (t.at = "put" /\ t.field = "epic")

EpicInv ==
    \A c \in Calls :
        Looked(call[c]) /\ c \notin disturbed => call[c].to \in epics

(* The field an unlink is about to clear holds the relation, unless the    *)
(* unlink was disturbed.                                                   *)
UnlinkInv ==
    \A c \in Calls :
        call[c].at \in {"unlink.meta", "clear"} /\ c \notin disturbed =>
            through[call[c].issue] = call[c].field

(* Given ids and ids replaced. *)
Made(id) == link[id] # None

Replaces(x, id) == Made(x) /\ link[x].replaces = id

(* Links exist under ids that were given; a link replaced was one.         *)
MadeInv ==
    /\ \A id \in links : Made(id)
    /\ \A x, id \in LinkIds : Replaces(x, id) => Made(id)

(* An update is at work on a link that was made; it asks for what its      *)
(* caller left out, and has it from that link once it has read it.         *)
Complete(args) == None \notin {args.type, args.inward, args.outward}

UpdateOK(t) ==
    /\ t.id = None => /\ t.at \in {"link.type", "link.create"}
                      /\ Complete(t)
    /\ t.id # None => Made(t.id)
    /\ t.at \in {"link.type", "link.get"} =>
           \A f \in LinkFields \ t.named : t[f] = None
    /\ t.at \in {"link.delete", "link.create"} => Complete(t)
    /\ t.at \in {"link.delete", "link.create"} /\ t.id # None =>
           \A f \in LinkFields \ t.named : t[f] = link[t.id][f]

UpdateInv == \A c \in Calls : call[c].at \in LinkLabels => UpdateOK(call[c])

(* Between its delete and its create an update is the only one to replace  *)
(* the link: Jira let no other delete it, and it is not replaced yet.      *)
Replacing(c, id) ==
    call[c].at = "link.create" /\ call[c].id = id

ReplacingInv ==
    \A c \in Calls, id \in LinkIds : Replacing(c, id) =>
        /\ id \notin links
        /\ \A x \in LinkIds : ~ Replaces(x, id)
        /\ \A d \in Calls : Replacing(d, id) => d = c

LinkInv == MadeInv /\ UpdateInv /\ ReplacingInv /\ Replacements

RelationsInv == TypeOK /\ EpicInv /\ UnlinkInv /\ LinkInv

LEMMA InitRelations == Init => RelationsInv
  <1> SUFFICES ASSUME Init PROVE RelationsInv
    OBVIOUS
  <1> USE DEF Init
  <1>1. \A c \in Calls : call[c] = Idle
    OBVIOUS
  <1>2. \A id \in LinkIds : ~ Made(id)
    BY DEF Made
  <1>3. TypeOK
    BY <1>1, RelationsAssumption DEF TypeOK, At, Call, Idle
  <1>4. EpicInv
    BY <1>1 DEF EpicInv, Looked, Idle
  <1>5. UnlinkInv
    BY <1>1 DEF UnlinkInv, Idle
  <1>6. MadeInv /\ ReplacingInv
    BY <1>1, <1>2 DEF MadeInv, Replaces, ReplacingInv, Replacing, Idle
  <1>7. UpdateInv
    BY <1>1 DEF UpdateInv, Idle, LinkLabels
  <1>8. Replacements
    BY <1>2 DEF Replacements, LinkReplacedOnce, ReplacementKeeps, Made
  <1> QED BY <1>3, <1>4, <1>5, <1>6, <1>7, <1>8 DEF RelationsInv, LinkInv

-----------------------------------------------------------------------------
(* What one call does to the others. *)

(* The call in slot c becomes t, and the rest of the types stay.           *)
Becomes(c, t) ==
    /\ call'[c] = t
    /\ \A d \in Calls \ {c} : call'[d] = call[d]
    /\ call' \in [Calls -> Call]

LEMMA ContinueEffect ==
    ASSUME TypeOK, NEW c \in Calls, NEW t \in Call, Continue(c, t)
    PROVE  Becomes(c, t)
  BY DEF TypeOK, Continue, Becomes

LEMMA ReturnEffect ==
    ASSUME TypeOK, NEW c \in Calls, Return(c)
    PROVE  Becomes(c, Idle)
  <1>1. Idle \in Call
    BY DEF Call
  <1> QED BY <1>1, ContinueEffect DEF Return

LEMMA AnsweredEffect ==
    ASSUME TypeOK, NEW c \in Calls, NEW t \in Call, Answered(c, t)
    PROVE  /\ Becomes(c, t) \/ Becomes(c, Idle)
           /\ faults' \in Nat
  BY ContinueEffect, ReturnEffect DEF Answered, TypeOK

(* Steps that leave the links alone keep what is said of them, if the call *)
(* they take is not at a link afterwards.                                  *)
LEMMA LinksKept ==
    ASSUME LinkInv, UNCHANGED linking,
           \A d \in Calls : call'[d] = call[d] \/ call'[d].at \notin LinkLabels
    PROVE  LinkInv'
  <1> USE DEF linking
  <1>1. MadeInv' /\ Replacements'
    BY DEF LinkInv, MadeInv, Made, Replaces, Replacements, LinkReplacedOnce,
           ReplacementKeeps
  <1>2. UpdateInv'
    <2> SUFFICES ASSUME NEW c \in Calls, (call[c].at \in LinkLabels)'
                 PROVE  UpdateOK(call[c])'
      BY DEF UpdateInv
    <2>1. call'[c] = call[c] /\ UpdateOK(call[c])
      BY DEF LinkInv, UpdateInv
    <2> QED BY <2>1 DEF UpdateOK, Made, Complete
  <1>3. ReplacingInv'
    BY DEF LinkInv, ReplacingInv, Replacing, Replaces, Made, LinkLabels
  <1> QED BY <1>1, <1>2, <1>3 DEF LinkInv

(* The same of the steps that leave the hierarchy alone. *)
LEMMA HierarchyKept ==
    ASSUME EpicInv, UnlinkInv, UNCHANGED <<epics, hierarchy>>,
           \A d \in Calls :
               \/ call'[d] = call[d]
               \/ call'[d].at \notin
                      {"epic.meta", "put", "unlink.meta", "clear"}
    PROVE  EpicInv' /\ UnlinkInv'
  BY DEF EpicInv, Looked, UnlinkInv, hierarchy

(* Setting a relation disturbs the unlinks of that issue under way.        *)
LEMMA SetRelationEffect ==
    ASSUME TypeOK, EpicInv, UnlinkInv, NEW i \in Issues,
           NEW field \in {"parent", "epic", None},
           NEW p \in Issues \union {None}, SetRelation(i, field, p),
           UNCHANGED epics,
           \A d \in Calls : call'[d] = call[d] \/ call'[d] = Idle
    PROVE  /\ EpicInv' /\ UnlinkInv'
           /\ parent' \in [Issues -> Issues \union {None}]
           /\ through' \in [Issues -> {"parent", "epic", None}]
           /\ disturbed' \subseteq Calls
  <1>1. /\ parent' \in [Issues -> Issues \union {None}]
        /\ through' \in [Issues -> {"parent", "epic", None}]
        /\ disturbed' \subseteq Calls
    BY DEF TypeOK, SetRelation, Unlinking
  <1>3. EpicInv'
    BY DEF EpicInv, Looked, SetRelation, Idle
  <1>4. ASSUME NEW d \in Calls, call'[d].at \in {"unlink.meta", "clear"},
               d \notin disturbed'
        PROVE  through'[call'[d].issue] = call'[d].field
    <2>1. call'[d] = call[d] /\ call[d] \in UnlinkCall
      BY <1>4, Locals DEF Idle
    <2>2. d \notin Unlinking(i) /\ d \notin disturbed
      BY <1>4 DEF SetRelation
    <2>3. call[d].issue # i
      BY <1>4, <2>1, <2>2 DEF Unlinking, UnlinkSteps
    <2>4. call[d].issue \in Issues
      BY <2>1 DEF UnlinkCall
    <2> QED
      BY <1>4, <2>1, <2>2, <2>3, <2>4 DEF UnlinkInv, SetRelation, TypeOK
  <1>5. UnlinkInv'
    BY <1>4 DEF UnlinkInv
  <1> QED BY <1>1, <1>3, <1>5

LEMMA TypesKept ==
    ASSUME TypeOK, UpdateInv', call' \in [Calls -> Call],
           {faults, edits}' \subseteq Nat,
           UNCHANGED enabled, epics' \subseteq Issues,
           parent' \in [Issues -> Issues \union {None}],
           through' \in [Issues -> {"parent", "epic", None}],
           disturbed' \subseteq Calls, links' \subseteq LinkIds,
           link' \in [LinkIds -> Link \union {None}]
    PROVE  TypeOK'
  <1>1. ASSUME NEW c \in Calls, call'[c].at = "link.create"
        PROVE  None \notin {call'[c].type, call'[c].inward, call'[c].outward}
    <2>1. UpdateOK(call[c])'
      BY <1>1 DEF UpdateInv, LinkLabels
    <2> QED BY <1>1, <2>1 DEF UpdateOK, Complete
  <1> QED BY <1>1 DEF TypeOK, At

(* A step that only moves one call. *)
LEMMA CallMoves ==
    ASSUME RelationsInv, NEW c \in Calls, NEW t, Becomes(c, t),
           UNCHANGED <<hierarchy, linking, other>>, faults' \in Nat,
           Looked(t) /\ c \notin disturbed => t.to \in epics,
           t.at \in {"unlink.meta", "clear"} /\ c \notin disturbed =>
               through[t.issue] = t.field,
           t.at \in LinkLabels => UpdateOK(t),
           t.at = "link.create" => t.id = None
    PROVE  RelationsInv'
  <1> USE DEF RelationsInv, hierarchy, linking, other
  <1>1. EpicInv'
    BY DEF EpicInv, Becomes
  <1>2. UnlinkInv'
    BY DEF UnlinkInv, Becomes
  <1>3. MadeInv' /\ Replacements'
    BY DEF LinkInv, MadeInv, Made, Replaces, Replacements, LinkReplacedOnce,
           ReplacementKeeps
  <1>4. UpdateInv'
    <2> SUFFICES ASSUME NEW d \in Calls, (call[d].at \in LinkLabels)'
                 PROVE  UpdateOK(call[d])'
      BY DEF UpdateInv
    <2>1. UpdateOK(call'[d])
      BY DEF LinkInv, UpdateInv, Becomes
    <2> QED BY <2>1 DEF UpdateOK, Made, Complete
  <1>5. ReplacingInv'
    <2>1. \A d \in Calls, id \in LinkIds :
              Replacing(d, id)' => Replacing(d, id)
      BY RelationsAssumption DEF Becomes, Replacing
    <2> QED BY <2>1 DEF LinkInv, ReplacingInv, Replaces, Made
  <1>6. TypeOK'
    BY <1>4, TypesKept DEF TypeOK, Becomes
  <1> QED BY <1>1, <1>2, <1>3, <1>4, <1>5, <1>6 DEF LinkInv

(* A call that ends, in a step that does nothing else. *)
LEMMA CallEnds ==
    ASSUME RelationsInv, NEW c \in Calls, Becomes(c, Idle),
           UNCHANGED <<hierarchy, linking, other>>, faults' \in Nat
    PROVE  RelationsInv'
  BY CallMoves DEF Idle, LinkLabels, Looked

(* A call that begins at the hierarchy is not disturbed yet. *)
LEMMA CallBegins ==
    ASSUME RelationsInv, NEW c \in Calls, NEW t, Becomes(c, t),
           disturbed' = disturbed \ {c},
           UNCHANGED <<linking, other, parent, through, faults>>,
           t.at \notin LinkLabels \union
                          {"epic.meta", "put", "unlink.meta", "clear"}
    PROVE  RelationsInv'
  <1>0. TypeOK /\ EpicInv /\ UnlinkInv /\ LinkInv
    BY DEF RelationsInv
  <1> USE <1>0
  <1>1. LinkInv'
    BY LinksKept DEF Becomes
  <1>2. EpicInv'
    BY DEF Becomes, EpicInv, Looked, other
  <1>3. UnlinkInv'
    BY DEF Becomes, UnlinkInv
  <1>4. TypeOK'
    BY <1>1, TypesKept DEF Becomes, TypeOK, linking, other, LinkInv
  <1> QED BY <1>1, <1>2, <1>3, <1>4 DEF RelationsInv

(* The parent or Epic of an issue: every call on its way keeps what it     *)
(* knows, and only the put and the clear change Jira.                      *)
LEMMA HierarchyStep ==
    ASSUME RelationsInv, NEW c \in Calls, Hierarchy(c)
    PROVE  RelationsInv'
  <1>0. TypeOK /\ EpicInv /\ UnlinkInv /\ LinkInv
    BY DEF RelationsInv
  <1>00. faults \in Nat
    BY <1>0 DEF TypeOK
  <1> USE <1>0, <1>00 DEF LinkLabels, Looked
  <1>1. ASSUME NEW i \in Issues, NEW p \in Issues, setIssueEpic(c, i, p)
        PROVE  RelationsInv'
    <2> DEFINE t == [at |-> "epic.type", issue |-> i, to |-> p]
    <2>1. t \in Call
      BY CallKinds DEF ToCall
    <2>2. Becomes(c, t)
      BY <1>1, <2>1, ContinueEffect DEF setIssueEpic
    <2> QED BY <1>1, <2>2, CallBegins DEF setIssueEpic
  <1>2. ASSUME NEW i \in Issues, NEW p \in Issues, linkIssueParent(c, i, p)
        PROVE  RelationsInv'
    <2> DEFINE t == [at |-> "parent.meta", issue |-> i, to |-> p]
    <2>1. t \in Call
      BY CallKinds DEF ToCall
    <2>2. Becomes(c, t)
      BY <1>2, <2>1, ContinueEffect DEF linkIssueParent
    <2> QED BY <1>2, <2>2, CallBegins DEF linkIssueParent
  <1>3. ASSUME NEW i \in Issues, unlinkIssueParent(c, i)
        PROVE  RelationsInv'
    <2> DEFINE t == [at |-> "hierarchy.meta", issue |-> i]
    <2>1. t \in Call
      BY CallKinds
    <2>2. Becomes(c, t)
      BY <1>3, <2>1, ContinueEffect DEF unlinkIssueParent
    <2> QED BY <1>3, <2>2, CallBegins DEF unlinkIssueParent
  <1>4. ASSUME call[c] \in ToCall, NEW field \in {"parent", "epic"},
               Put(c, field), UNCHANGED <<hierarchy, linking, other>>,
               field = "epic" /\ c \notin disturbed => call[c].to \in epics
        PROVE  RelationsInv'
    <2> DEFINE t == [at |-> "put", issue |-> call[c].issue, to |-> call[c].to,
                     field |-> field]
    <2>1. t \in Call
      BY <1>4, CallKinds DEF ToCall, PutCall
    <2>2. (Becomes(c, t) \/ Becomes(c, Idle)) /\ faults' \in Nat
      BY <1>4, <2>1, AnsweredEffect DEF Put
    <2> QED BY <1>4, <2>2, CallMoves, CallEnds
  <1>5. ASSUME call[c] \in ToCall, NEW label \in {"epic.type", "epic.meta"},
               Answered(c, [call[c] EXCEPT !.at = label]),
               UNCHANGED <<hierarchy, linking, other>>,
               label = "epic.meta" => call[c].to \in epics
        PROVE  RelationsInv'
    <2> DEFINE t == [call[c] EXCEPT !.at = label]
    <2>1. t \in ToCall /\ t.at = label /\ t.to = call[c].to
      BY <1>5 DEF ToCall
    <2>2. t \in Call
      BY <2>1, CallKinds
    <2>3. (Becomes(c, t) \/ Becomes(c, Idle)) /\ faults' \in Nat
      BY <1>5, <2>2, AnsweredEffect
    <2> HIDE DEF t
    <2> QED BY <1>5, <2>1, <2>3, CallMoves, CallEnds
  <1>6. ASSUME Return(c), UNCHANGED <<hierarchy, linking, other, faults>>
        PROVE  RelationsInv'
    BY <1>6, ReturnEffect, CallEnds
  <1>7. CASE setIssueParent(c)
    <2>1. call[c] \in ToCall
      BY <1>7, Locals DEF setIssueParent, At
    <2> QED BY <1>7, <2>1, <1>4, <1>5 DEF setIssueParent
  <1>8. CASE epicType(c)
    <2>1. call[c] \in ToCall
      BY <1>8, Locals DEF epicType, At
    <2> QED BY <1>8, <2>1, <1>5, <1>6 DEF epicType
  <1>9. CASE epicMeta(c)
    <2>1. /\ call[c] \in ToCall
          /\ c \notin disturbed => call[c].to \in epics
      BY <1>9, Locals DEF epicMeta, At, EpicInv, Looked
    <2> QED BY <1>9, <2>1, <1>4, <1>6 DEF epicMeta
  <1>10. ASSUME NEW i \in Issues, NEW field \in {"parent", "epic", None},
                NEW p \in Issues \union {None}, SetRelation(i, field, p),
                Becomes(c, Idle),
                UNCHANGED <<linking, other>>, faults' \in Nat
         PROVE  RelationsInv'
    <2>1. \A d \in Calls : call'[d] = call[d] \/ call'[d] = Idle
      BY <1>10 DEF Becomes
    <2>2. LinkInv'
      BY <1>10, <2>1, LinksKept DEF Idle
    <2>3. /\ EpicInv' /\ UnlinkInv'
          /\ parent' \in [Issues -> Issues \union {None}]
          /\ through' \in [Issues -> {"parent", "epic", None}]
          /\ disturbed' \subseteq Calls
      BY <1>10, <2>1, SetRelationEffect DEF other
    <2>4. TypeOK'
      BY <1>10, <2>2, <2>3, TypesKept
         DEF TypeOK, Becomes, linking, other, LinkInv
    <2> QED BY <2>2, <2>3, <2>4 DEF RelationsInv
  <1>11. Answered(c, Idle) => Becomes(c, Idle) /\ faults' \in Nat
    <2>1. Idle \in Call
      BY CallKinds
    <2> QED BY <2>1, AnsweredEffect
  <1>12. CASE updateIssue(c)
    <2>1. call[c] \in PutCall
      BY <1>12, Locals DEF updateIssue, At
    <2>2. /\ call[c].issue \in Issues /\ call[c].to \in Issues
          /\ call[c].field \in {"parent", "epic"}
      BY <2>1 DEF PutCall
    <2> QED BY <1>12, <2>2, <1>10, <1>11 DEF updateIssue
  <1>13. CASE hierarchyMeta(c)
    <2>1. call[c].issue \in Issues
      BY <1>13, Locals DEF hierarchyMeta, At
    <2>2. PICK fields \in EditMetadata :
              Answered(c, [at |-> "hierarchy.get", issue |-> call[c].issue,
                           asks |-> {"parent"} \union
                               IF fields.epic = "absent" THEN {} ELSE {"epic"}])
      BY <1>13 DEF hierarchyMeta
    <2> DEFINE t == [at |-> "hierarchy.get", issue |-> call[c].issue,
                     asks |-> {"parent"} \union
                         IF fields.epic = "absent" THEN {} ELSE {"epic"}]
    <2>3. t \in Call
      BY <2>1, CallKinds
    <2>4. (Becomes(c, t) \/ Becomes(c, Idle)) /\ faults' \in Nat
      BY <2>2, <2>3, AnsweredEffect
    <2> QED BY <1>13, <2>4, CallMoves, CallEnds DEF hierarchyMeta
  <1>14. CASE getIssueHierarchy(c)
    <2>1. call[c].issue \in Issues /\ call[c].asks \subseteq {"parent", "epic"}
      BY <1>14, Locals DEF getIssueHierarchy, At
    <2> DEFINE t == [at |-> "unlink.meta", issue |-> call[c].issue,
                     field |-> HeldBy(c)]
    <2>2. CASE HeldBy(c) # None /\ Answered(c, t)
      <3>1. /\ HeldBy(c) = through[call[c].issue]
            /\ HeldBy(c) \in {"parent", "epic"}
        BY <2>1, <2>2 DEF HeldBy
      <3>2. t \in Call
        BY <2>1, <3>1, CallKinds DEF UnlinkCall
      <3>3. (Becomes(c, t) \/ Becomes(c, Idle)) /\ faults' \in Nat
        BY <2>2, <3>2, AnsweredEffect
      <3> QED
        BY <1>14, <3>1, <3>3, CallMoves, CallEnds DEF getIssueHierarchy
    <2> QED BY <1>14, <2>2, <1>6 DEF getIssueHierarchy
  <1>15. CASE unlinkMeta(c)
    <2> DEFINE t == [call[c] EXCEPT !.at = "clear"]
    <2>1. call[c] \in UnlinkCall /\ call[c].at = "unlink.meta"
      BY <1>15, Locals DEF unlinkMeta, At
    <2>2. CASE Answered(c, t)
      <3>1. /\ t \in UnlinkCall /\ t.at = "clear" /\ t.issue = call[c].issue
            /\ t.field = call[c].field
        BY <2>1 DEF UnlinkCall
      <3>2. t \in Call
        BY <3>1, CallKinds
      <3>3. (Becomes(c, t) \/ Becomes(c, Idle)) /\ faults' \in Nat
        BY <2>2, <3>2, AnsweredEffect
      <3>4. c \notin disturbed => through[call[c].issue] = call[c].field
        BY <2>1 DEF UnlinkInv
      <3> HIDE DEF t
      <3> QED BY <1>15, <3>1, <3>3, <3>4, CallMoves, CallEnds DEF unlinkMeta
    <2> QED BY <1>15, <2>2, <1>6 DEF unlinkMeta
  <1>16. CASE unlinkClear(c)
    <2>1. call[c].issue \in Issues
      BY <1>16, Locals DEF unlinkClear, At, UnlinkCall
    <2>2. Becomes(c, Idle) /\ faults' \in Nat
      BY <1>16, <1>11 DEF unlinkClear
    <2>3. CASE SetRelation(call[c].issue, None, None)
      BY <1>16, <2>1, <2>2, <2>3, <1>10, RelationsAssumption DEF unlinkClear
    <2>4. CASE UNCHANGED hierarchy
      BY <1>16, <2>2, <2>4, CallEnds DEF unlinkClear
    <2> QED BY <1>16, <2>3, <2>4 DEF unlinkClear, ClearField
  <1> QED
    BY <1>1, <1>2, <1>3, <1>7, <1>8, <1>9, <1>12, <1>13, <1>14, <1>15, <1>16
       DEF Hierarchy

-----------------------------------------------------------------------------
(* The links.  A delete makes fewer of them and changes none.              *)
LEMMA FewerLinks ==
    ASSUME LinkInv, links' \subseteq links, UNCHANGED <<link, call>>
    PROVE  LinkInv'
  <1>1. MadeInv' /\ Replacements'
    BY DEF LinkInv, MadeInv, Made, Replaces, Replacements, LinkReplacedOnce,
           ReplacementKeeps
  <1>2. UpdateInv'
    <2> SUFFICES ASSUME NEW c \in Calls, (call[c].at \in LinkLabels)'
                 PROVE  UpdateOK(call[c])'
      BY DEF UpdateInv
    <2>1. UpdateOK(call[c])
      BY DEF LinkInv, UpdateInv
    <2> QED BY <2>1 DEF UpdateOK, Made, Complete
  <1>3. ReplacingInv'
    BY DEF LinkInv, ReplacingInv, Replacing, Replaces, Made
  <1> QED BY <1>1, <1>2, <1>3 DEF LinkInv

(* An update that has deleted its link is the only one to replace it.      *)
LEMMA DeleteEffect ==
    ASSUME RelationsInv, NEW c \in Calls, call[c].at = "link.delete",
           call[c].id \in links, links' = links \ {call[c].id},
           UNCHANGED link, NEW t, Becomes(c, t),
           \/ t = Idle
           \/ /\ t.at = "link.create" /\ t.id = call[c].id
              /\ UpdateOK(t)
    PROVE  LinkInv'
  <1> USE DEF RelationsInv, LinkInv
  <1> DEFINE deleted == call[c].id
  <1>0. deleted \in LinkIds
    BY DEF TypeOK
  <1>1. MadeInv' /\ Replacements'
    BY DEF MadeInv, Made, Replaces, Replacements, LinkReplacedOnce,
           ReplacementKeeps
  <1>2. UpdateInv'
    <2> SUFFICES ASSUME NEW d \in Calls, (call[d].at \in LinkLabels)'
                 PROVE  UpdateOK(call[d])'
      BY DEF UpdateInv
    <2>1. UpdateOK(call'[d])
      BY DEF UpdateInv, Becomes, Idle, LinkLabels
    <2> QED BY <2>1 DEF UpdateOK, Made, Complete
  <1>3. \A d \in Calls, id \in LinkIds :
            Replacing(d, id)' => Replacing(d, id) \/ (d = c /\ id = deleted)
    BY DEF Becomes, Replacing, Idle
  <1>4. \A d \in Calls : ~ Replacing(d, deleted)
    BY <1>0 DEF ReplacingInv
  <1>5. \A x \in LinkIds : ~ Replaces(x, deleted)
    BY <1>0, RelationsAssumption
       DEF Replaces, Made, Replacements, LinkReplacedOnce
  <1>6. \A x, id \in LinkIds : Replaces(x, id)' = Replaces(x, id)
    BY DEF Replaces, Made
  <1>7. ReplacingInv'
    <2> SUFFICES ASSUME NEW d \in Calls, NEW id \in LinkIds,
                        Replacing(d, id)'
                 PROVE  /\ id \notin links'
                        /\ \A x \in LinkIds : ~ Replaces(x, id)'
                        /\ \A e \in Calls : Replacing(e, id)' => e = d
      BY DEF ReplacingInv
    <2>1. CASE id = deleted
      BY <2>1, <1>3, <1>4, <1>5, <1>6
    <2>2. CASE id # deleted
      BY <2>2, <1>3, <1>6 DEF ReplacingInv
    <2> QED BY <2>1, <2>2
  <1> QED BY <1>1, <1>2, <1>7

(* A new link replaces what its call is replacing, and nobody else is.     *)
LEMMA AddLinkEffect ==
    ASSUME RelationsInv, NEW c \in Calls, call[c].at = "link.create",
           AddLink(call[c]), Becomes(c, Idle)
    PROVE  LinkInv' /\ links' \subseteq LinkIds
           /\ link' \in [LinkIds -> Link \union {None}]
  <1> USE DEF RelationsInv, LinkInv
  <1> DEFINE args == call[c]
             made == [type |-> args.type, inward |-> args.inward,
                      outward |-> args.outward, replaces |-> args.id,
                      named |-> args.named]
  <1>1. PICK id \in LinkIds :
            /\ link[id] = None
            /\ link' = [link EXCEPT ![id] = made]
            /\ links' = links \union {id}
    BY DEF AddLink
  <1>2. args \in LinkCall /\ UpdateOK(args)
    BY Locals DEF LinkLabels, UpdateInv
  <1>3. made \in Link /\ made # None
    <2>1. made \in Link
      BY <1>2 DEF Link, LinkCall, UpdateOK, Complete
    <2> QED BY <2>1, RelationsAssumption
  <1>4. /\ made.type = args.type /\ made.inward = args.inward
        /\ made.outward = args.outward /\ made.replaces = args.id
        /\ made.named = args.named
    OBVIOUS
  <1>5. ~ Made(id)
    BY <1>1 DEF Made
  <1> HIDE DEF made
  <1>6. \A x \in LinkIds : link'[x] = IF x = id THEN made ELSE link[x]
    BY <1>1 DEF TypeOK
  <1>7. links' \subseteq LinkIds /\ link' \in [LinkIds -> Link \union {None}]
    BY <1>1, <1>3 DEF TypeOK
  <1>8. \A x \in LinkIds : Made(x)' <=> (Made(x) \/ x = id)
    BY <1>3, <1>6 DEF Made
  <1>9. \A x, r \in LinkIds :
            Replaces(x, r)' <=> Replaces(x, r) \/ (x = id /\ r = args.id)
    BY <1>3, <1>4, <1>5, <1>6 DEF Replaces, Made
  <1>10. args.id # None => /\ args.id \in LinkIds /\ Replacing(c, args.id)
                           /\ Made(args.id) /\ args.id # id
    BY <1>2, <1>5 DEF LinkCall, Replacing, UpdateOK
  <1>11. MadeInv'
    <2>1. \A x \in links' : Made(x)'
      BY <1>1, <1>8 DEF MadeInv, TypeOK
    <2>2. ASSUME NEW x \in LinkIds, NEW r \in LinkIds, Replaces(x, r)'
          PROVE  Made(r)'
      BY <2>2, <1>8, <1>9, <1>10, RelationsAssumption DEF MadeInv
    <2> QED BY <2>1, <2>2 DEF MadeInv
  <1>12. UpdateInv'
    <2> SUFFICES ASSUME NEW d \in Calls, (call[d].at \in LinkLabels)'
                 PROVE  UpdateOK(call[d])'
      BY DEF UpdateInv
    <2>1. d # c /\ call'[d] = call[d] /\ call[d].at \in LinkLabels
      BY DEF Becomes, Idle, LinkLabels
    <2>2. UpdateOK(call[d]) /\ call[d] \in LinkCall
      BY <2>1, Locals DEF UpdateInv
    <2>3. call[d].id # None =>
              /\ call[d].id \in LinkIds /\ Made(call[d].id)
              /\ link'[call[d].id] = link[call[d].id]
      BY <2>2, <1>5, <1>6 DEF UpdateOK, LinkCall
    <2> QED BY <2>1, <2>2, <2>3 DEF UpdateOK, Made, Complete
  <1>13. \A d \in Calls, r \in LinkIds :
             Replacing(d, r)' => d # c /\ Replacing(d, r)
    BY DEF Becomes, Replacing, Idle
  <1>14. ReplacingInv'
    <2> SUFFICES ASSUME NEW d \in Calls, NEW r \in LinkIds,
                        Replacing(d, r)'
                 PROVE  /\ r \notin links'
                        /\ \A x \in LinkIds : ~ Replaces(x, r)'
                        /\ \A e \in Calls : Replacing(e, r)' => e = d
      BY DEF ReplacingInv
    <2>1. d # c /\ Replacing(d, r)
      BY <1>13
    <2>2. Made(r)
      <3>1. UpdateOK(call[d]) /\ call[d].id = r /\ r # None
        BY <2>1, RelationsAssumption DEF UpdateInv, Replacing, LinkLabels
      <3> QED BY <3>1 DEF UpdateOK
    <2>3. r # args.id
      BY <2>1, <1>10, RelationsAssumption DEF ReplacingInv
    <2>4. r # id
      BY <2>2, <1>5
    <2> QED BY <2>1, <2>3, <2>4, <1>1, <1>9, <1>13 DEF ReplacingInv
  <1>15. LinkReplacedOnce'
    <2> SUFFICES ASSUME NEW x \in LinkIds, NEW r \in LinkIds,
                        Replaces(x, r)'
                 PROVE  /\ r \notin links'
                        /\ \A y \in LinkIds : Replaces(y, r)' => x = y
      BY <1>7, <1>8 DEF LinkReplacedOnce, Replaces, Made, Link
    <2>1. CASE x = id /\ r = args.id
      BY <2>1, <1>1, <1>5, <1>9, <1>10, RelationsAssumption
         DEF ReplacingInv, Replaces, Made
    <2>2. CASE Replaces(x, r)
      <3>1. r \notin links /\ \A y \in LinkIds : Replaces(y, r) => x = y
        BY <2>2, RelationsAssumption
           DEF Replaces, Made, Replacements, LinkReplacedOnce
      <3>2. r # id
        BY <2>2, <1>5 DEF MadeInv
      <3>3. r # args.id
        BY <2>2, <1>10, RelationsAssumption DEF ReplacingInv
      <3> QED BY <3>1, <3>2, <3>3, <1>1, <1>9
    <2> QED BY <2>1, <2>2, <1>9
  <1>16. ReplacementKeeps'
    <2> SUFFICES ASSUME NEW x \in LinkIds, NEW r \in LinkIds,
                        Replaces(x, r)',
                        NEW f \in LinkFields \ link'[x].named
                 PROVE  link'[x][f] = link'[r][f]
      BY <1>7 DEF ReplacementKeeps, Replaces, Made, Link
    <2>1. CASE x = id /\ r = args.id
      <3>1. args[f] = link[r][f] /\ f \in LinkFields \ args.named
        BY <2>1, <1>2, <1>4, <1>6, <1>10, RelationsAssumption DEF UpdateOK
      <3>2. made[f] = args[f]
        BY <1>2, <1>4 DEF LinkFields, LinkCall, made
      <3> QED BY <3>1, <3>2, <2>1, <1>6, <1>10, RelationsAssumption
    <2>2. CASE Replaces(x, r)
      <3>1. x # id /\ r # id
        BY <2>2, <1>5 DEF MadeInv, Replaces
      <3> QED
        BY <2>2, <3>1, <1>6, RelationsAssumption
           DEF Replaces, Made, Replacements, ReplacementKeeps
    <2> QED BY <2>1, <2>2, <1>9
  <1> QED
    BY <1>7, <1>11, <1>12, <1>14, <1>15, <1>16 DEF Replacements

LEMMA LinksStep ==
    ASSUME RelationsInv, NEW c \in Calls, Links(c)
    PROVE  RelationsInv'
  <1>0. TypeOK /\ EpicInv /\ UnlinkInv /\ LinkInv /\ faults \in Nat
    BY DEF RelationsInv, TypeOK
  <1> USE <1>0
  <1>1. ASSUME NEW t \in LinkCall, Continue(c, t) \/ Answered(c, t),
               UNCHANGED <<hierarchy, linking, other>>, faults' \in Nat,
               UpdateOK(t), t.at = "link.create" => t.id = None
        PROVE  RelationsInv'
    <2>1. t \in Call
      BY CallKinds
    <2>2. Becomes(c, t) \/ Becomes(c, Idle)
      BY <1>1, <2>1, ContinueEffect, AnsweredEffect
    <2> QED
      BY <1>1, <2>2, CallMoves, CallEnds DEF LinkCall, LinkLabels, Looked
  <1>2. ASSUME Return(c), UNCHANGED <<hierarchy, linking, other, faults>>
        PROVE  RelationsInv'
    BY <1>2, ReturnEffect, CallEnds
  <1>3. ASSUME LinkInv', UNCHANGED <<hierarchy, other>>, faults' \in Nat,
               links' \subseteq LinkIds,
                   link' \in [LinkIds -> Link \union {None}],
               UNCHANGED call \/ Becomes(c, call'[c]),
               call'[c] = call[c] \/ call'[c] = Idle
               \/ call'[c].at = "link.create"
        PROVE  RelationsInv'
    <2>1. \A d \in Calls :
              \/ call'[d] = call[d]
              \/ call'[d].at \notin {"epic.meta", "put", "unlink.meta", "clear"}
      BY <1>3 DEF Becomes, Idle
    <2>2. EpicInv' /\ UnlinkInv'
      BY <1>3, <2>1, HierarchyKept DEF other
    <2>3. TypeOK'
      BY <1>3, TypesKept DEF TypeOK, Becomes, hierarchy, other, LinkInv
    <2> QED BY <1>3, <2>2, <2>3 DEF RelationsInv
  <1>4. ASSUME NEW type \in LinkTypes, NEW i \in Issues, NEW j \in Issues,
               createIssueLink(c, type, i, j)
        PROVE  RelationsInv'
    <2> DEFINE t == [at |-> "link.type", id |-> None, type |-> type,
                     inward |-> i, outward |-> j, named |-> LinkFields]
    <2>1. t \in LinkCall
      BY DEF LinkCall, LinkLabels
    <2>2. UpdateOK(t)
      BY RelationsAssumption DEF UpdateOK, Complete
    <2> QED BY <1>4, <2>1, <2>2, <1>1 DEF createIssueLink
  <1>5. ASSUME NEW id \in LinkIds, NEW args \in LinkArgs,
               updateIssueLink(c, id, args)
        PROVE  RelationsInv'
    <2> DEFINE at == IF args.type = None THEN "link.get" ELSE "link.type"
               t == [at |-> at, id |-> id, type |-> args.type,
                     inward |-> args.inward, outward |-> args.outward,
                     named |-> Named(args)]
    <2>1. t \in LinkCall
      BY DEF LinkCall, LinkLabels, LinkArgs, Named
    <2>2. \A f \in LinkFields \ t.named : t[f] = None
      BY DEF LinkArgs, Named, LinkFields
    <2>3. UpdateOK(t)
      BY <1>5, <2>2, RelationsAssumption DEF UpdateOK, Made, updateIssueLink
    <2>4. Continue(c, t) /\ UNCHANGED <<hierarchy, linking, other, faults>>
      BY <1>5 DEF updateIssueLink
    <2>5. t.at # "link.create"
      OBVIOUS
    <2> HIDE DEF t
    <2> QED BY <2>1, <2>3, <2>4, <2>5, <1>1
  <1>6. ASSUME NEW id \in links, deleteIssueLink(c, id)
        PROVE  RelationsInv'
    BY <1>6, <1>3, FewerLinks DEF deleteIssueLink, TypeOK
  <1>7. CASE resolveLinkType(c)
    <2>1. call[c] \in LinkCall /\ UpdateOK(call[c]) /\ call[c].at = "link.type"
      BY <1>7, Locals DEF resolveLinkType, At, LinkLabels, LinkInv, UpdateInv
    <2> DEFINE at == IF call[c].id = None THEN "link.create" ELSE "link.get"
               t == [call[c] EXCEPT !.at = at]
    <2>2. /\ t \in LinkCall /\ t.at = at /\ t.id = call[c].id
          /\ t.named = call[c].named
          /\ \A f \in LinkFields : t[f] = call[c][f]
      BY <2>1 DEF LinkCall, LinkLabels, LinkFields
    <2>3. /\ t.type = call[c].type /\ t.inward = call[c].inward
          /\ t.outward = call[c].outward
      BY <2>1 DEF LinkCall
    <2>4. UpdateOK(t)
      <3> HIDE DEF t
      <3> QED BY <2>1, <2>2, <2>3 DEF UpdateOK, Complete
    <2>5. CASE Answered(c, t)
      <3>1. faults' \in Nat
        BY <2>5 DEF Answered
      <3> HIDE DEF t
      <3> QED
        BY <1>7, <2>2, <2>4, <2>5, <3>1, <1>1 DEF resolveLinkType
    <2> QED BY <1>7, <2>5, <1>2 DEF resolveLinkType
  <1>8. CASE getIssueLink(c)
    <2> DEFINE id == call[c].id
               t == [Completed(call[c], link[id]) EXCEPT !.at = "link.delete"]
    <2>1. call[c] \in LinkCall /\ UpdateOK(call[c]) /\ call[c].at = "link.get"
      BY <1>8, Locals DEF getIssueLink, At, LinkLabels, LinkInv, UpdateInv
    <2>2. CASE id \in links /\ Answered(c, t)
      <3>1. id \in LinkIds /\ link[id] \in Link /\ id # None
        BY <2>2, RelationsAssumption DEF TypeOK, LinkInv, MadeInv, Made
      <3>2. /\ t \in LinkCall /\ t.at = "link.delete" /\ t.id = id
            /\ t.named = call[c].named
            /\ t.type = Given(call[c].type, link[id].type)
            /\ t.inward = Given(call[c].inward, link[id].inward)
            /\ t.outward = Given(call[c].outward, link[id].outward)
        BY <2>1, <3>1 DEF LinkCall, LinkLabels, Link, Completed, Given
      <3>3. Complete(t)
        BY <2>1, <3>1, <3>2, RelationsAssumption
           DEF Complete, Given, Link, LinkCall
      <3>4. \A f \in LinkFields \ t.named : t[f] = link[id][f]
        <4>1. \A f \in LinkFields \ call[c].named : call[c][f] = None
          BY <2>1 DEF UpdateOK
        <4>2. \A f \in LinkFields : t[f] = Given(call[c][f], link[id][f])
          BY <2>1, <3>1, <3>2 DEF LinkFields, LinkCall, Link
        <4> QED BY <4>1, <4>2, <3>2 DEF Given
      <3>5. UpdateOK(t)
        <4> HIDE DEF t
        <4> QED BY <2>1, <3>1, <3>2, <3>3, <3>4 DEF UpdateOK
      <3>6. faults' \in Nat
        BY <2>2 DEF Answered
      <3> HIDE DEF t
      <3> QED BY <1>8, <2>2, <3>2, <3>5, <3>6, <1>1 DEF getIssueLink
    <2> QED BY <1>8, <2>2, <1>2 DEF getIssueLink
  <1>9. CASE replaceDelete(c)
    <2> DEFINE id == call[c].id
               t == [call[c] EXCEPT !.at = "link.create"]
    <2>1. /\ call[c] \in LinkCall /\ UpdateOK(call[c])
          /\ call[c].at = "link.delete"
      BY <1>9, Locals DEF replaceDelete, At, LinkLabels, LinkInv, UpdateInv
    <2>2. CASE id \in links /\ links' = links \ {id} /\ Answered(c, t)
      <3>1. /\ t \in LinkCall /\ t.at = "link.create" /\ t.id = id
            /\ t.named = call[c].named /\ t.type = call[c].type
            /\ t.inward = call[c].inward /\ t.outward = call[c].outward
            /\ \A f \in LinkFields : t[f] = call[c][f]
        BY <2>1 DEF LinkCall, LinkLabels, LinkFields
      <3> HIDE DEF t
      <3>2. UpdateOK(t)
        BY <2>1, <3>1 DEF UpdateOK, Complete
      <3>3. t \in Call
        BY <3>1, CallKinds
      <3>4. (Becomes(c, t) \/ Becomes(c, Idle)) /\ faults' \in Nat
        BY <2>2, <3>3, AnsweredEffect
      <3>5. LinkInv'
        BY <1>9, <2>1, <2>2, <3>1, <3>2, <3>4, DeleteEffect DEF replaceDelete
      <3> QED
        BY <1>9, <2>2, <3>1, <3>4, <3>5, <1>3
           DEF replaceDelete, Becomes, TypeOK
    <2> QED
      BY <1>9, <2>2, <1>2 DEF replaceDelete, linking
  <1>10. CASE linkCreate(c)
    <2>1. CASE AddLink(call[c]) /\ Answered(c, Idle)
      <3>1. Becomes(c, Idle) /\ faults' \in Nat
        BY <2>1, AnsweredEffect, CallKinds
      <3>2. LinkInv' /\ links' \subseteq LinkIds
            /\ link' \in [LinkIds -> Link \union {None}]
        BY <1>10, <2>1, <3>1, AddLinkEffect DEF linkCreate, At
      <3> QED
        BY <1>10, <3>1, <3>2, <1>3 DEF linkCreate, Becomes
    <2> QED BY <1>10, <2>1, <1>2 DEF linkCreate
  <1> QED
    BY <1>4, <1>5, <1>6, <1>7, <1>8, <1>9, <1>10 DEF Links

LEMMA ElsewhereStep ==
    ASSUME RelationsInv, NEW c \in Calls, Elsewhere(c)
    PROVE  RelationsInv'
  <1>0. TypeOK /\ EpicInv /\ UnlinkInv /\ LinkInv /\ edits \in Nat
    BY DEF RelationsInv, TypeOK
  <1> USE <1>0
  <1>1. UNCHANGED <<enabled, link, call, faults>> /\ edits' \in Nat
    BY DEF Elsewhere
  <1>2. call[c] \in Call
    BY DEF TypeOK
  <1>3. CASE "issue" \in DOMAIN call[c] /\ Move(call[c].issue)
    <2>1. call[c].issue \in Issues
      BY <1>2, <1>3, CallKinds DEF Idle, ToCall, PutCall, UnlinkCall, LinkCall
    <2>2. PICK field \in {"parent", "epic", None}, p \in Issues \union {None} :
              SetRelation(call[c].issue, field, p)
      BY <1>3 DEF Move
    <2>3. UNCHANGED <<epics, links>>
      BY <1>3 DEF Move
    <2>4. /\ EpicInv' /\ UnlinkInv'
          /\ parent' \in [Issues -> Issues \union {None}]
          /\ through' \in [Issues -> {"parent", "epic", None}]
          /\ disturbed' \subseteq Calls
      BY <1>1, <2>1, <2>2, <2>3, SetRelationEffect
    <2>5. LinkInv'
      BY <1>1, <2>3, LinksKept DEF linking
    <2>6. TypeOK'
      BY <1>1, <2>3, <2>4, <2>5, TypesKept DEF TypeOK, LinkInv
    <2> QED BY <2>4, <2>5, <2>6 DEF RelationsInv
  <1>4. CASE "to" \in DOMAIN call[c] /\ Retype(call[c].to)
    <2>1. PICK p \in Issues : p = call[c].to
      BY <1>2, <1>4, CallKinds DEF Idle, ToCall, PutCall, UnlinkCall, LinkCall
    <2>2. /\ UNCHANGED <<parent, through, links>>
          /\ epics' \subseteq Issues /\ epics \ {p} \subseteq epics'
          /\ disturbed \subseteq disturbed' /\ disturbed' \subseteq Calls
          /\ p \in epics' \/ p \notin epics \/
                 EpicCalls(p) \subseteq disturbed'
      BY <1>4, <2>1 DEF Retype, EpicCalls, TypeOK
    <2>3. EpicInv'
      BY <1>1, <2>2 DEF EpicInv, Looked, EpicCalls
    <2>4. UnlinkInv'
      BY <1>1, <2>2 DEF UnlinkInv
    <2>5. LinkInv'
      BY <1>1, <2>2, LinksKept DEF linking
    <2>6. TypeOK'
      BY <1>1, <2>2, <2>5, TypesKept DEF TypeOK, LinkInv
    <2> QED BY <2>3, <2>4, <2>5, <2>6 DEF RelationsInv
  <1>5. CASE "id" \in DOMAIN call[c] /\ Remove(call[c].id)
    <2>1. links' \subseteq links /\ UNCHANGED <<hierarchy, epics>>
      BY <1>5 DEF Remove
    <2>2. LinkInv'
      BY <1>1, <2>1, FewerLinks
    <2>3. EpicInv' /\ UnlinkInv'
      BY <1>1, <2>1, HierarchyKept
    <2>4. TypeOK'
      BY <1>1, <2>1, <2>2, TypesKept DEF TypeOK, LinkInv, hierarchy
    <2> QED BY <2>2, <2>3, <2>4 DEF RelationsInv
  <1> QED BY <1>3, <1>4, <1>5 DEF Elsewhere

LEMMA NextRelations == RelationsInv /\ Next => RelationsInv'
  <1> SUFFICES ASSUME RelationsInv, NEW c \in Calls,
                      Hierarchy(c) \/ Links(c) \/ Fail(c) \/ Elsewhere(c)
               PROVE  RelationsInv'
    BY DEF Next
  <1>1. CASE Fail(c)
    BY <1>1, ReturnEffect, CallEnds DEF Fail, RelationsInv, TypeOK
  <1> QED BY <1>1, HierarchyStep, LinksStep, ElsewhereStep

-----------------------------------------------------------------------------
(* Both kinds of call on one site: each leaves what the other is about.    *)

ToolsInv == RelationsInv /\ WritesInv

LEMMA RelationsKept ==
    ASSUME RelationsInv, UNCHANGED inRelations, UNCHANGED enabled,
           {faults, edits}' \subseteq Nat
    PROVE  RelationsInv'
  <1> USE DEF RelationsInv, inRelations
  <1>1. EpicInv' /\ UnlinkInv'
    BY HierarchyKept
  <1>2. LinkInv'
    BY LinksKept
  <1>3. TypeOK'
    BY <1>2, TypesKept DEF TypeOK, LinkInv, hierarchy, linking
  <1> QED BY <1>1, <1>2, <1>3

LEMMA WritesKept ==
    ASSUME WritesInv, UNCHANGED inWrites, {faults, edits}' \subseteq Nat
    PROVE  WritesInv'
  BY DEF WritesInv, SiteOK, TasksOK, inWrites

(* The selection of tools is that of the server. *)
LEMMA ToolsFixed == Writes!Next => UNCHANGED enabled
  <1> SUFFICES ASSUME NEW c \in Tasks,
                      \/ \E d \in {"cloud", "server"} : Writes!Starts(c, d)
                      \/ Writes!Requests(c)
                      \/ Writes!Elsewhere(c)
               PROVE  UNCHANGED enabled
    BY DEF Writes!Next
  <1>1. ASSUME NEW d, NEW tool, NEW at, NEW asks,
               Writes!Begin(c, d, tool, at, asks)
        PROVE  UNCHANGED enabled
    BY <1>1 DEF Writes!Begin, Writes!fixed
  <1>2. ASSUME NEW d, Writes!Starts(c, d) PROVE UNCHANGED enabled
    BY <1>1, <1>2
       DEF Writes!Starts, Writes!createIssue, Writes!updateIssue,
           Writes!transitionIssue, Writes!getAttachment, Writes!comment,
           Writes!assignIssue, Writes!deleteIssue, Writes!updateIssueRank
  <1>3. CASE Writes!Requests(c)
    <2>1. UNCHANGED Writes!fixed
      BY <1>3
         DEF Writes!Requests, Writes!resolveType, Writes!checkCreate,
             Writes!postIssue, Writes!checkUpdate, Writes!putIssue,
             Writes!listTransitions, Writes!postTransition,
             Writes!listAttachments, Writes!download, Writes!putRank,
             Writes!request, Writes!Fail, Writes!Forget
    <2> QED BY <2>1 DEF Writes!fixed
  <1> QED BY <1>2, <1>3 DEF Writes!Elsewhere

LEMMA ToolsInvariant == ToolsInv /\ [ToolsNext]_toolsVars => ToolsInv'
  <1> SUFFICES ASSUME ToolsInv, [ToolsNext]_toolsVars PROVE ToolsInv'
    OBVIOUS
  <1> USE DEF ToolsInv
  <1>1. CASE Next /\ UNCHANGED inWrites
    <2>1. RelationsInv'
      BY <1>1, NextRelations
    <2>2. {faults, edits}' \subseteq Nat
      BY <2>1 DEF RelationsInv, TypeOK
    <2> QED BY <1>1, <2>1, <2>2, WritesKept
  <1>2. CASE Writes!Next /\ UNCHANGED inRelations
    <2>1. WritesInv'
      BY <1>2, NextWrites
    <2>2. {faults, edits}' \subseteq Nat
      BY <2>1 DEF WritesInv
    <2>3. UNCHANGED enabled
      BY <1>2, ToolsFixed
    <2> QED BY <1>2, <2>1, <2>2, <2>3, RelationsKept
  <1>3. CASE UNCHANGED toolsVars
    <2>1. UNCHANGED <<inRelations, inWrites, enabled, faults, edits>>
      BY <1>3
         DEF toolsVars, vars, inRelations, inWrites, hierarchy, linking
    <2>2. {faults, edits}' \subseteq Nat
      BY <2>1 DEF RelationsInv, TypeOK
    <2> QED BY <2>1, <2>2, RelationsKept, WritesKept
  <1> QED BY <1>1, <1>2, <1>3 DEF ToolsNext

LEMMA ToolsAlways == ToolsSpec => []ToolsInv
  <1>1. ToolsInit => ToolsInv
    BY InitRelations, InitWrites DEF ToolsInit, ToolsInv
  <1> QED BY <1>1, ToolsInvariant, PTL DEF ToolsSpec

(* Every variable of the tool calls and of the site keeps its type, and a  *)
(* link request is only sent complete (CreateIssueLink, UpdateIssueLink).  *)
THEOREM TypesCorrect == ToolsSpec => []TypesOK
  <1>1. ToolsInv => TypesOK
    BY WritesProperties DEF ToolsInv, RelationsInv, TypesOK
  <1> QED BY <1>1, ToolsAlways, PTL

(* The Epic Link field is written with an Epic only, on both ways to it    *)
(* (SetIssueEpic, and SetIssueParent when the parent field is closed),     *)
(* unless the issue's type was changed after the call looked at it; what   *)
(* other users do of issues, types and fields meanwhile is theirs.         *)
THEOREM EpicsOnly == ToolsSpec => EpicLinkToEpics
  <1>1. ASSUME ToolsInv, NEW c \in Calls, updateIssue(c),
               call[c].field = "epic", c \notin disturbed
        PROVE  parent'[call[c].issue] \in epics
    <2>1. TypeOK /\ call[c] \in PutCall /\ call[c].to \in epics
      BY <1>1, Locals
         DEF ToolsInv, RelationsInv, EpicInv, Looked, updateIssue, At
    <2> QED BY <1>1, <2>1 DEF updateIssue, SetRelation, TypeOK, PutCall
  <1>2. ToolsInv =>
            [\A c \in Calls :
                 (updateIssue(c) /\ call[c].field = "epic"
                                 /\ c \notin disturbed)
                     => parent'[call[c].issue] \in epics]_vars
    BY <1>1
  <1> QED BY <1>2, ToolsAlways, PTL DEF EpicLinkToEpics

(* However many updates of one link overlap, fail or are repeated, it is   *)
(* replaced at most once, never stands beside its replacement, and the     *)
(* replacement differs only in what its caller named (UpdateIssueLink).    *)
THEOREM LinksReplaced == ToolsSpec => []Replacements
  <1>1. ToolsInv => Replacements
    BY DEF ToolsInv, RelationsInv, LinkInv
  <1> QED BY <1>1, ToolsAlways, PTL

(* An unlink clears the relation its issue has, in whichever field it is,  *)
(* unless someone changed it since the call began (UnlinkIssueParent).     *)
THEOREM UnlinkRight == ToolsSpec => UnlinkClears
  <1>1. ASSUME ToolsInv, NEW c \in Calls, unlinkClear(c), c \notin disturbed
        PROVE  parent'[call[c].issue] = None
    <2>1. /\ call[c].issue \in Issues
          /\ through[call[c].issue] = call[c].field
      BY <1>1, Locals
         DEF ToolsInv, RelationsInv, UnlinkInv, unlinkClear, At, UnlinkCall
    <2> QED
      BY <1>1, <2>1
         DEF unlinkClear, ClearField, SetRelation, ToolsInv, RelationsInv,
             TypeOK
  <1>2. ToolsInv => [\A c \in Calls : unlinkClear(c) /\ c \notin disturbed
                        => parent'[call[c].issue] = None]_vars
    BY <1>1
  <1> QED BY <1>2, ToolsAlways, PTL DEF UnlinkClears

(* Of the tools of IssueWrites: what was done is what was asked and found, *)
(* as DoneAsAsked lists it, whatever other users change between the look   *)
(* and the act (handleCreateIssue, handleTransitionIssue,                  *)
(* handleGetAttachment, handleUpdateIssue, handleDeleteIssue), and an      *)
(* answer that is not lost is a success just when something was done, the  *)
(* 207 to a rank included (UpdateIssueRank).  Assignees, the place of a    *)
(* rank and the fields Jira accepts are not compared.                      *)
THEOREM AsAsked == ToolsSpec => [](DoneAsAsked /\ ToldTruly)
  <1>1. ToolsInv => DoneAsAsked /\ ToldTruly
    BY WritesProperties DEF ToolsInv, DoneAsAsked, ToldTruly
  <1> QED BY <1>1, ToolsAlways, PTL
=============================================================================
