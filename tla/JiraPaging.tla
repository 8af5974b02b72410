----------------------------- MODULE JiraPaging -----------------------------
(***************************************************************************)
(* The operations of the Jira client that read a list page by page: the    *)
(* rank of an issue on a board, the boards of a site, and the metadata to  *)
(* create an issue (src/internal/jira/client.go); and the tools that give  *)
(* a page and a hint how to have the rest, with a caller that follows it.  *)
(*                                                                         *)
(* One call reads one list, so one call at a time is enough; what changes  *)
(* under it is the list, which other users of the site edit between pages. *)
(* How many entries a server puts on a page, whether it obeys the size it  *)
(* is asked for and whether it says which page is the last is its own.     *)
(***************************************************************************)
EXTENDS SequencesExt, Naturals

CONSTANTS
    Items,        \* entries of a list, numbered
    PageSize,     \* entries a client asks for at once (50)
    DefaultLimit, \* limit when none is given (50, or 25 in a search)
    Limits,       \* limits a caller may give
    None,
    MaxLength,    \* bound: entries of a list when a call begins
    MaxEdits      \* bound: changes of a list, over all calls

(* Where an issue stands on its board, and next to which others. *)
Rank == [position : Nat, previous : Items \union {None},
         next : Items \union {None}]

ASSUME PagingAssumption ==
    /\ Items \subseteq Nat /\ 1..MaxLength \subseteq Items
    /\ {PageSize, DefaultLimit} \subseteq Nat \ {0}
    /\ Limits \subseteq Nat
    /\ MaxLength \in Nat
    /\ None \notin Items \union Rank

VARIABLES
    list,   \* what the server has
    server, \* how it pages
    call,   \* the call in progress
    kept,   \* entries there since the call began to read the list
    changes, \* of the list since then
    edits

vars == <<list, server, call, kept, changes, edits>>

seen == <<list, kept, changes>>

Idle == [at |-> "idle"]

Paging == [size : 1..PageSize + 1, obeys : BOOLEAN, marks : BOOLEAN]

Least(a, b) == IF a < b THEN a ELSE b

Fresh(n) == [i \in 1..n |-> i]

(* The page from start on, when size entries are asked for. *)
Page(start, size) == SubSeq(list, start + 1, Least(start + size, Len(list)))

Served(start, asked) ==
    Page(start, IF server.obeys THEN Least(asked, server.size) ELSE server.size)

IsLast(start, page) == server.marks /\ start + Len(page) >= Len(list)

Answer(result) ==
    call' = [at |-> "answer", tool |-> call.at, asked |-> call.asked,
             result |-> result]

Init ==
    /\ list = <<>>
    /\ server \in Paging
    /\ call = Idle
    /\ kept = {}
    /\ changes = 0
    /\ edits = 0

Read(n) ==
    /\ list' = Fresh(n)
    /\ kept' = 1..n
    /\ changes' = 0

-----------------------------------------------------------------------------
(* GetIssueRank: the position of an issue and its neighbours.  The first   *)
(* neighbour may be on the page before, the second on the page after.      *)

getIssueRank(n, key) ==
    /\ call = Idle
    /\ Read(n)
    /\ call' = [at |-> "rank", asked |-> key, start |-> 0, previous |-> None,
                found |-> None]
    /\ UNCHANGED <<server, edits>>

(* The board list obeys the size it is asked for, and may leave out the    *)
(* total.                                                                  *)
RankPage == Page(call.start, PageSize)

Total == IF server.marks THEN Len(list) ELSE 0

RankEnds ==
    \/ Len(RankPage) < PageSize
    \/ Total > 0 /\ call.start + Len(RankPage) >= Total

(* Mutant: an issue at the head of a page has nothing before it. *)
RankAtHeadless(i) ==
    [position |-> call.start + i,
     previous |-> IF i > 1 THEN RankPage[i - 1] ELSE None,
     next     |-> IF i < Len(RankPage) THEN RankPage[i + 1] ELSE None]

(* Where entry i of the page stands, as far as the page tells. *)
RankAt(i) ==
    [position |-> call.start + i,
     previous |-> IF i > 1 THEN RankPage[i - 1] ELSE call.previous,
     next     |-> IF i < Len(RankPage) THEN RankPage[i + 1] ELSE None]

rankNext ==
    /\ call.at = "rank"
    /\ call.found # None
    /\ Answer([call.found EXCEPT
                  !.next = IF RankPage = <<>> THEN None ELSE RankPage[1]])
    /\ UNCHANGED <<seen, server, edits>>

rankSearch ==
    /\ call.at = "rank"
    /\ call.found = None
    /\ \/ \E i \in 1..Len(RankPage) :
              /\ RankPage[i] = call.asked
              /\ IF i < Len(RankPage) \/ RankEnds
                 THEN Answer(RankAt(i))
                 ELSE call' = [call EXCEPT !.start = @ + PageSize,
                                           !.found = RankAt(i)]
       \/ /\ call.asked \notin Range(RankPage)
          /\ IF RankEnds
             THEN Answer(None)
             ELSE call' = [call EXCEPT !.start = @ + PageSize,
                                       !.previous = Last(RankPage)]
    /\ UNCHANGED <<seen, server, edits>>

-----------------------------------------------------------------------------
(* ListBoards *)

(* Mutant: a limit left out means none at all. *)
LimitAsGiven(limit) == limit

Limit(limit) == IF limit = 0 THEN DefaultLimit ELSE limit

listBoards(n, limit) ==
    /\ call = Idle
    /\ Read(n)
    /\ call' = [at |-> "boards", asked |-> limit, start |-> 0,
                boards |-> <<>>]
    /\ UNCHANGED <<server, edits>>

BoardsPage ==
    Served(call.start, Least(Limit(call.asked) - Len(call.boards), PageSize))

(* Mutant: only a page marked as the last ends the list. *)
BoardsEndMarked == IsLast(call.start, BoardsPage)

BoardsEnd == IsLast(call.start, BoardsPage) \/ BoardsPage = <<>>

(* Mutant: the next page begins where a full one would have ended. *)
AdvanceFull(page) == call.start + PageSize

Advance(page) == call.start + Len(page)

boardsPage ==
    LET boards == call.boards \o BoardsPage
        limit  == Limit(call.asked)
    IN  /\ call.at = "boards"
        /\ IF BoardsEnd \/ Len(boards) >= limit
           THEN Answer(SubSeq(boards, 1, Least(limit, Len(boards))))
           ELSE call' = [call EXCEPT !.start = Advance(BoardsPage),
                                     !.boards = boards]
        /\ UNCHANGED <<seen, server, edits>>

-----------------------------------------------------------------------------
(* Tools whose answer is one page with a hint.  A search on Cloud names a  *)
(* token, a list of comments the start of the next page.                   *)

followHints(n, tool, limit) ==
    /\ call = Idle
    /\ Read(n)
    /\ call' = [at |-> tool, asked |-> limit, start |-> 0, read |-> <<>>]
    /\ UNCHANGED <<server, edits>>

HintedPage == Served(call.start, Limit(call.asked))

(* An empty page has no hint. *)
Hint(page) == page # <<>> /\ call.start + Len(page) < Len(list)

hintedPage ==
    LET read == call.read \o HintedPage
    IN  /\ call.at \in {"search", "comments"}
        /\ IF Hint(HintedPage)
           THEN call' = [call EXCEPT !.start = Advance(HintedPage),
                                     !.read = read]
           ELSE Answer(read)
        /\ UNCHANGED <<seen, server, edits>>

(* A search on Server, the issues of a board or a sprint: a first page, of *)
(* how many if the server says so, and the advice to ask for more at once. *)
issuesPage ==
    LET page == Served(0, Limit(call.asked))
        more == page # <<>> /\ Len(page) < Total
    IN  /\ call.at = "issues"
        /\ IF more /\ Limit(call.asked) < Total
           THEN call' = [call EXCEPT !.asked = Total]
           ELSE Answer([issues |-> page, more |-> more])
        /\ UNCHANGED <<seen, server, edits>>

(* Sprints: the first page, and no word of others. *)
sprintsPage ==
    /\ call.at = "sprints"
    /\ Answer(Served(0, DefaultLimit))
    /\ UNCHANGED <<seen, server, edits>>

-----------------------------------------------------------------------------
(* ResolveCreateMetadata: the issue type among the types of the project,   *)
(* then the fields of that type.  The answers carry start and total.       *)

resolveCreateMetadata(n, type) ==
    /\ call = Idle
    /\ Read(n)
    /\ call' = [at |-> "types", asked |-> type, start |-> 0]
    /\ UNCHANGED <<server, edits>>

MetadataPage == Page(call.start, server.size)

(* Mutant: one entry short of the total. *)
MetadataEndsShort(page) == call.start + Len(page) + 1 >= Len(list)

MetadataEnds(page) == page = <<>> \/ call.start + Len(page) >= Len(list)

typesPage ==
    /\ call.at = "types"
    /\ \/ /\ call.asked \in Range(MetadataPage)
          /\ \E n \in 0..MaxLength : Read(n)
          /\ call' = [at |-> "fields", asked |-> call.asked, start |-> 0,
                      fields |-> {}]
       \/ /\ call.asked \notin Range(MetadataPage)
          /\ IF MetadataEnds(MetadataPage)
             THEN Answer(None)
             ELSE call' = [call EXCEPT !.start = @ + Len(MetadataPage)]
          /\ UNCHANGED seen
    /\ UNCHANGED <<server, edits>>

fieldsPage ==
    LET fields == call.fields \union Range(MetadataPage)
    IN  /\ call.at = "fields"
        /\ IF MetadataEnds(MetadataPage)
           THEN Answer(fields)
           ELSE call' = [call EXCEPT !.start = @ + Len(MetadataPage),
                                     !.fields = fields]
        /\ UNCHANGED <<seen, server, edits>>

-----------------------------------------------------------------------------
Step ==
    \/ rankNext \/ rankSearch \/ boardsPage \/ typesPage \/ fieldsPage
    \/ hintedPage \/ issuesPage \/ sprintsPage

(* The tool hands the answer on. *)
deliver ==
    /\ call.at = "answer"
    /\ call' = Idle
    /\ UNCHANGED <<seen, server, edits>>

(* A request fails; the call returns the error. *)
Fail ==
    /\ call.at \notin {"idle", "answer"}
    /\ call' = Idle
    /\ UNCHANGED <<seen, server, edits>>

(* Other users add, remove and move entries. *)
Edit ==
    /\ call.at \notin {"idle", "answer"}
    /\ edits < MaxEdits
    /\ edits' = edits + 1
    /\ changes' = changes + 1
    /\ \/ \E i \in 1..Len(list) : list' = RemoveAt(list, i)
       \/ \E i \in 1..Len(list) + 1, x \in Items \ Range(list) :
              list' = InsertAt(list, i, x)
    /\ kept' = kept \intersect Range(list')
    /\ UNCHANGED <<server, call>>

Begin ==
    \E n \in 0..MaxLength :
        \/ \E key \in Items : getIssueRank(n, key)
        \/ \E limit \in Limits :
               \/ listBoards(n, limit)
               \/ \E tool \in {"search", "comments", "issues"} :
                      followHints(n, tool, limit)
        \/ followHints(n, "sprints", 0)
        \/ \E type \in Items : resolveCreateMetadata(n, type)

Next == Begin \/ Step \/ deliver \/ Fail \/ Edit

Spec == Init /\ [][Next]_vars

(* Every request is answered or times out, and the call then goes on. *)
FairSpec == Spec /\ WF_vars(Step \/ deliver)

-----------------------------------------------------------------------------
(* Properties *)

Call ==
    {Idle}
    \union [at : {"rank"}, asked : Items, start : Nat,
            previous : Items \union {None}, found : Rank \union {None}]
    \union [at : {"boards"}, asked : Limits, start : Nat, boards : Seq(Items)]
    \union [at : {"search", "comments", "issues", "sprints"}, asked : Nat,
            start : Nat, read : Seq(Items)]
    \union [at : {"types"}, asked : Items, start : Nat]
    \union [at : {"fields"}, asked : Items, start : Nat,
            fields : SUBSET Items]

AnswerOK ==
    CASE call.tool = "rank"   -> call.result \in Rank \union {None}
      [] call.tool \in {"boards", "search", "comments", "sprints"} ->
             call.result \in Seq(Items)
      [] call.tool = "issues" ->
             call.result \in [issues : Seq(Items), more : BOOLEAN]
      [] call.tool = "types"  -> call.result = None
      [] call.tool = "fields" -> call.result \in SUBSET Items

(* Type invariant; no more boards are read than fit. *)
TypeOK ==
    /\ list \in Seq(Items)
    /\ server \in Paging
    /\ IF call.at = "answer" THEN AnswerOK ELSE call \in Call
    /\ kept \subseteq Range(list)
    /\ {changes, edits} \subseteq Nat
    /\ call.at = "boards" => Len(call.boards) < Limit(call.asked)

Answered(tools) == call.at = "answer" /\ call.tool \in tools

Answers(tool) == Answered({tool}) /\ changes = 0

(* On a board nobody changes meanwhile, the rank is the position of the    *)
(* issue with both its neighbours, also across the edge of a page, and     *)
(* "not found" means it is not there.                                      *)
RankExact ==
    Answers("rank") =>
        IF call.result = None
        THEN call.asked \notin Range(list)
        ELSE LET r == call.result
             IN  /\ r.position \in 1..Len(list)
                 /\ list[r.position] = call.asked
                 /\ r.previous = IF r.position = 1 THEN None
                                 ELSE list[r.position - 1]
                 /\ r.next = IF r.position = Len(list) THEN None
                             ELSE list[r.position + 1]

(* Boards come without gaps or repetitions up to the limit, however many   *)
(* of them the server puts on a page ("follows Jira's startAt pagination   *)
(* until the requested limit is reached or the server marks the response   *)
(* as the last page").  Who follows the hints of a search or of comments   *)
(* has read all; who reads issues that come with a total is told whether   *)
(* there are more (formatSearchResult).                                    *)
Gathered ==
    /\ Answers("boards") =>
           call.result = SubSeq(list, 1, Least(Limit(call.asked), Len(list)))
    /\ Answers("search") \/ Answers("comments") => call.result = list
    /\ Answers("sprints") => IsPrefix(call.result, list)
    /\ Answers("issues") =>
           /\ IsPrefix(call.result.issues, list)
           /\ server.marks => (call.result.more <=> call.result.issues # list)

(* Others may change a list between two pages: each change hides at most   *)
(* one of the entries that were there all along.                           *)
Drifted ==
    /\ Answered({"search", "comments"}) =>
           Cardinality(kept \ Range(call.result)) <= changes
    /\ Answered({"fields"}) =>
           Cardinality(kept \ call.result) <= changes
    /\ Answered({"boards"}) /\ Len(call.result) < Limit(call.asked) =>
           Cardinality(kept \ Range(call.result)) <= changes

(* What a caller reads page by page, on a list that may change.            *)
PagesExact == Gathered /\ Drifted

(* The create metadata is complete: no field of the type is missing, so    *)
(* that the check for required fields sees them all, and a type is only    *)
(* unknown when the project does not have it.                              *)
MetadataComplete ==
    /\ Answers("types") => call.asked \notin Range(list)
    /\ Answers("fields") => call.result = Range(list)

(* No list, however it is paged and changed, keeps a call paging for ever. *)
PagingEnds == call.at # "idle" ~> call.at = "idle"
=============================================================================
