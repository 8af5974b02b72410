----------------------------- MODULE IssueTools -----------------------------
(***************************************************************************)
(* The tools that change issues, of one server and on one site: those of   *)
(* IssueRelations and those of IssueWrites.                                *)
(***************************************************************************)
EXTENDS IssueRelations

CONSTANTS
    Tasks, Words, Fields, CustomFields, Values, SchemaTypes, NameOf,
    TransitionOf, FileOf

VARIABLES name, available, attached, task

Writes == INSTANCE IssueWrites

ASSUME ToolsAssumption == Writes!ConstantsOK

inRelations == <<epics, hierarchy, linking, call>>
inWrites == <<name, available, attached, task>>

toolsVars == <<vars, inWrites>>

ToolsInit == Init /\ Writes!Init

ToolsNext ==
    \/ Next /\ UNCHANGED inWrites
    \/ Writes!Next /\ UNCHANGED inRelations

ToolsSpec == ToolsInit /\ [][ToolsNext]_toolsVars

-----------------------------------------------------------------------------
(* Properties: those of IssueRelations, and of IssueWrites. *)

(* Type invariant of both. *)
TypesOK == TypeOK /\ Writes!TypeOK

(* A tool of IssueWrites tells success when, and only when, Jira did       *)
(* something.  jira_update_issue_link does not keep to that: it fails      *)
(* after its delete when the create is refused (UpdateIssueLink).          *)
ToldTruly == Writes!ToldTruly

(* What was done is what was asked, checked and found (handleCreateIssue,  *)
(* handleTransitionIssue, handleGetAttachment).                            *)
DoneAsAsked == Writes!DoneAsAsked
=============================================================================
