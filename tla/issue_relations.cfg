CONSTANTS
    None = None
    Issues = {i1, e1}
    Epics = {e1}
    LinkTypes = {t1}
    LinkIds = {l1, l2, l3}
    Namings = {{}, {"type"}, {"inward"}, {"outward"}}
    Selections = {
        {"jira_set_issue_epic", "jira_link_issue_parent",
         "jira_unlink_issue_parent"},
        {"jira_create_issue_link", "jira_update_issue_link",
         "jira_delete_issue_link"},
        {"jira_create_issue", "jira_update_issue", "jira_transition_issue",
         "jira_get_attachment", "jira_add_comment", "jira_update_comment",
         "jira_assign_issue", "jira_delete_issue", "jira_update_issue_rank"}}
    Calls = {c1, c2}
    Tasks = {s1}
    NameOf <- MCNameOf
    SchemaTypes = {"string", "integer", "other"}
    Words = {"Close", "Done", "Move"}
    Fields = {"description", "customfield_1"}
    CustomFields = {"customfield_1"}
    Values = {"text", "number"}
    TransitionOf <- MCTransitionOf
    FileOf <- MCFileOf
    MaxFaults = 1
    MaxEdits = 1
SPECIFICATION ToolsSpec
SYMMETRY Symmetry
CHECK_DEADLOCK FALSE
INVARIANTS
    TypesOK
    Replacements
    ToldTruly
    DoneAsAsked
PROPERTY
    UnlinkClears
    EpicLinkToEpics
