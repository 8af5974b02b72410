------------------------------- MODULE Audit -------------------------------
(***************************************************************************)
(* The audit of one installation (src/cmd/jira-mcp/main.go): jira-mcp      *)
(* started without a command is a stdio server whose observer writes       *)
(* files, `jira-mcp remote' a server whose observer writes to Valkey.      *)
(***************************************************************************)
EXTENDS AuditFile

CONSTANTS
    Identities, \* account and site of a user of the remote server
    Capacity,   \* events an index keeps (10000)
    Drift       \* how far a server's clock may be ahead of Valkey's

VARIABLES
    command, \* the command of the installation
    request, owner, score, success, answer, expires, index, indexExpires,
    stored, recorded, unstored

Remote == INSTANCE RemoteAudit WITH Slots <- Calls

ASSUME AuditAssumption == Remote!ConstantsOK

inValkey ==
    <<request, owner, score, success, answer, expires, index, indexExpires,
      stored, recorded, unstored>>
inFiles == <<files, pending, stamp, acked, mutex, nextSweep, call, crashes>>

auditVars == <<vars, command, inValkey>>

(* Only the store of the command is ever opened. *)
AuditInit ==
    /\ command \in {"stdio", "remote"}
    /\ Init
    /\ Remote!Init

OverStdio == command = "stdio" /\ UNCHANGED <<command, inValkey>>

stdio == OverStdio /\ Next

remote ==
    /\ command = "remote"
    /\ Remote!Next
    /\ UNCHANGED <<command, inFiles>>

AuditNext == stdio \/ remote

AuditSpec == AuditInit /\ [][AuditNext]_auditVars

(* The operating system runs every goroutine that can run. *)
FairSpec ==
    /\ AuditSpec
    /\ \A c \in Calls : WF_auditVars(OverStdio /\ Step(c))

-----------------------------------------------------------------------------
(* Properties: those of AuditFile, and of RemoteAudit. *)

(* Every answered call is in the audit with the outcome its client saw, or *)
(* reported as not stored (RegisterTool, and the observer set in New).     *)
CallsAudited == Remote!CallsAudited

(* A page shows all and only the retained events of its user (webPage).    *)
PagesRight == Remote!PagesRight

(* Valkey keeps the promise of an audit store (audit.go), short by Drift.  *)
ImplementsAuditLog == Remote!ImplementsAuditLog
=============================================================================
