# Verification of jira-mcp

TLA+ models, TLC runs and TLAPS proofs for the Go program in this repository:
an MCP server that gives language-model clients access to Jira, either as a
local process (stdio) or as a remote HTTP server with its own OAuth sign-in.

Paths below are relative to `src/`, the root of the program.

## 1. Inventory

| part | code | state | operations |
|---|---|---|---|
| Valkey store | `internal/remote/store.go` | key → (value, expiry) | Put, Get, Delete, Take (GETDEL) |
| Remote sign-in | `internal/remote/server.go`, `web_auth.go` | client, state, pending form, code, token, user, flow and session entries in Valkey | register, authorize, callback, complete, token, revoke, web login, web callback, session, logout |
| Atlassian credentials | `internal/remote/server.go` (`userFromRequest`, `refreshUser`, the server factory) | user records; Jira clients held by MCP sessions | check, refresh, serve |
| Rate limiter | `internal/remote/server.go` (`ipLimiter`) | table of token buckets | allow, evict |
| Audit store, stdio | `internal/audit/file.go` | one file per tool call; `nextSweep` per process | Append, sweep, List |
| Audit store, remote | `internal/remote/audit.go` | one string per event, one sorted set per account and site | Append, Sweep, List (two Lua scripts) |
| MCP boundary | `internal/mcp/server.go` | none | call of a tool, deferred observer |
| Jira client | `internal/jira/client.go` | none; issues, links and boards live in Jira | links, hierarchy, writes of an issue, rank, paging, create metadata |
| Tool handlers | `internal/tools/tools.go` | none | one handler per tool: the checks and reads before the request that changes something |
| Audit pages | `internal/remote/web_pages.go`, `internal/console` | none | a page of the newest events, with the failures among them |
| Configuration | `internal/config/config.go` | `config.json` with profiles; other programs' MCP configs | setup, resolve, install, uninstall |
| Set-up screens | `internal/setupui`, `pkg/selection` | cursor and marks | keys; a typed line |
| Command line | `cmd/jira-mcp/main.go` | managed block in two instructions files | install-instructions; dispatch |

How they interact.  The remote server is a set of HTTP handlers that share
nothing but Valkey, the rate limiter's table and Atlassian; a browser login is
built from the same authorize, callback and complete handlers an MCP client
uses, tied together by state values, codes and cookies.  `/mcp` goes through
the token check (`requireAccessToken`), then the limiter, then an MCP session
whose server was built from the user record of the moment the session began.
Tools call the Jira client; the observer of the MCP boundary appends one audit
event per tool call to the store of the transport in use, before the answer
leaves.  The stdio processes of one user share a configuration file and an audit
directory; the remote servers of one installation share the Valkey keys and
indexes of the audit, each with its own clock.

What is hard about it:

* *interleaving*: handlers read an entry and delete it with two commands;
  refreshes, sign-ins and tool calls of one user meet in one record; processes
  share a directory with no lock; requests take a mutex in another order than
  they read the clock;
* *failure*: a store command or a call to Atlassian fails, the client goes away
  and its context is cancelled, a process is killed, between any two steps;
* *time*: eight kinds of entries with five times to live refer to each other;
  access tokens expire inside sessions that do not; audit keys and the index that
  names them expire apart;
* *several calls as one operation*: an operation of the Jira client is a
  sequence of requests that may stop half way, on data others change.

What makes each part correct is stated as the properties of its module below;
`PROJECT.json` lists the hazards, each at its line, with the properties that
would catch it.

## 2. Modules

| module | what | composed of |
|---|---|---|
| `ValkeyStore` | the store: entries that expire, and the four commands | |
| `RemoteOAuth` | sign-in, revocation and browser sessions | `ValkeyStore` |
| `TokenRefresh` | credentials of `/mcp` requests against sign-ins | `ValkeyStore` |
| `RateLimiter` | the token buckets | |
| `AuditLog` | abstract: what a store of audit events promises | |
| `AuditFile` | the audit directory; implements `AuditLog` | `AuditLog` (refinement) |
| `RemoteAudit` | the MCP boundary, its observer, the two Valkey scripts, the pages; implements `AuditLog` | `AuditLog` (refinement) |
| `Audit` | an installation: one of the two stores | `AuditFile`, `RemoteAudit` |
| `IssueRelations` | tools that change parents, Epics and links | |
| `IssueWrites` | the other tools that change an issue, and attachments | |
| `IssueTools` | the tools of one server, on one site | `IssueRelations`, `IssueWrites` |
| `JiraPaging` | operations and tools that read a list page by page | |
| `Profiles` | saved connections and their registration in MCP clients | |
| `SetupScreens` | screens and lines on which the commands ask for a choice | |
| `Instructions` | the managed block in `AGENTS.md` and `CLAUDE.md` | |
| `Commands` | what a user runs on a machine | `Profiles`, `SetupScreens`, `Instructions` |
| `RemoteOAuthProofs`, `TokenRefreshProofs`, `RateLimiterProofs` | theorems about the module of that name | |
| `RemoteAuditProofs`, `AuditProofs` | theorems about the two audit stores, and about an installation | `AuditProofs` uses `RemoteAuditProofs` (instance) |
| `IssueToolsProofs`, `JiraPagingProofs` | theorems about the tools that write and those that read page by page | |
| `CommandsProofs` | theorems about `Profiles`, `SetupScreens`, `Instructions` and `Commands` | |
| `MC*` | symmetry sets and functions for TLC; the `.cfg` files give the constants | |

A definition whose comment begins with *Mutant* is a plausible slip in the code
of the definition after it.  `PROJECT.json` pairs each property with one: with
the mutant in place of the definition, TLC finds the property violated.

### ValkeyStore

`store[k]` is `Absent` or a value with the time its key expires.  The code
always writes with an expiry (`SET ... EX`).  `Put`, `Delete` and `Take` are
relations on `store` alone, so that a handler's step says what it does with its
own state.  `Elapse` advances the clock and drops what expired.

### RemoteOAuth

A request sits in a slot `req[r]`: a label that says which store command or
call to Atlassian comes next, and the local variables still needed.  A handler
is cut exactly where another may run: `complete`, for instance, is `complete`
(Get of the pending form), `completeDelete`, `completeClient` (Get of the
client entry, to tell a browser login), `completeUser` (Put of the record) and
`completeCode` (Put of the code and the redirect).  `Stop` is a handler that
ends there: its command failed, its client went away, or the process was
restarted; `MaxFaults` bounds how many.  `revoke` ignores the error of its
Delete and answers all the same, which is an alternative of that action; so does
`tokenDelete`, and `kept` remembers the codes that were not deleted.  A request
may take up to `MaxDelay` ticks: `began[r]` is when it arrived, and `Tick` waits
for those that have taken as long.

What a request may carry is decided by what the server told its clients: the
logs `asked`, `started`, `codeLog`, `tokenLog` and `sessionLog` record that, and
are also what the properties speak about.  An MCP client may name any client id
and redirect, a browser login's id and the server's own redirect among them,
which register, authorize and token accept.  `Consent` is an assumption about
Atlassian: a code comes back with the state it was given for.  Random values are
drawn from finite sets, never twice.  S256 is injective: a challenge stands for
its verifier.  The user of an MCP sign-in is the pair (account, cloud id), the
record key the code makes of the two; a browser user is a random id.

Left out: the HTML, cookie attributes and headers, the shape checks of redirect
URIs (the model's URIs passed them), the encryption of stored values (but see
`sealed` below), and the tool selection within the form.

### TokenRefresh

Of a consent at Atlassian it matters which *generation* of its refresh token
Atlassian accepts (`live[g]`); refreshing a rotating grant hands out the next
one.  A user record holds a grant, a generation or none (a consent without
offline access), an expiry, the tools selected, and whether the refresh token
is in the sealed form `open` accepts.  `userFromRequest` runs once in
`requireAccessToken` and once more in the server factory; what the factory got
is what the MCP session uses until it ends, so `sessions[s]` keeps the expiry
it was built with.

### RateLimiter

Tokens are counted by the time it takes to earn them, which makes the
arithmetic exact: a request costs `Cost = 1/rate` ticks and a full bucket holds
`Burst = burst/rate` ticks.  Reading the clock (`readClock`) and the critical
section (`allow`) are two steps, `MaxDelay` apart at most; `LimiterAssumption`
says that a bucket idle long enough to be evicted had time to fill up.  The
observer's window (`NewWindow`, `spent`, `given`) measures what a client was
granted since any moment.

### AuditLog, AuditFile, RemoteAudit, Audit

`AuditLog` is the promise of the interface `Store` (`internal/audit/audit.go`):
an event is recorded at most once, with one owner and one stamp; it can be read
until it is outdated or its owner has `Capacity` newer events, and what once
went never comes back.  Both stores are shown to implement it.

In `AuditFile` a call of a process is cut at each file system operation that
another process can see.  A file is the event it holds, stamped with the time in
its name.  `sweep` takes the process's mutex and is booked in `nextSweep` only
when it ends well; a List does not take it.  `Fail` is a call that returns an
error, with its deferred statements; `Crash` kills a process and starts it
again.  As a log, the directory keeps an event from its rename on; it has no
bound on events per owner.

In `RemoteAudit` a tool call passes `RegisterTool`: the handler returns, the
deferred observer reads the server's clock (up to `Drift` ahead of Valkey's),
sends the script, and stops waiting after two seconds, whether or not Valkey runs
it: `appendScript` may run and be reported as not stored.  The scripts are
atomic.  `expires` and `indexExpires` are Valkey's; an event can be read while it
is in the index of its owner and has its key.  Pages are read only, so
`webPage` is an operator that gives every page that may be shown at a moment.

`Audit` is an installation with one of the two; the two never meet in one
process.

### IssueRelations

The state is Jira's: what is above an issue and through which of the two fields
(`parent` or the older Epic Link), and the links with the ids Jira gave them.  A
tool call sits in a slot `call[c]` between two requests, so two calls, or a call
and another user of the site (`Elsewhere`: `Move`, `Retype`, `Remove`), change
what the other has read, the type of an issue among it (`epics`); `disturbed`
are the calls whose look at an issue was outdated since.
`Answered` is a request that was carried out: the call goes on, or the answer is
lost and the call ends with an error.  `Fail` is one that was not.  What Jira's
edit metadata says of the two fields may differ at each read.  A link remembers
the one it was made to replace, for the properties.  Left out: comments on a
link, the encoding of fields, the spelling of link types and their aliases, and
the order in which several fields named like an Epic Link are tried.

### IssueWrites, IssueTools

`IssueWrites` has the tools that create, update, move, assign, rank, comment on
and delete an issue, and the download of an attachment.  A task is cut between
its requests: what it read is in `found`, and `Elsewhere` renames a type, moves
the issue or replaces its files before it acts.  `ValidateIssueFields` and
`validateCreateFields` are operators over small metadata, `Fits` the check of a
JSON value against a schema, where a value is its shape.  What no property tells
apart, the metadata of a site for instance, is chosen anew where it is read.
`did` is what Jira has done, `outcome` what the client was told.  `IssueTools`
puts both modules on one server: a selection of tools is offered, and one tool
that is not selected cannot be called.

### JiraPaging

One call reads one list of numbered entries, which others may edit meanwhile.
The tools of one page (search, comments, the issues of a board or sprint) are
modelled with a caller who does what their hint says, since the hint is all the
tool promises of the rest.  `kept` is what was in the list all along and
`changes` counts what others did to it.
`server` says how the site pages: how many entries it puts on a page, whether
that depends on the size it is asked for, and whether it marks the last page (or
gives a total).  The issues of a board come in pages of the size asked for,
which `GetIssueRank` relies on when it advances by its own page size.

### Profiles

`config` is jira-mcp's own file and `clients[c]` the file of an MCP client; each
is missing, cut short or whole.  `setup` is the wizard up to the end of the form
with any answers; then the file is emptied and filled (`saveTruncate`,
`saveWrite`, the two halves of `os.WriteFile`), the clients are selected and
their files read, emptied and filled one after the other.  `Stop` covers the
errors, a cancelled form and a kill.  `Elsewhere` is a client that writes its own
file, with the other servers it likes and with the entry of jira-mcp's that is
there, one registered earlier, or none: an owner may write what it once read.  A
connection is its URL and the rest of its settings; a URL has the host the
program finds in it, or none.  `early` is the connection from before there were
profiles, `saved` the last one saved for each URL, `replaced` those of them that
lost their name to another URL of the same host, and `made` what the owner of a
file put in it.  `cmd.changed` are the clients whose owner changed jira-mcp's
entry under a command's hands, and `torn` the files that were cut short or
changed between a read and a write: the properties say what holds outside of
them, and that nothing else can spoil a file.

### SetupScreens, Instructions, Commands

A screen has a cursor and marks, and goes key by key; without a terminal the
choice is a line of names and numbers, `Parse`.  What a saved selection or a
typed line names may not be offered any more.  A text in `Instructions` is a
sequence of pieces: the two markers, the guidance, and what the user wrote.  The
command reads a file, computes `managed`, empties the file and fills it, first
`AGENTS.md`, then `CLAUDE.md`; it may be stopped anywhere, and the user may
write a file at any time, `MaxWrites` times in a run of TLC.  `Commands` puts
the three modules side by side: they share no state, and a behaviour is about
one of them.

## 3. Runs

| run | bounds | what it shows |
|---|---|---|
| `mcp_dances` | 2 clients, accounts, verifiers, states, codes; 2 requests at once; 1 fault | a bearer token belongs to the dance its client began, for the account that consented in it; no form survives its answer, and no code the token issued for it unless its Delete failed |
| `browser_login` | 2 logins, codes, sessions; 2 requests at once; 1 fault | a login flow and a code give one session each |
| `lifetimes` | 1 request at a time, taking up to 1 tick; 6 ticks; times to live in the order of the code's | codes and tokens refer to a record that is there, sessions but for their last 2 ticks; a browser login never writes the shared record; a token belongs to its dance also when an MCP client uses a login's client id |
| `token_refresh` | 1 user, 2 grants (one rotating), 2 requests at once, 2 rotations, 3 ticks, access tokens that need a refresh at once, bearer tokens for 2 ticks, user records for 3, 1 handler stopped | the rotated refresh token is kept; one renewal in flight per rotating grant |
| `rate_limit` | 2 clients, 2 calls at once, 7 ticks, eviction above 1 bucket | the rate bound in every window; idle clients are let in |
| `audit_files` | files: 2 processes, 2 events, 2 ticks = the retention, 1 failure or kill; Valkey: 2 identities, an index of 1 event, server clocks up to 1 tick ahead, 1 lost script or restart | both stores implement `AuditLog`; a List is complete and cleans; no leftovers; calls return; every answered call is audited with its outcome; pages show all and only their user's events |
| `issue_relations` | 2 issues (one an Epic), 3 links, 2 calls at once; 1 task with 2 types, transitions and files; 1 fault, 1 change elsewhere, of a type, a place or a link | only what was an Epic is written to the Epic Link; a link is replaced at most once and keeps what was not named; an unlink clears; success is told truly; what was done is what was asked and checked |
| `jira_paging` | lists of up to 5, pages of up to 3 (the client asks for 2), limits 0 to 4, 2 edits | rank, boards, hints and create metadata are exact, and lose at most one entry per edit; every call ends |
| `profiles` | 2 URLs of one host and one without a host, 2 clients (one edited as text), kills and writes by the clients without bound; screens of up to 2 choices and lines of up to 2 words; texts of up to 3 pieces, 2 runs of `install-instructions`, 2 writes by the user | the connection of a URL stays until another of its host is saved; clients are served by theirs; the selection is carried out; other servers stay; the user's text stays |
| `double_complete`, `unsealed`, `stale_session` | smallest that show it | three departures, section 6 |

Why the bounds are enough for what the runs claim: a confusion of dances needs
two of everything, which the first two runs have, and a replay needs two
requests at once or one after the other.  Time and concurrency are explored
apart where together they are too large: `mcp_dances` and `browser_login` have
no clock, `lifetimes` one request at a time with times to live in the order the
code's constants have, and requests that take a tick, since a slow `complete` or
callback is what could let a session outlast its record.  In `rate_limit` the
table limits are 1, so that eviction and drop both happen with two clients; in
`audit_files` an index of one event is full at once, and a drift of one tick
lets the order of scores and of scripts differ.  The theorems cover the rest.

In `issue_relations` one task is enough for `IssueWrites`: what another call
could do to the site between two requests, `Elsewhere` does.  In `jira_paging`
the lists end before, at and behind the edge of a page for every page size, and
limits do the same; `PagingEnds` needs the edits bounded, since a list that
grows as fast as it is read never ends.  Two URLs of one host are what shares a
profile.  `Profiles` needs no bound on steps: its state space is finite.  Three
pieces are a marker, the other marker and a piece of the user's in every order,
and the second run meets what the first left.  Two writes by the user are one
before a run and one during it or between two.

Fairness is assumed in two runs.  In `audit_files` every goroutine that can
take its next step eventually does (`Audit!FairSpec`: weak fairness of
`Step(c)` for each call to the files).  In `jira_paging` a call goes on: each
request is answered, refused or ends after the 30 seconds of the HTTP client.
File system operations return, which is what the operating system provides for a
local directory; nothing is assumed about calls that fail or processes that are
killed.  The handlers of the remote server promise nothing that must happen: a
client may always go away.  For the same reason deadlock is not checked where
the clock, a bound on runs or the supply of random values ends a behaviour.

## 4. Proofs

* `RemoteOAuthProofs!TypeCorrect` (`TypeOK`) and `BrowserLoginSafe`
  (`BrowserLoginOnce`): for every set of clients, accounts, sites, slots, and
  any times to live.  Type correctness alone is not inductive: `callbackPut`
  stores the account of a grant, which exists because the handler got past the
  exchange (`ConsentHeld`).  For the browser login `LoginInv` follows a flow and
  a code through store, handler and session: what is in the store is unspent,
  what a callback holds nobody else holds.  The atomicity of `Take` and the
  freshness of random draws are where it comes from.
* `ProvenanceSafe` (`BearerProvenance`) and `FormGone`
  (`FormGoneOnceAnswered`), for the same constants.  `DanceInv` follows a dance:
  what a state stands for (`asked`), the form it becomes, the code the form gives
  and the token of that code agree, and the consent they carry was given for that
  state.  It needs `ClientInv`, because `complete` decides by the client entry
  whether a code acts for a browser login or for an account and site.  An MCP
  client may name any client id and redirect; one that uses a browser login's id
  gets a record of its own for that sign-in, and only such a client does
  (`CodesFit`, `CodeRecords`).  `GrantInv` says that one callback at most is
  past the exchange of a consent, so that it puts one form and, once that form is
  deleted, nothing puts it back.
* `SessionsBelong` (`SessionProvenance`) and `IsolationSafe`
  (`BrowserIsolation`), on top of `LoginInv` and `DanceInv`, from
  `UserIdsAssumption`: the "browser:" that `complete` puts before the id of a
  browser login begins no account id.  Five invariants meet: a client asked for
  with the server's own redirect says that it is a browser's as long as its entry
  is there (`BrowserInv`); the record of an account and site is written only for
  clients no login ever drew (`AccountInv`); the record of a browser login is
  given to one handler and one code (`UserInv`); a stored flow names the client
  drawn with it (`PairInv`); so what a browser callback holds is of the dance its
  own login began (`SessionInv`).
* `CodeGone` (`CodeGoneOnceRedeemed`): `GoneInv` says that a code a handler is
  past deleting, or that was redeemed, is not in the store, and, since no code is
  drawn twice, never will be.  The exception is a code in `kept`.
* `UsersOutlive` (`NoDanglingUser`), from `LifeAssumption`: a request takes up
  to `MaxDelay`, a record of an account and site lives at least as long as a
  code, the token it buys and two slow requests, and a browser session at least
  as long as a token and two slow requests.  The program's constants satisfy
  both (ninety days against a minute and half an hour; eight hours against half
  an hour).  The record of a browser login is written for as long as a code and
  a session, so that a slow `complete` and a slow callback let the session
  outlast it by what they took: the last `2 * MaxDelay` of a session are
  excepted. `TimeInv` says that no request is older than `MaxDelay`, `LifeInv`
  that a record expires no sooner than the codes, tokens, sessions and handlers
  that name it need, and `UserCeiling` how late at most: so a later sign-in
  never shortens it.
* `NothingServesTwice` and `FormServesOnce` (`FormAnsweredOnce`), for behaviours
  in which no two requests are between the read and the Delete of the same form
  (`SerialForms`) or of the same code (`SerialCodes`).  Two posts at once do get
  two codes, which is what the run `double_complete` shows; so the theorem says
  that this is the only way.  The Delete of a form is checked, and
  `FormServesOnce` holds whatever fails; the Delete of a code is not, and a code
  in `kept` may give more than one token (`MintedOnce`).  `FormOnce` says that
  nobody holds a form whose code is out, `CodeOnce` the same of a code and its
  tokens.  `OneAtATime` shows that one slot for requests is such a behaviour.
* `RateLimiterProofs!TypeCorrect`, `RateRespected` (`RateBound`) and
  `IdleClientAdmitted` (`IdleAdmitted`), from `LimiterAssumption`.  The bound is
  not inductive: a late request moves `last` back and may leave a bucket below
  zero.  `DebtInv` says by how much, `SpentInv` relates what was granted to what
  the bucket has earned since the window began, or to the time that passed when
  the client has no bucket.  `IdleClientAdmitted` needs `Cost <= Burst`.
* `TokenRefreshProofs!TypeCorrect` (`TypeOK`), `TokenKept` (`RefreshTokenKept`,
  of the consent whose record is stored) and `Serialised` (`RefreshSerialised`).
  A consent belongs to one user and lives in that user's record, in handlers
  that read it and in handlers about to write it.  The invariant says that no
  copy is newer than the generation Atlassian accepts, and that whoever holds
  the accepted one of a rotating consent after a refresh is the only one to do
  so: Atlassian refuses the others, and a handler that was refused writes
  nothing.
* `AuditProofs!TypeCorrect` (`TypeOK`), `NothingLeft` (`NoLeftovers`),
  `FilesImplementLog` (`FileImplementsLog`) and `ListsComplete`
  (`ListComplete`), for any processes, calls and events.  `FlightInv` says that
  an event is in flight with one call, has no name before that call names it, and
  is not recorded before that call renames its file; so each rename is the
  `Record` of the log, each remove lets go of an outdated event, and every other
  step is a stutter.  `KeptInv` says that a recorded event is a file or outdated,
  and `ScanInv` what a List has found so far: of what it has looked at, only what
  is outdated, or older than a full result, is missing.
* `RemoteAuditProofs!TypeCorrect`, `EveryCallAudited` (`CallsAudited`),
  `ValkeyImplementsLog` (`ImplementsAuditLog`) and `PagesShowTheLog`
  (`PagesRight`), under `ConstantsOK`, which `Audit` assumes of its instance.
  `CallInv` and `FreshInv` follow an event from its call to the answer.  `KeyInv`
  is the reason for the refinement: Valkey has the key of an event until its
  retention, short of the drift, is over, and an index outlives the keys it
  names; so what leaves the index or loses its key is outdated or crowded out.
  `CutInv` adds that a recorded event outside the index is outdated or has
  `Capacity` newer ones, and `SeenInv` that what is recorded says what the client
  saw; from both follows what a page shows.
* `AuditProofs!InstallationFiles` (`ListComplete`, `NoLeftovers`),
  `InstallationCalls` (`CallsAudited`), `InstallationPages` (`PagesRight`),
  `InstallationFileLog` (`FileImplementsLog`) and `InstallationLog`
  (`ImplementsAuditLog`) carry all that to `Audit`, the specification the run
  checks, under `AuditAssumption`.  `AuditInv` is the invariants of both stores
  and that the one not in use is as it was; the clock is one, so the store not in
  use has to bear that it goes on.
* `IssueToolsProofs!TypesCorrect` (`TypesOK`), `EpicsOnly` (`EpicLinkToEpics`),
  `LinksReplaced` (`Replacements`), `UnlinkRight` (`UnlinkClears`) and `AsAsked`
  (`DoneAsAsked` and `ToldTruly`), for any issues, links, calls, failures and
  edits by others, from `RelationsAssumption` and `ToolsAssumption` (`None` is
  no value of the rest).  `LinkInv` follows a link from the update that read it
  to the one it was replaced by: a link that is gone is never deleted again, so
  of the updates that read it one at most gets to create.  `EpicInv` says that
  what a call is about to put in the Epic Link is an Epic unless its type was
  changed since the call looked, `UnlinkInv` that the field an unlink is about
  to clear holds the relation unless others disturbed it.  `WritesInv` gives
  each step of a task what was found before it, and the answer what Jira has
  done.  `AsAsked` speaks of the tools of `IssueWrites`; it does not compare
  assignees, the place of a rank and the fields Jira accepts, and says nothing
  of the link tools, of which an update may end with an error after its Delete
  (section 5).
* `JiraPagingProofs!TypesCorrect` (`TypeOK`), `RankRight` (`RankExact`),
  `PagesAddUp` (`PagesExact`) and `MetadataWhole` (`MetadataComplete`), for
  lists and pages of any size, from `PagingAssumption`.  `RankSoFar`,
  `ReadSoFar` and `MetadataSoFar` say what the pages read so far are of a list
  nobody changed: its beginning.  `MissedSoFar` counts, for one that changes,
  the entries that were there all along and were passed over: one at most for
  each change, because a change moves the entries behind it by one place.
* `CommandsProofs!TypeCorrect` (`TypeOK`), `ConnectionsSafe`
  (`ConnectionsKept`), `ClientsSafe` (`ClientsServed`), `OthersSafe`
  (`OthersKept`) and `SelectionSafe` (`SelectionDone`), from
  `ProfilesAssumption`, for any sites, clients and settings.  `SaveInv` says what
  a setup is about to write: what the file holds and one connection more.
  `ConfigInv` says that the file holds the connection of every URL that was not
  replaced (`Complete`) and none else (`Accounted`), while nobody was killed
  writing it, and `ClientInv` that an entry names one of them, also the entry an
  owner wrote from memory (`RememberedIsKnown`); together they give the
  connection the client is served by.  `OthersInv`
  adds what a command is about to write in a client's file, and `PlanInv` that
  a client that is selected is served already or still to be written, and one
  that is not is free of the connection or still to be cleaned, or its owner
  changed jira-mcp's entry meanwhile.  `CommandsSafe`
  says the same of `Commands`, whose steps are steps of `Profiles` or leave its
  state alone.
* `CommandsProofs!TextSafe` (`UserTextKept`), for any texts.  `managed` is not
  idempotent on every text, so the invariant says what may have become of the
  one the user left (`Follows`): a block was put at its end or in the place of
  one; or an end marker hides every block, and each run adds one; or a start
  without an end was left, one run has added a block and the next takes it with
  all from the start on for its own.  `managed` leads from each of them to one of
  them (`FirstRun`, `LaterRun`), and all but the last keep the user's text.  A
  write by the user starts this anew, and a file is excepted that a run emptied
  and did not fill, or that the user wrote after the run had read it.
* `CommandsProofs!TypesSafe` (`TypesOK`), for any offers, words and lines
  (`SelectionIs`, `ParseIs`).  What a screen hands on and what a line parses to
  are built up in a loop, a recursive function in the model; that the function
  exists and what each of its values is follows by induction up to the length
  (`Recursively`, `UpTo`), which comes down to the least element of a set of
  numbers (`LeastExists`).

So every invariant, action property and refinement that a passing run checks is
proved as well, under the assumptions named above, and the runs check that the
assumptions can be met.  What is model-checked only are the two liveness
properties, `CallsReturn` and `PagingEnds`: liveness under fairness is out of
the provers' reach.  The three runs that expect a violation show what the code
does, and there is nothing of them to prove.

## 5. Hazards without a property

A handler that stops after Atlassian rotated the refresh token and before the
record is written (`server.go:273`) leaves a record Atlassian refuses, and
`refreshUser` writes back a whole record read before its call to Atlassian, so
that the tools and credentials a sign-in stored meanwhile are lost.  Nothing in
the code excludes either; no property can hold, and no document says otherwise.

`revoke` answers 200 although its Delete failed (`server.go:336`): the token
stays valid until it expires, against the documentation (section 6).  A rate
below 0.5 requests per second (`server.go:650`) lets nothing in; the constants of
the run and the hypothesis of `IdleClientAdmitted` exclude it.

`UpdateIssueLink` deletes a link before it creates its replacement
(`internal/jira/client.go:765`); when the create is refused, the link is lost.

Some properties except what the code does not exclude, and say so: two
exchanges of a code at once, or one after a failed Delete, mint a token each
(`server.go:564`); the type of an issue changed after `SetIssueEpic` looked at
it, and a relation changed after an unlink read it, are not noticed
(`internal/jira/client.go:529`, `:569`); a command that cannot read or write one
client's file leaves those after it alone (`internal/config/config.go:229`); a
setup killed while it writes `config.json` loses every saved connection, a
client's own write to its file is lost when it falls between a command's read and
write and an old entry it writes back stays, an instructions file is lost to a
run stopped between emptying and filling it,
a list that changes between two pages may lose one entry per change
(`internal/jira/client.go:1165`; offsets allow nothing better), and
`UserTextKept` leaves out texts with half a block (section 6).

## 6. Departures

* `double_complete`: two posts of one site selection form at once both issue a
  code; the comment at `server.go:440` says the form cannot be replayed.
* `unsealed`: when Atlassian's answer to a refresh carries no new refresh token,
  the old one is stored unencrypted (`server.go:264`), against `README.md:307`;
  the next refresh then fails to open it.
* `stale_session`: an MCP session keeps the access token of the moment it began,
  so "access keeps working across token refreshes"
  (`docs/deployment/railway.md:84`) holds for the check and not for the call.

Seen as well, without a run of their own: `token` has the same read-then-delete
as `complete` and ignores a Delete that failed (`server.go:564`), so a code may
give more than one token where `docs/deployment/railway.md:79` says "minted once
per OAuth dance"; `revoke` answers 200 when its Delete failed (`server.go:336`),
where `docs/deployment/railway.md:81` says that it "deletes the session
immediately and always answers 200"; an MCP client may sign in with a browser
login's client id and `/web/callback` (`server.go:291`, `:341`, `:560`), and then
holds a bearer token for a record of the browser kind; a browser session may
outlast its record by what `complete` and the callback took (`server.go:462`);
two requests that refresh at once may have one of them
refused (`server.go:230`); a configured rate below 0.5 requests per second lets
nothing in (`server.go:650`), which is why `IdleClientAdmitted` assumes
`Cost <= Burst`; expired audit files survive writes for up to half the
retention because sweeps are throttled (`internal/audit/file.go:99`); a process
killed between create and rename leaves its `.pending-*` file for good.

Of the configuration and the command line:

* Each Jira URL is said to be saved as a profile of its own (`README.md:262`),
  but the profile is named after the host (`internal/config/config.go:451`): two
  URLs that differ in port or path share one, and so do all URLs without a
  scheme, which are saved as "default".  A connection saved before there were
  profiles is overwritten by a setup for another site.
* `docs/features/setup-onboarding.md:29` calls the markers of the instructions
  idempotent and the user's text preserved.  With a start marker without an end,
  the first run appends a block and the second replaces everything from the
  user's marker to the end of that block; with an end marker that comes first,
  every run appends a block more (`cmd/jira-mcp/main.go:197`).
* Without a terminal, a saved tool selection that names a tool no longer offered
  is offered as the default and then refused.  Setup takes "none" for no client,
  `install-mcp` does not.

Of the tools:

* `jira_create_issue_link` takes "blocked by" for `Blocks` without exchanging the
  two issues (`internal/tools/tools.go:1124`).  An update of a link that names as
  its inward issue the one on the outward side deletes the link, and Jira refuses
  the new one.
* `jira_create_issue` checks required fields without the `description` argument,
  so a type that requires one is refused unless the description comes as an extra
  field (`internal/tools/tools.go:823`); a description among the extra fields is
  sent as it is on Cloud.  Extra fields may name a project or type other than the
  one whose fields were checked, which is why `DoneAsAsked` speaks of the type
  they name.
* `docs/features/cloud-create-issue-metadata.md:25` says that a type is matched
  by ID first; the code takes the first type with that ID or that name
  (`internal/jira/client.go:474`), so `resolveType` takes either.
* A field of schema "integer" is refused for every JSON number, which is decoded
  into a float (`pkg/jsonvalue/jsonvalue.go`), and null passes for any required
  field (`Fits`).
* With both `filename` and `attachment_id`, `jira_get_attachment` returns the
  first attachment that has either (`internal/tools/tools.go:1415`).
* `AssignIssue` clears the assignee with `accountId` on Server too
  (`internal/jira/client.go:1025`), where the key is `name`.
* Sprints are read from the first page only, without a hint that there are more;
  an empty page of a search loses its token; a hint for issues is missing when
  the server leaves out the total, and asking for all of them is in vain when the
  server caps the page.  "máximo 100" (`internal/tools/tools.go:37`) is not
  enforced.
* `friendlyError` does not look into wrapped errors, so the create metadata's
  error keeps its raw form (`internal/tools/tools.go:1495`).

## 7. Plan

Done first, because most can go wrong there: the remote sign-in and the
credentials of `/mcp` requests; then the rate limiter, which every request
passes; the audit, with both its stores against one specification; the
operations of the Jira client that take several requests, and the tools that
check before they act; the files several programs write and the screens that ask
what to write. The theorems follow the same order.  What is left is `Grants`, an
abstract specification of sign-in: what is granted to whom, once. `RemoteOAuth`
without concurrent posts of one form implements it, by a mapping of codes,
tokens and sessions to grants; `DanceInv`, `FormOnce` and `CodeOnce` are what
the proof needs.

## 8. Not modelled

* Reads of one request (an issue, a board, a comment, the fields of a site) and
  the tools that only decode arguments, make one and format the answer: nothing
  but formatting would be left to check.
* `Doctor`, `help`, `version`, flag parsing, connection set-up, configuration
  from environment variables: no state.
* The templates of the operational pages and the local console's listener.  What
  a page shows of the store is `webPage` and `List`.
* Installers, documentation site and workflows are not part of the program.
