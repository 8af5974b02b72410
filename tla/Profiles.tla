------------------------------ MODULE Profiles ------------------------------
(***************************************************************************)
(* The saved connections and where they are registered                     *)
(* (src/internal/config/config.go): jira-mcp's own config.json, and the    *)
(* configuration files of MCP clients, which other programs write too.     *)
(*                                                                         *)
(* The commands setup and install-mcp run one at a time and may be killed  *)
(* anywhere.  os.WriteFile empties a file before it fills it, so that a    *)
(* process killed in between leaves it cut short.                          *)
(***************************************************************************)
EXTENDS FiniteSets

CONSTANTS
    Hosts,     \* hosts of Jira sites
    Sites,     \* URLs the user enters: a host, and what else they say
    Settings,  \* deployment, credentials and tools of a connection
    Clients,   \* MCP clients, each with its file
    TextFiles, \* those whose file is edited line by line (Codex)
    Installed, \* those whose command is on the PATH
    Servers,   \* other MCP servers
    None, Missing, Cut

VARIABLES
    config,  \* config.json: Missing, Cut, or what it holds
    clients, \* the file of each client: Missing, Cut, or what it holds
    cmd,     \* the command that runs
    early,   \* history: the connection from before there were profiles
    saved,   \* history: the connection last saved for each URL
    replaced, \* history: those of them another URL took the place of
    made,    \* history: the other servers the client's owner put in its file
    torn     \* history: files cut short, or changed under the command

histories == <<early, saved, replaced>>

vars == <<config, clients, cmd, histories, made, torn>>

Idle == [at |-> "idle"]

Names == Hosts \union {"default"}

(* A URL without a scheme has no host the program can see. *)
profileName(site) == IF site.host = None THEN "default" ELSE site.host

Profile == [site : Sites, settings : Settings]

File == [top : Profile \union {None}, active : Names \union {""},
         profiles : [Names -> Profile \union {None}]]

Empty == [top |-> None, active |-> "", profiles |-> [n \in Names |-> None]]

Entries == [jira : Names \union {"", None}, others : SUBSET Servers]

ASSUME ProfilesAssumption ==
    /\ \A site \in Sites : site.host \in Hosts \union {None}
    /\ TextFiles \subseteq Clients /\ Installed \subseteq Clients
    /\ "config" \notin Clients
    /\ "" \notin Names /\ "default" \notin Hosts
    /\ None \notin Names \union {""} \union Profile \union Clients
                \union Entries
    /\ Missing # Cut
    /\ {Missing, Cut} \intersect (File \union Entries) = {}

Saved(file) == {n \in Names : file.profiles[n] # None}

(* A program without a connection, or one set up before there were         *)
(* profiles: a connection of its own and none by name.                     *)
Init ==
    /\ early \in Profile \union {None}
    /\ config = IF early = None THEN Missing
                ELSE [top |-> early, active |-> "",
                      profiles |-> Empty.profiles]
    /\ clients \in [Clients -> {Missing, [jira |-> None, others |-> {}]}]
    /\ cmd = Idle
    /\ saved = {} /\ replaced = {}
    /\ made = [c \in Clients |-> {}]
    /\ torn = {}

-----------------------------------------------------------------------------
(* Connections *)

profileFile(file, name) ==
    IF file.profiles[name] = None
    THEN file
    ELSE [top |-> file.profiles[name], active |-> name,
          profiles |-> file.profiles]

(* Mutant: the active profile goes before the environment. *)
activeProfileFileFirst(file, env) ==
    IF Saved(file) = {} THEN {file} ELSE {profileFile(file, file.active)}

(* env is JIRA_MCP_PROFILE; without it and without an active profile the   *)
(* program takes any.                                                      *)
activeProfileFile(file, env) ==
    IF Saved(file) = {} THEN {file}
    ELSE {profileFile(file, n) :
              n \in IF env # "" THEN {env}
                    ELSE IF file.active # "" THEN {file.active}
                    ELSE Saved(file)}

Load == IF config \in {Missing, Cut} THEN {} ELSE {config}

(* Mutant: a new connection starts from nothing. *)
newProfileFileEmpty(file) == Empty

(* What the form is filled with after "Create new connection": the         *)
(* settings stay as defaults, which the user may replace.                  *)
newProfileFile(file) ==
    [top |-> file.top, active |-> "", profiles |-> file.profiles]

(* The file with the connection of the form, saved under its host. *)
saveProfile(file, answer) ==
    LET name == profileName(answer.site)
    IN  [top |-> answer, active |-> name,
         profiles |-> [file.profiles EXCEPT ![name] = answer]]

-----------------------------------------------------------------------------
(* RunSetup, up to the end of the form.  A file that cannot be read counts *)
(* as none.                                                                *)
setup(env) ==
    /\ cmd = Idle
    /\ \E loaded \in IF Load = {} THEN {Empty}
                     ELSE activeProfileFile(config, env) :
       \E file \in {loaded}
              \union {profileFile(loaded, n) : n \in Saved(loaded)}
              \union IF Saved(loaded) = {} THEN {}
                     ELSE {newProfileFile(loaded)},
          answer \in Profile :
           cmd' = [at |-> "save", file |-> saveProfile(file, answer)]
    /\ UNCHANGED <<config, clients, histories, made, torn>>

saveTruncate ==
    /\ cmd.at = "save"
    /\ config' = Cut
    /\ cmd' = [at |-> "save.write", file |-> cmd.file]
    /\ UNCHANGED <<clients, histories, made, torn>>

OtherURLs(profile) == {p \in saved : p.site # profile.site}

saveWrite ==
    /\ cmd.at = "save.write"
    /\ config' = cmd.file
    /\ early' = None
    /\ saved' = OtherURLs(cmd.file.top) \union {cmd.file.top}
    /\ replaced' = {p \in OtherURLs(cmd.file.top) :
                       \/ p \in replaced
                       \/ profileName(p.site) = cmd.file.active}
    /\ cmd' = [at |-> "saved", file |-> cmd.file]
    /\ UNCHANGED <<clients, made, torn>>

Detected == {c \in Clients : clients[c] # Missing \/ c \in Installed}

Configured ==
    {c \in Detected :
        clients[c] \notin {Missing, Cut} /\ clients[c].jira # None}

(* Mutant: a client that is not selected is left as it is. *)
RemovalsNone(selected) == {}

Removals(selected) == Configured \ selected

Targets(tool, name, update, remove) ==
    [at |-> "targets", tool |-> tool, name |-> name,
     update |-> update, remove |-> remove,
     target |-> None, text |-> None, selected |-> update, detected |-> Detected,
     changed |-> {}]

(* The user selects the clients; those configured but not selected are     *)
(* taken out again.                                                        *)
setupSelect ==
    /\ cmd.at = "saved"
    /\ \/ Detected = {} /\ cmd' = Idle
       \/ /\ Detected # {}
          /\ \E selected \in SUBSET Detected :
                 cmd' = Targets("setup", cmd.file.active, selected,
                                 Removals(selected))
    /\ UNCHANGED <<config, clients, histories, made, torn>>

(* InstallMCP up to the selection; it takes no client out. *)
installMCP(env) ==
    /\ cmd = Idle
    /\ Detected # {}
    /\ \E loaded \in Load : \E file \in activeProfileFile(loaded, env) :
       \E selected \in SUBSET Detected :
           cmd' = Targets("install-mcp", file.active, selected, {})
    /\ UNCHANGED <<config, clients, histories, made, torn>>

-----------------------------------------------------------------------------
(* The file of one client.  The order of the clients is the program's; it  *)
(* may be any here.                                                        *)

OthersIn(c) ==
    IF clients[c] \in {Missing, Cut} THEN {} ELSE clients[c].others

(* Mutant: the entry replaces the list of servers. *)
TextAlone(c) ==
    [jira |-> IF c \in cmd.update THEN cmd.name ELSE None, others |-> {}]

(* The file with jira-mcp's entry put in or taken out. *)
Text(c) ==
    [jira |-> IF c \in cmd.update THEN cmd.name ELSE None,
     others |-> OthersIn(c)]

targetRead(c) ==
    /\ cmd.at = "targets"
    /\ c \in cmd.update \union cmd.remove
    /\ clients[c] = Cut => c \in TextFiles
    /\ cmd' = [cmd EXCEPT !.at = "truncate", !.target = c, !.text = Text(c)]
    /\ UNCHANGED <<config, clients, histories, made, torn>>

targetTruncate ==
    /\ cmd.at = "truncate"
    /\ clients' = [clients EXCEPT ![cmd.target] = Cut]
    /\ cmd' = [cmd EXCEPT !.at = "write"]
    /\ UNCHANGED <<config, histories, made, torn>>

targetWrite ==
    /\ cmd.at = "write"
    /\ clients' = [clients EXCEPT ![cmd.target] = cmd.text]
    /\ cmd' = [cmd EXCEPT !.at = "targets", !.target = None, !.text = None,
                          !.update = @ \ {cmd.target},
                          !.remove = @ \ {cmd.target},
                          !.changed = @ \ {cmd.target}]
    /\ UNCHANGED <<config, histories, made, torn>>

Finished == cmd.at = "targets" /\ cmd.update \union cmd.remove = {}

finish ==
    /\ Finished
    /\ cmd' = Idle
    /\ UNCHANGED <<config, clients, histories, made, torn>>

(* The file being written, if one is. *)
Writing ==
    CASE cmd.at = "save.write" -> {"config"}
      [] cmd.at = "write"      -> {cmd.target}
      [] OTHER                 -> {}

(* The command ends early: the user cancels, a file cannot be read,        *)
(* created or filled, or the process is killed.                            *)
Stop ==
    /\ cmd # Idle /\ ~ Finished
    /\ cmd' = Idle
    /\ torn' = torn \union Writing
    /\ UNCHANGED <<config, clients, histories, made>>

EntryOf(c) == IF clients[c] \in {Missing, Cut} THEN None ELSE clients[c].jira

Remembered(c) ==
    {None, EntryOf(c)} \union {profileName(p.site) : p \in saved}

(* The owner of a client's file writes it anew from what it knows, which   *)
(* may be older than what is there: with the entry of jira-mcp's that it   *)
(* has, with one that was registered once, or with none.                   *)
Elsewhere(c, servers, entry) ==
    /\ clients' = [clients EXCEPT ![c] = [jira |-> entry, others |-> servers]]
    /\ cmd' = IF cmd.at \in {"targets", "truncate", "write"}
                 /\ entry # EntryOf(c)
              THEN [cmd EXCEPT !.changed = @ \union {c}] ELSE cmd
    /\ made' = [made EXCEPT ![c] = servers]
    /\ torn' = IF cmd.at \in {"truncate", "write"} /\ cmd.target = c
               THEN torn \union {c}
               ELSE torn \ {c}
    /\ UNCHANGED <<config, histories>>

Next ==
    \/ \E env \in Names \union {""} : setup(env) \/ installMCP(env)
    \/ saveTruncate \/ saveWrite \/ setupSelect
    \/ \E c \in Clients : targetRead(c)
    \/ targetTruncate \/ targetWrite \/ finish \/ Stop
    \/ \E c \in Clients : \E servers \in SUBSET Servers,
                            entry \in Remembered(c) :
           Elsewhere(c, servers, entry)

Spec == Init /\ [][Next]_vars

-----------------------------------------------------------------------------
(* Properties *)

Saving == [at : {"save", "save.write", "saved"}, file : File]

Registering ==
    [at : {"targets", "truncate", "write"}, tool : {"setup", "install-mcp"},
     name : Names \union {""},
     update : SUBSET Clients, remove : SUBSET Clients,
     target : Clients \union {None}, text : Entries \union {None},
     selected : SUBSET Clients, detected : SUBSET Clients,
     changed : SUBSET Clients]

Command == {Idle} \union Saving \union Registering

FileOK(file) ==
    /\ file \in File
    /\ \A n \in Saved(file) : profileName(file.profiles[n].site) = n
    /\ Saved(file) # {} =>
           /\ file.active \in Saved(file)
           /\ file.top = file.profiles[file.active]

(* Type invariant; in config.json every connection is saved under the name *)
(* of its host, and the connection on top is the active one.               *)
TypeOK ==
    /\ config \in {Missing, Cut} \/ FileOK(config)
    /\ clients \in [Clients -> {Missing, Cut} \union Entries]
    /\ cmd \in Command
    /\ early \in Profile \union {None}
    /\ saved \subseteq Profile /\ replaced \subseteq saved
    /\ made \in [Clients -> SUBSET Servers]
    /\ torn \subseteq Clients \union {"config"}

(* For every URL, the connection last saved for it is in config.json as    *)
(* it was saved, and nothing else is; and a connection from before there   *)
(* were profiles stays until one is saved.  Excepted are a setup that died *)
(* while it wrote the file, which alone leaves it cut short, and a URL     *)
(* replaced: another one of the same host was saved after it, under the    *)
(* same name (README.md:261 counts on a profile for every URL).            *)
ConnectionsKept ==
    "config" \notin torn =>
        /\ config = Cut => "config" \in Writing
        /\ config = Missing => saved = {} /\ early = None
        /\ config \notin {Missing, Cut} =>
               /\ early # None => config.top = early
               /\ \A p \in saved \ replaced :
                      config.profiles[profileName(p.site)] = p
               /\ \A n \in Saved(config) :
                      config.profiles[n] \in saved \ replaced

(* A client that was registered with a profile is served by it, whatever   *)
(* connections were saved and selected since: the name in its entry does   *)
(* not fall back to the active connection.                                 *)
ClientsServed ==
    \A c \in Clients :
        (/\ clients[c] \notin {Missing, Cut}
         /\ clients[c].jira \notin {None, ""}
         /\ "config" \notin torn /\ "config" \notin Writing)
            => \A loaded \in Load :
                   \A file \in activeProfileFile(loaded, clients[c].jira) :
                       file.top # None
                       /\ profileName(file.top.site) = clients[c].jira

(* A command that ends well has registered the connection in the clients   *)
(* selected, and a setup in no other of those it saw; but for a client     *)
(* whose owner changed jira-mcp's entry since the selection and, if the    *)
(* command writes it, after that.                                          *)
SelectionDone ==
    Finished =>
        \A c \in cmd.detected \ cmd.changed :
            \/ /\ c \in cmd.selected
               /\ clients[c] \notin {Missing, Cut}
               /\ clients[c].jira = cmd.name
            \/ c \notin cmd.selected
               /\ cmd.tool = "setup" => c \notin Configured

(* The other servers of a client stay as its owner put them, unless the    *)
(* file was changed while a command was about to write it, or cut short.   *)
OthersKept ==
    \A c \in Clients \ torn :
        clients[c] \notin {Missing, Cut} => clients[c].others = made[c]
=============================================================================
