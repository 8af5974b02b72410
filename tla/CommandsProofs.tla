--------------------------- MODULE CommandsProofs ---------------------------
(***************************************************************************)
(* What the commands guarantee for any number of sites and clients, any    *)
(* choices and any texts of the user, wherever they stop.                  *)
(***************************************************************************)
EXTENDS Commands, SequenceTheorems, FiniteSetTheorems,
        WellFoundedInduction, TLAPS

-----------------------------------------------------------------------------
(* The inductive invariant *)

Reading == config \notin {Missing, Cut}

(* The connections that are to be in the file. *)
Current == saved \ replaced

Accounted(file) == \A n \in Saved(file) : file.profiles[n] \in Current

Complete(file) ==
    \A p \in Current : file.profiles[profileName(p.site)] = p

IsKnown(name) ==
    name \in Names => \E p \in Current : profileName(p.site) = name

(* A URL that was replaced left its name to another. *)
ConfigInv ==
    /\ \A p \in saved : IsKnown(profileName(p.site))
    /\ Reading => Accounted(config) /\ IsKnown(config.active)
    /\ "config" \notin torn =>
           /\ config = Missing => saved = {} /\ early = None
           /\ config = Cut => cmd.at = "save.write"
           /\ Reading => /\ Complete(config)
                         /\ early # None => config.top = early

(* What setup is about to write: the new connection and, beside it, what   *)
(* the file holds.                                                         *)
SaveInv ==
    cmd.at \in {"save", "save.write"} =>
        LET file == cmd.file
        IN  /\ FileOK(file)
            /\ file.active \in Names
            /\ file.top \in Profile
            /\ file.profiles[file.active] = file.top
            /\ \A n \in Saved(file) \ {file.active} :
                   file.profiles[n] \in Current
            /\ "config" \notin torn =>
                   \A p \in Current : profileName(p.site) # file.active =>
                       file.profiles[profileName(p.site)] = p

TargetInv ==
    /\ cmd.at = "saved" =>
           cmd.file.active \in Names /\ IsKnown(cmd.file.active)
    /\ cmd.at \in {"targets", "truncate", "write"} => IsKnown(cmd.name)
    /\ cmd.at \in {"truncate", "write"} =>
           /\ cmd.target \in Clients
           /\ cmd.text \in Entries
           /\ IsKnown(cmd.text.jira)

(* A registration names a connection that was saved before. *)
ClientInv ==
    \A c \in Clients :
        clients[c] \notin {Missing, Cut} => IsKnown(clients[c].jira)

IInv == TypeOK /\ ConfigInv /\ SaveInv /\ TargetInv /\ ClientInv

-----------------------------------------------------------------------------
(* What the program cannot take for a name, a connection or a file. *)
LEMMA Apart ==
    /\ None \notin Names /\ None # "" /\ "" \notin Names
    /\ None \notin Profile /\ None \notin Clients /\ None \notin Entries
    /\ Missing # Cut /\ Missing \notin File /\ Cut \notin File
    /\ Missing \notin Entries /\ Cut \notin Entries
    /\ "config" \notin Clients
  BY ProfilesAssumption

-----------------------------------------------------------------------------
(* Which connection is chosen *)

LEMMA NameOfSite ==
    ASSUME NEW site \in Sites PROVE profileName(site) \in Names
  BY ProfilesAssumption DEF Names, profileName

(* Choosing a connection changes neither the saved ones nor makes up a     *)
(* name.                                                                   *)
LEMMA Chosen ==
    ASSUME NEW file \in File, FileOK(file), NEW env \in Names \union {""},
           NEW f \in activeProfileFile(file, env)
    PROVE  /\ FileOK(f) /\ f.profiles = file.profiles
           /\ f.active = file.active \/ f.active \in Saved(file)
  <1>1. CASE Saved(file) = {}
    BY <1>1 DEF activeProfileFile
  <1>2. ASSUME NEW n \in Names, f = profileFile(file, n)
        PROVE  /\ FileOK(f) /\ f.profiles = file.profiles
               /\ f.active = file.active \/ f.active \in Saved(file)
    BY <1>2 DEF FileOK, File, Saved, profileFile
  <1>3. CASE Saved(file) # {} /\ env # ""
    BY <1>2, <1>3 DEF activeProfileFile
  <1>4. CASE Saved(file) # {} /\ env = ""
    <2>1. file.active \in Names
      BY <1>4 DEF FileOK, Saved
    <2>2. file.active # ""
      BY <2>1, ProfilesAssumption
    <2> QED BY <1>2, <1>4, <2>1, <2>2 DEF activeProfileFile
  <1> QED BY <1>1, <1>3, <1>4

(* With a name that was saved, it is the connection of that name. *)
LEMMA ChosenSaved ==
    ASSUME NEW file \in File, NEW name \in Saved(file),
           NEW f \in activeProfileFile(file, name)
    PROVE  f.top = file.profiles[name]
  <1>1. name # "" /\ name \in Names
    BY ProfilesAssumption DEF Saved
  <1>2. f = profileFile(file, name)
    BY <1>1 DEF activeProfileFile
  <1> QED BY <1>2 DEF profileFile, Saved, File

(* What saving a connection makes of the file. *)
LEMMA SavedFile ==
    ASSUME NEW file \in File, NEW answer \in Profile,
           \A n \in Saved(file) : profileName(file.profiles[n].site) = n
    PROVE  LET f == saveProfile(file, answer)
           IN  /\ FileOK(f)
               /\ f.active = profileName(answer.site) /\ f.active \in Names
               /\ f.top = answer
               /\ f.profiles = [file.profiles EXCEPT ![f.active] = answer]
  <1> DEFINE f == saveProfile(file, answer)
             name == profileName(answer.site)
             profiles == [file.profiles EXCEPT ![name] = answer]
  <1>1. name \in Names
    BY NameOfSite DEF Profile
  <1>2. /\ profiles \in [Names -> Profile \union {None}]
        /\ profiles[name] = answer
        /\ \A n \in Names : n # name => profiles[n] = file.profiles[n]
    BY <1>1 DEF File
  <1>3. f.top = answer /\ f.active = name /\ f.profiles = profiles
    BY DEF saveProfile
  <1> HIDE DEF profiles
  <1>4. f \in File
    <2> HIDE DEF name
    <2>1. f = [top |-> answer, active |-> name, profiles |-> profiles]
      BY DEF saveProfile, name, profiles
    <2> HIDE DEF f
    <2> QED BY <1>1, <1>2, <2>1 DEF File
  <1> HIDE DEF f
  <1>5. name \in Saved(f) /\ f.top = f.profiles[f.active]
    BY <1>1, <1>2, <1>3, ProfilesAssumption DEF Saved
  <1>6. \A n \in Saved(f) : profileName(f.profiles[n].site) = n
    BY <1>1, <1>2, <1>3 DEF Saved
  <1>7. FileOK(f)
    BY <1>3, <1>4, <1>5, <1>6 DEF FileOK
  <1> QED BY <1>1, <1>3, <1>7 DEF f, profiles

-----------------------------------------------------------------------------
LEMMA InitIInv == Init => IInv
  <1> SUFFICES ASSUME Init PROVE IInv
    OBVIOUS
  <1> DEFINE none == [n \in Names |-> None]
  <1>1. none \in [Names -> Profile \union {None}] /\ Empty.profiles = none
    BY DEF Empty
  <1>2. \/ config = Missing /\ early = None
        \/ /\ FileOK(config) /\ config.active = "" /\ config.top = early
           /\ config.profiles = none
    <2> SUFFICES ASSUME early \in Profile,
                        config = [top |-> early, active |-> "",
                                  profiles |-> none]
                 PROVE  /\ FileOK(config) /\ config.active = ""
                        /\ config.top = early /\ config.profiles = none
      BY <1>1, Apart DEF Init
    <2> QED BY <1>1 DEF File, FileOK, Saved
  <1>3. \A c \in Clients : clients[c] = Missing
                            \/ clients[c] = [jira |-> None, others |-> {}]
    BY DEF Init
  <1>4. clients \in [Clients -> {Missing, Cut} \union Entries]
    <2>1. [jira |-> None, others |-> {}] \in Entries
      BY DEF Entries
    <2> QED BY <2>1 DEF Init
  <1>5. TypeOK
    BY <1>1, <1>2, <1>4 DEF Init, TypeOK, Command, Idle
  <1>6. ConfigInv
    <2>1. Current = {} /\ "" \notin Names
      BY Apart DEF Init, Current
    <2>2. config # Cut
      BY <1>2, Apart DEF FileOK
    <2>3. Reading => Accounted(config) /\ IsKnown(config.active)
      BY <1>1, <1>2, <2>1 DEF Reading, Accounted, Saved, IsKnown
    <2>4. Reading => Complete(config) /\ config.top = early
      BY <1>2, <2>1 DEF Reading, Complete
    <2>5. config = Missing => saved = {} /\ early = None
      BY <1>2, Apart DEF Init, FileOK
    <2>6. saved = {}
      BY DEF Init
    <2> QED BY <2>2, <2>3, <2>4, <2>5, <2>6 DEF ConfigInv
  <1>7. SaveInv /\ TargetInv
    BY DEF Init, SaveInv, TargetInv, Idle
  <1>8. ClientInv
    <2>1. ASSUME NEW c \in Clients, clients[c] = [jira |-> None, others |-> {}]
          PROVE  IsKnown(clients[c].jira)
      <3>1. clients[c].jira = None
        BY <2>1
      <3> QED BY <3>1, Apart DEF IsKnown
    <2> QED BY <1>3, <2>1 DEF ClientInv
  <1> QED BY <1>5, <1>6, <1>7, <1>8 DEF IInv

-----------------------------------------------------------------------------
(* The commands keep it *)

LEMMA CommandKinds ==
    ASSUME cmd \in Command
    PROVE  /\ cmd.at \in {"save", "save.write", "saved"} => cmd \in Saving
           /\ cmd.at \in {"targets", "truncate", "write"} => cmd \in Registering
  <1>1. CASE cmd = Idle
    <2>1. cmd.at = "idle"
      BY <1>1 DEF Idle
    <2> QED BY <2>1
  <1>2. CASE cmd \in Saving
    BY <1>2 DEF Saving
  <1>3. CASE cmd \in Registering
    BY <1>3 DEF Registering
  <1> QED BY <1>1, <1>2, <1>3 DEF Command

LEMMA StepSetup ==
    ASSUME IInv, NEW env \in Names \union {""}, setup(env) PROVE IInv'
  <1>1. PICK loaded \in IF Load = {} THEN {Empty}
                        ELSE activeProfileFile(config, env) :
        \E file \in {loaded}
              \union {profileFile(loaded, n) : n \in Saved(loaded)}
              \union IF Saved(loaded) = {} THEN {}
                     ELSE {newProfileFile(loaded)},
          answer \in Profile :
            cmd' = [at |-> "save", file |-> saveProfile(file, answer)]
    BY DEF setup
  <1>2. /\ FileOK(loaded) /\ Accounted(loaded)
        /\ "config" \notin torn => Complete(loaded)
    <2>1. CASE Load = {}
      <3>1. loaded = Empty /\ ~ Reading
        BY <1>1, <2>1 DEF Load, Reading
      <3>2. FileOK(Empty)
        BY DEF FileOK, Empty, File, Saved
      <3>3. Accounted(Empty)
        BY DEF Accounted, Empty, Saved
      <3>4. "config" \notin torn => Complete(Empty)
        <4>1. "config" \notin torn => saved = {}
          BY <3>1 DEF setup, IInv, ConfigInv, Idle, Reading
        <4> QED BY <4>1 DEF Complete, Current
      <3> QED BY <3>1, <3>2, <3>3, <3>4
    <2>2. CASE Load # {}
      <3>1. Reading /\ loaded \in activeProfileFile(config, env)
        BY <1>1, <2>2 DEF Load, Reading
      <3>2. FileOK(config) /\ config \in File
        BY <3>1 DEF IInv, TypeOK, Reading, FileOK
      <3>3. FileOK(loaded) /\ loaded.profiles = config.profiles
        BY <3>1, <3>2, Chosen
      <3> QED BY <3>1, <3>3 DEF IInv, ConfigInv, Accounted, Complete, Saved
    <2> QED BY <2>1, <2>2
  <1>3. PICK file \in {loaded}
              \union {profileFile(loaded, n) : n \in Saved(loaded)}
              \union IF Saved(loaded) = {} THEN {}
                     ELSE {newProfileFile(loaded)},
             answer \in Profile :
            cmd' = [at |-> "save", file |-> saveProfile(file, answer)]
    BY <1>1
  <1>4. file \in File /\ file.profiles = loaded.profiles
    <2>1. CASE file = loaded
      BY <1>2, <2>1 DEF FileOK
    <2>2. ASSUME NEW n \in Names, file = profileFile(loaded, n)
          PROVE  file \in File /\ file.profiles = loaded.profiles
      BY <1>2, <2>2 DEF FileOK, File, profileFile
    <2>3. CASE file = newProfileFile(loaded)
      BY <1>2, <2>3 DEF FileOK, File, newProfileFile
    <2> QED BY <1>3, <2>1, <2>2, <2>3 DEF Saved
  <1>5. \A n \in Saved(file) : profileName(file.profiles[n].site) = n
    BY <1>2, <1>4 DEF FileOK, Saved
  <1> DEFINE f == saveProfile(file, answer)
  <1>6. /\ FileOK(f) /\ f.active \in Names /\ f.top = answer
        /\ f.profiles = [file.profiles EXCEPT ![f.active] = answer]
    BY <1>3, <1>4, <1>5, SavedFile
  <1> HIDE DEF f
  <1>7. cmd' = [at |-> "save", file |-> f]
    BY <1>3 DEF f
  <1>8. f.profiles[f.active] = f.top
        /\ \A n \in Names \ {f.active} : f.profiles[n] = loaded.profiles[n]
    BY <1>4, <1>6 DEF File
  <1>9. TypeOK'
    <2>1. cmd' \in Command
      BY <1>6, <1>7 DEF Command, Saving, FileOK
    <2> QED BY <2>1 DEF IInv, TypeOK, setup, FileOK, Saved, histories
  <1>10. ConfigInv'
    BY <1>7
       DEF IInv, ConfigInv, setup, Idle, Reading, Accounted, Complete, IsKnown,
           Current, histories
  <1>11. SaveInv'
    <2>1. \A n \in Saved(f) \ {f.active} : f.profiles[n] \in Current
      BY <1>2, <1>8 DEF Accounted, Saved
    <2>2. "config" \notin torn =>
              \A p \in Current : profileName(p.site) # f.active =>
                  f.profiles[profileName(p.site)] = p
      <3>1. \A p \in Current : profileName(p.site) \in Names
        BY NameOfSite DEF IInv, TypeOK, Current, Profile
      <3> QED BY <1>2, <1>8, <3>1 DEF Complete
    <2>3. cmd'.file = f
      BY <1>7
    <2>4. Current' = Current /\ torn' = torn
      BY DEF setup, histories, Current
    <2> QED BY <1>6, <1>8, <2>1, <2>2, <2>3, <2>4 DEF SaveInv
  <1>12. TargetInv' /\ ClientInv'
    BY <1>7 DEF IInv, TargetInv, ClientInv, IsKnown, Current, histories, setup
  <1> QED BY <1>9, <1>10, <1>11, <1>12 DEF IInv

LEMMA StepSaveTruncate ==
    ASSUME IInv, saveTruncate PROVE IInv'
  <1>1. /\ cmd' = [at |-> "save.write", file |-> cmd.file]
        /\ cmd.at = "save" /\ config' = Cut
        /\ UNCHANGED histories /\ torn' = torn /\ clients' = clients
        /\ made' = made
    BY DEF saveTruncate
  <1>2. cmd'.at = "save.write" /\ cmd'.file = cmd.file
    BY <1>1
  <1>3. TypeOK'
    <2>1. cmd \in Saving
      BY <1>1, CommandKinds DEF IInv, TypeOK
    <2>2. cmd' \in Command
      BY <1>1, <2>1 DEF Command, Saving
    <2> QED BY <1>1, <2>2 DEF IInv, TypeOK, histories
  <1>4. ConfigInv'
    BY <1>1, <1>2, ProfilesAssumption
       DEF IInv, ConfigInv, Reading, IsKnown, Current, histories
  <1>5. SaveInv'
    BY <1>1, <1>2 DEF IInv, SaveInv, Current, histories
  <1>6. TargetInv' /\ ClientInv'
    BY <1>1, <1>2 DEF IInv, TargetInv, ClientInv, IsKnown, Current, histories
  <1> QED BY <1>3, <1>4, <1>5, <1>6 DEF IInv

(* What was known stays known. *)
LEMMA StepSaveWrite ==
    ASSUME IInv, saveWrite PROVE IInv'
  <1> DEFINE file == cmd.file
             top == cmd.file.top
             name == cmd.file.active
  <1>1. /\ cmd.at = "save.write" /\ cmd' = [at |-> "saved", file |-> file]
        /\ config' = file /\ early' = None
        /\ saved' = OtherURLs(top) \union {top}
        /\ replaced' = {p \in OtherURLs(top) :
                           p \in replaced \/ profileName(p.site) = name}
        /\ torn' = torn /\ clients' = clients /\ made' = made
    BY DEF saveWrite
  <1>2. cmd'.at = "saved" /\ cmd'.file = file
    BY <1>1
  <1>3. cmd \in Saving
    BY <1>1, CommandKinds DEF IInv, TypeOK
  <1>4. /\ FileOK(file) /\ name \in Names /\ top \in Profile
        /\ file.profiles[name] = top
        /\ \A n \in Saved(file) \ {name} : file.profiles[n] \in Current
        /\ "config" \notin torn =>
               \A p \in Current : profileName(p.site) # name =>
                   file.profiles[profileName(p.site)] = p
    BY <1>1 DEF IInv, SaveInv
  <1>5. profileName(top.site) = name
    BY <1>4, Apart DEF FileOK, Saved
  <1>6. file.active = name /\ file.top = top
    OBVIOUS
  <1> HIDE DEF file, top, name
  <1>7. Current' = {top} \union
            {p \in Current : p.site # top.site /\ profileName(p.site) # name}
    BY <1>1 DEF Current, OtherURLs
  <1>8. ASSUME NEW n, IsKnown(n) PROVE IsKnown(n)'
    <2> SUFFICES ASSUME n \in Names
                 PROVE  \E p \in Current' : profileName(p.site) = n
      BY DEF IsKnown, Current, histories
    <2>1. PICK p \in Current : profileName(p.site) = n
      BY <1>8 DEF IsKnown, Current, histories
    <2>2. CASE n = name
      BY <1>5, <1>7, <2>2
    <2>3. CASE n # name
      <3>1. p.site # top.site
        BY <1>5, <2>1, <2>3
      <3> QED BY <1>7, <2>1, <2>3, <3>1
    <2> QED BY <2>2, <2>3
  <1>9. TypeOK'
    <2>1. cmd' \in Command
      BY <1>1, <1>4 DEF FileOK, Command, Saving
    <2>2. OtherURLs(top) \subseteq Profile
      BY DEF OtherURLs, IInv, TypeOK
    <2>3. saved' \subseteq Profile /\ replaced' \subseteq saved'
      BY <1>1, <1>4, <2>2
    <2> QED BY <1>1, <1>4, <2>1, <2>3 DEF IInv, TypeOK
  <1>10. ConfigInv'
    <2>1. config' = file /\ file \in File /\ file \notin {Missing, Cut}
      BY <1>1, <1>4, Apart DEF FileOK
    <2>2. ASSUME NEW n \in Saved(file) PROVE file.profiles[n] \in Current'
      <3>1. CASE n = name
        BY <1>4, <1>7, <3>1
      <3>2. CASE n # name
        <4>1. /\ file.profiles[n] \in Current
              /\ profileName(file.profiles[n].site) = n
          BY <1>4, <2>2, <3>2 DEF FileOK
        <4>2. file.profiles[n].site # top.site
          BY <1>5, <3>2, <4>1
        <4> QED BY <1>7, <3>2, <4>1, <4>2
      <3> QED BY <3>1, <3>2
    <2>3. Accounted(config)'
      BY <2>1, <2>2 DEF Accounted, Saved
    <2>4. IsKnown(config.active)'
      <3>1. config'.active = name
        BY <1>6, <2>1
      <3> QED BY <1>5, <1>7, <3>1 DEF IsKnown, Current, histories
    <2>5. "config" \notin torn => Complete(config)'
      BY <1>4, <1>5, <1>7, <2>1 DEF Complete
    <2>6. ASSUME NEW p \in saved' PROVE IsKnown(profileName(p.site))'
      <3>1. CASE p = top
        BY <1>5, <1>7, <3>1 DEF IsKnown
      <3>2. CASE p \in saved
        BY <1>8, <3>2 DEF IInv, ConfigInv
      <3> QED BY <1>1, <2>6, <3>1, <3>2 DEF OtherURLs
    <2> QED BY <1>1, <2>1, <2>3, <2>4, <2>5, <2>6 DEF ConfigInv, Reading
  <1>11. SaveInv'
    BY <1>2 DEF SaveInv
  <1>12. TargetInv'
    BY <1>2, <1>4, <1>5, <1>6, <1>7 DEF TargetInv, IsKnown, Current, histories
  <1>13. ClientInv'
    BY <1>1, <1>8 DEF IInv, ClientInv
  <1> QED BY <1>9, <1>10, <1>11, <1>12, <1>13 DEF IInv

-----------------------------------------------------------------------------
(* Registering leaves the connections alone *)

LEMMA StepRegistering ==
    ASSUME IInv, cmd.at # "save.write",
           UNCHANGED <<config, histories, made, torn>>,
           clients' \in [Clients -> {Missing, Cut} \union Entries],
           cmd' = Idle \/ cmd' \in Registering,
           TargetInv', ClientInv'
    PROVE  IInv'
  <1>1. cmd'.at \notin {"save", "save.write", "saved"}
    <2>1. CASE cmd' = Idle
      <3>1. cmd'.at = "idle"
        BY <2>1 DEF Idle
      <3> QED BY <3>1
    <2>2. CASE cmd' \in Registering
      BY <2>2 DEF Registering
    <2> QED BY <2>1, <2>2
  <1>2. TypeOK'
    BY DEF IInv, TypeOK, Command, histories
  <1>3. ConfigInv'
    BY DEF IInv, ConfigInv, Reading, Accounted, Complete, IsKnown, Current,
           histories
  <1>4. SaveInv'
    BY <1>1 DEF SaveInv
  <1> QED BY <1>2, <1>3, <1>4 DEF IInv

LEMMA StepTargets ==
    ASSUME IInv, cmd.at # "save.write",
           UNCHANGED <<config, clients, histories, made, torn>>,
           NEW tool \in {"setup", "install-mcp"},
           NEW name \in Names \union {""},
           IsKnown(name),
           NEW update \in SUBSET Clients, NEW remove \in SUBSET Clients,
           cmd' = Targets(tool, name, update, remove)
    PROVE  IInv'
  <1>1. cmd' \in Registering
    BY DEF Targets, Registering, Detected
  <1>2. cmd'.at = "targets" /\ cmd'.name = name
    BY DEF Targets
  <1>3. TargetInv'
    BY <1>2 DEF TargetInv, IsKnown, Current, histories
  <1>4. ClientInv'
    BY DEF IInv, ClientInv, IsKnown, Current, histories
  <1> QED BY <1>1, <1>3, <1>4, StepRegistering DEF IInv, TypeOK

LEMMA StepIdle ==
    ASSUME IInv, cmd.at # "save.write", cmd' = Idle,
           UNCHANGED <<config, clients, histories, made, torn>>
    PROVE  IInv'
  <1>1. TargetInv'
    BY DEF TargetInv, Idle
  <1>2. ClientInv'
    BY DEF IInv, ClientInv, IsKnown, Current, histories
  <1> QED BY <1>1, <1>2, StepRegistering DEF IInv, TypeOK

LEMMA StepSetupSelect ==
    ASSUME IInv, setupSelect PROVE IInv'
  <1>1. cmd.at = "saved" /\ UNCHANGED <<config, clients, histories, made, torn>>
    BY DEF setupSelect
  <1>2. CASE cmd' = Idle
    BY <1>1, <1>2, StepIdle
  <1>3. ASSUME NEW selected \in SUBSET Detected,
               cmd' = Targets("setup", cmd.file.active, selected,
                              Removals(selected))
        PROVE  IInv'
    <2>1. cmd.file.active \in Names /\ IsKnown(cmd.file.active)
      BY <1>1 DEF IInv, TargetInv
    <2>2. selected \in SUBSET Clients /\ Removals(selected) \in SUBSET Clients
      BY DEF Detected, Removals, Configured
    <2> QED BY <1>1, <1>3, <2>1, <2>2, StepTargets
  <1> QED BY <1>2, <1>3 DEF setupSelect

LEMMA StepInstallMCP ==
    ASSUME IInv, NEW env \in Names \union {""}, installMCP(env) PROVE IInv'
  <1>1. cmd = Idle /\ UNCHANGED <<config, clients, histories, made, torn>>
    BY DEF installMCP
  <1>2. cmd.at # "save.write"
    BY <1>1 DEF Idle
  <1>3. PICK loaded \in Load : \E file \in activeProfileFile(loaded, env) :
            \E selected \in SUBSET Detected :
                cmd' = Targets("install-mcp", file.active, selected, {})
    BY DEF installMCP
  <1>4. PICK file \in activeProfileFile(loaded, env) :
            \E selected \in SUBSET Detected :
                cmd' = Targets("install-mcp", file.active, selected, {})
    BY <1>3
  <1>5. PICK selected \in SUBSET Detected :
            cmd' = Targets("install-mcp", file.active, selected, {})
    BY <1>4
  <1>6. loaded = config /\ Reading
    BY DEF Load, Reading
  <1>7. FileOK(config) /\ config \in File
    BY <1>6 DEF IInv, TypeOK, Reading, FileOK
  <1>8. /\ FileOK(file)
        /\ file.active = config.active \/ file.active \in Saved(config)
    BY <1>6, <1>7, Chosen
  <1>9. file.active \in Names \union {""} /\ IsKnown(file.active)
    <2>1. file.active \in Names \union {""}
      BY <1>8 DEF FileOK, File
    <2>2. CASE file.active = config.active
      BY <1>6, <2>1, <2>2 DEF IInv, ConfigInv
    <2>3. CASE file.active \in Saved(config)
      BY <1>6, <1>7, <2>1, <2>3
         DEF IInv, ConfigInv, Accounted, FileOK, IsKnown
    <2> QED BY <1>8, <2>1, <2>2, <2>3
  <1>10. selected \in SUBSET Clients /\ {} \in SUBSET Clients
    BY DEF Detected
  <1> QED BY <1>1, <1>2, <1>5, <1>9, <1>10, StepTargets

LEMMA StepTargetRead ==
    ASSUME IInv, NEW c \in Clients, targetRead(c) PROVE IInv'
  <1>1. /\ cmd.at = "targets"
        /\ cmd' = [cmd EXCEPT !.at = "truncate", !.target = c, !.text = Text(c)]
        /\ UNCHANGED <<config, clients, histories, made, torn>>
    BY DEF targetRead
  <1>2. cmd \in Registering
    BY <1>1, CommandKinds DEF IInv, TypeOK
  <1>3. IsKnown(cmd.name) /\ cmd.name \in Names \union {""}
    BY <1>1, <1>2 DEF IInv, TargetInv, Registering
  <1>4. Text(c) \in Entries
    BY <1>3, ProfilesAssumption DEF IInv, TypeOK, Text, OthersIn, Entries
  <1>5. IsKnown(Text(c).jira)
    BY <1>3, Apart DEF Text, IsKnown
  <1> HIDE DEF Text
  <1>6. /\ cmd' \in Registering /\ cmd'.at = "truncate" /\ cmd'.target = c
        /\ cmd'.text = Text(c) /\ cmd'.name = cmd.name
    BY <1>1, <1>2, <1>4 DEF Registering
  <1>7. TargetInv'
    BY <1>1, <1>3, <1>4, <1>5, <1>6 DEF TargetInv, IsKnown, Current, histories
  <1>8. ClientInv'
    BY <1>1 DEF IInv, ClientInv, IsKnown, Current, histories
  <1> QED BY <1>1, <1>6, <1>7, <1>8, StepRegistering DEF IInv, TypeOK

LEMMA StepTargetTruncate ==
    ASSUME IInv, targetTruncate PROVE IInv'
  <1>1. /\ cmd.at = "truncate" /\ cmd' = [cmd EXCEPT !.at = "write"]
        /\ clients' = [clients EXCEPT ![cmd.target] = Cut]
        /\ UNCHANGED <<config, histories, made, torn>>
    BY DEF targetTruncate
  <1>2. cmd \in Registering
    BY <1>1, CommandKinds DEF IInv, TypeOK
  <1>3. /\ cmd' \in Registering /\ cmd'.at = "write"
        /\ cmd'.target = cmd.target /\ cmd'.text = cmd.text
        /\ cmd'.name = cmd.name
    BY <1>1, <1>2 DEF Registering
  <1>4. TargetInv'
    BY <1>1, <1>3 DEF IInv, TargetInv, IsKnown, Current, histories
  <1>5. ClientInv'
    BY <1>1 DEF IInv, TypeOK, ClientInv, IsKnown, Current, histories
  <1>6. clients' \in [Clients -> {Missing, Cut} \union Entries]
    BY <1>1 DEF IInv, TypeOK
  <1> QED BY <1>1, <1>3, <1>4, <1>5, <1>6, StepRegistering

LEMMA StepTargetWrite ==
    ASSUME IInv, targetWrite PROVE IInv'
  <1>1. /\ cmd.at = "write"
        /\ cmd' = [cmd EXCEPT !.at = "targets", !.target = None,
                              !.text = None, !.update = @ \ {cmd.target},
                              !.remove = @ \ {cmd.target},
                              !.changed = @ \ {cmd.target}]
        /\ clients' = [clients EXCEPT ![cmd.target] = cmd.text]
        /\ UNCHANGED <<config, histories, made, torn>>
    BY DEF targetWrite
  <1>2. cmd \in Registering
    BY <1>1, CommandKinds DEF IInv, TypeOK
  <1>3. /\ cmd' \in Registering /\ cmd'.at = "targets"
        /\ cmd'.name = cmd.name
    BY <1>1, <1>2 DEF Registering
  <1>4. /\ cmd.target \in Clients /\ cmd.text \in Entries
        /\ IsKnown(cmd.text.jira) /\ IsKnown(cmd.name)
    BY <1>1 DEF IInv, TargetInv
  <1>5. TargetInv'
    BY <1>1, <1>3, <1>4 DEF TargetInv, IsKnown, Current, histories
  <1>6. clients' \in [Clients -> {Missing, Cut} \union Entries]
    BY <1>1, <1>4 DEF IInv, TypeOK
  <1>7. ClientInv'
    BY <1>1, <1>4 DEF IInv, TypeOK, ClientInv, IsKnown, Current, histories
  <1> QED BY <1>1, <1>3, <1>5, <1>6, <1>7, StepRegistering

-----------------------------------------------------------------------------
(* Whatever stops a command, and whoever else writes a file. *)

LEMMA StepFinish ==
    ASSUME IInv, finish PROVE IInv'
  BY StepIdle DEF finish, Finished

LEMMA StepStop ==
    ASSUME IInv, Stop PROVE IInv'
  <1>1. /\ cmd' = Idle /\ torn' = torn \union Writing
        /\ UNCHANGED <<config, clients, histories, made>>
    BY DEF Stop
  <1>2. cmd'.at = "idle"
    BY <1>1 DEF Idle
  <1>3. Writing \subseteq Clients \union {"config"}
    BY DEF IInv, TargetInv, Writing
  <1>4. TypeOK'
    BY <1>1, <1>3 DEF IInv, TypeOK, Command, histories
  <1>5. "config" \notin torn' => "config" \notin torn /\ cmd.at # "save.write"
    BY <1>1 DEF Writing
  <1>6. ConfigInv'
    BY <1>1, <1>5
       DEF IInv, ConfigInv, Reading, Accounted, Complete, IsKnown, Current,
           histories
  <1>7. SaveInv' /\ TargetInv'
    BY <1>2 DEF SaveInv, TargetInv
  <1>8. ClientInv'
    BY <1>1 DEF IInv, ClientInv, IsKnown, Current, histories
  <1> QED BY <1>4, <1>6, <1>7, <1>8 DEF IInv

(* The owner writes an entry that names a connection saved before. *)
LEMMA RememberedIsKnown ==
    ASSUME IInv, NEW c \in Clients, NEW entry \in Remembered(c)
    PROVE  entry \in Names \union {"", None} /\ IsKnown(entry)
  <1>1. CASE entry = None
    BY <1>1, Apart DEF IsKnown
  <1>2. CASE entry = EntryOf(c)
    BY <1>2, Apart DEF IInv, TypeOK, ClientInv, EntryOf, Entries, IsKnown
  <1>3. ASSUME NEW p \in saved, entry = profileName(p.site)
        PROVE  entry \in Names \union {"", None} /\ IsKnown(entry)
    <2>1. entry \in Names
      BY <1>3, NameOfSite DEF IInv, TypeOK, Profile
    <2> QED BY <1>3, <2>1 DEF IInv, ConfigInv
  <1> QED BY <1>1, <1>2, <1>3 DEF Remembered

(* What a command knows of it is a history only. *)
LEMMA ElsewhereCommand ==
    ASSUME IInv, NEW c \in Clients, NEW servers \in SUBSET Servers,
           NEW entry, Elsewhere(c, servers, entry)
    PROVE  /\ cmd' \in Command /\ cmd'.at = cmd.at
           /\ cmd.at \in {"save", "save.write", "saved"} => cmd' = cmd
           /\ cmd.at \in {"targets", "truncate", "write"} =>
                  /\ cmd'.update = cmd.update /\ cmd'.remove = cmd.remove
                  /\ cmd'.selected = cmd.selected
                  /\ cmd'.detected = cmd.detected
                  /\ cmd'.name = cmd.name /\ cmd'.tool = cmd.tool
                  /\ cmd'.target = cmd.target /\ cmd'.text = cmd.text
                  /\ cmd'.changed = IF entry # EntryOf(c)
                                    THEN cmd.changed \union {c}
                                    ELSE cmd.changed
  <1>1. CASE cmd.at \notin {"targets", "truncate", "write"}
    BY <1>1 DEF Elsewhere, IInv, TypeOK
  <1>2. CASE cmd.at \in {"targets", "truncate", "write"}
    <2>1. cmd \in Registering
      BY <1>2, CommandKinds DEF IInv, TypeOK
    <2>2. CASE entry = EntryOf(c)
      <3>1. cmd' = cmd
        BY <2>2 DEF Elsewhere
      <3> QED BY <1>2, <2>2, <3>1 DEF IInv, TypeOK
    <2>3. CASE entry # EntryOf(c)
      <3>1. cmd' = [cmd EXCEPT !.changed = @ \union {c}]
        BY <1>2, <2>3 DEF Elsewhere
      <3>2. cmd' \in Registering
        BY <2>1, <3>1 DEF Registering
      <3> QED BY <1>2, <2>1, <2>3, <3>1, <3>2 DEF Registering, Command
    <2> QED BY <2>2, <2>3
  <1> QED BY <1>1, <1>2

LEMMA StepElsewhere ==
    ASSUME IInv, NEW c \in Clients, NEW servers \in SUBSET Servers,
           NEW entry \in Remembered(c), Elsewhere(c, servers, entry)
    PROVE  IInv'
  <1> DEFINE text == [jira |-> entry, others |-> servers]
  <1>1. /\ clients' = [clients EXCEPT ![c] = text]
        /\ made' = [made EXCEPT ![c] = servers]
        /\ UNCHANGED <<config, histories>>
    BY DEF Elsewhere
  <1>2. /\ torn' \subseteq torn \union {c}
        /\ "config" \in torn' <=> "config" \in torn
    BY Apart DEF Elsewhere
  <1>3. text \in Entries /\ IsKnown(entry) /\ text.jira = entry
    BY RememberedIsKnown DEF Entries
  <1> HIDE DEF text
  <1>4. /\ cmd' \in Command /\ cmd'.at = cmd.at
        /\ cmd.at \in {"save", "save.write", "saved"} => cmd' = cmd
        /\ cmd.at \in {"targets", "truncate", "write"} =>
               /\ cmd'.name = cmd.name
               /\ cmd'.target = cmd.target /\ cmd'.text = cmd.text
    BY ElsewhereCommand
  <1>5. TypeOK'
    BY <1>1, <1>2, <1>3, <1>4 DEF IInv, TypeOK, histories
  <1>6. ConfigInv'
    BY <1>1, <1>2, <1>4
       DEF IInv, ConfigInv, Reading, Accounted, Complete, Saved,
           IsKnown, Current, histories
  <1>7. SaveInv'
    BY <1>1, <1>2, <1>4 DEF IInv, SaveInv, Current, histories
  <1>8. TargetInv'
    BY <1>1, <1>4 DEF IInv, TargetInv, IsKnown, Current, histories
  <1>9. ClientInv'
    BY <1>1, <1>3
       DEF IInv, TypeOK, ClientInv, IsKnown, Current, histories
  <1> QED BY <1>5, <1>6, <1>7, <1>8, <1>9 DEF IInv

LEMMA StepIInv == IInv /\ [Next]_vars => IInv'
  <1> SUFFICES ASSUME IInv, [Next]_vars PROVE IInv'
    OBVIOUS
  <1>1. ASSUME NEW env \in Names \union {""}, setup(env) \/ installMCP(env)
        PROVE  IInv'
    BY <1>1, StepSetup, StepInstallMCP
  <1>2. CASE saveTruncate
    BY <1>2, StepSaveTruncate
  <1>3. CASE saveWrite
    BY <1>3, StepSaveWrite
  <1>4. CASE setupSelect
    BY <1>4, StepSetupSelect
  <1>5. ASSUME NEW c \in Clients, targetRead(c) PROVE IInv'
    BY <1>5, StepTargetRead
  <1>6. CASE targetTruncate
    BY <1>6, StepTargetTruncate
  <1>7. CASE targetWrite
    BY <1>7, StepTargetWrite
  <1>8. CASE finish
    BY <1>8, StepFinish
  <1>9. CASE Stop
    BY <1>9, StepStop
  <1>10. ASSUME NEW c \in Clients, NEW servers \in SUBSET Servers,
                NEW entry \in Remembered(c), Elsewhere(c, servers, entry)
         PROVE  IInv'
    BY <1>10, StepElsewhere
  <1>11. CASE UNCHANGED vars
    BY <1>11 DEF vars, IInv, TypeOK, ConfigInv, SaveInv, TargetInv, ClientInv,
                 Reading, Accounted, Complete, IsKnown, Current, Saved,
                 histories
  <1> QED BY <1>1, <1>2, <1>3, <1>4, <1>5, <1>6, <1>7, <1>8, <1>9, <1>10,
             <1>11 DEF Next

THEOREM Invariance == Spec => []IInv
  BY InitIInv, StepIInv, PTL DEF Spec

-----------------------------------------------------------------------------
(* What follows *)

(* Every state is typed, and config.json holds each connection under the   *)
(* name of its host, with the active one on top.                           *)
THEOREM TypeCorrect == Spec => []TypeOK
  <1>1. IInv => TypeOK
    BY DEF IInv
  <1> QED BY <1>1, Invariance, PTL

(* No setup, however many and in whatever order, loses the connection last *)
(* saved for a URL, or the one from before there were profiles while none  *)
(* is saved, unless one is killed while it writes config.json or saves     *)
(* another URL of the same host.                                           *)
THEOREM ConnectionsSafe == Spec => []ConnectionsKept
  <1>1. IInv => ConnectionsKept
    BY DEF IInv, ConfigInv, Reading, Accounted, Complete, Current, Saved,
           ConnectionsKept, Writing
  <1> QED BY <1>1, Invariance, PTL

(* A client registered with a profile is served by the connection of that  *)
(* name and by no other.                                                   *)
THEOREM ClientsSafe == Spec => []ClientsServed
  <1>1. ASSUME IInv PROVE ClientsServed
    <2> SUFFICES ASSUME NEW c \in Clients, clients[c] \notin {Missing, Cut},
                        clients[c].jira \notin {None, ""},
                        "config" \notin torn,
                        NEW loaded \in Load,
                        NEW file \in activeProfileFile(loaded, clients[c].jira)
                 PROVE  /\ file.top # None
                        /\ profileName(file.top.site) = clients[c].jira
      BY DEF ClientsServed
    <2> DEFINE name == clients[c].jira
    <2>1. loaded = config /\ Reading
      BY DEF Load, Reading
    <2>2. name \in Names /\ IsKnown(name)
      BY <1>1 DEF IInv, TypeOK, ClientInv, Entries
    <2>3. PICK p \in Current : profileName(p.site) = name
      BY <2>2 DEF IsKnown
    <2>4. p \in Profile /\ config.profiles[name] = p
      BY <1>1, <2>1, <2>3
         DEF IInv, TypeOK, ConfigInv, Current, Complete
    <2>5. FileOK(config) /\ config \in File /\ name \in Saved(config)
      BY <1>1, <2>1, <2>2, <2>4, Apart
         DEF IInv, TypeOK, Reading, FileOK, Saved
    <2>6. file.top = config.profiles[name]
      BY <2>1, <2>5, ChosenSaved
    <2> QED BY <2>5, <2>6 DEF FileOK, Saved
  <1> QED BY <1>1, Invariance, PTL

-----------------------------------------------------------------------------
(* The other servers of a client *)

(* Outside torn, a file that was never written has no servers, one cut     *)
(* short is being filled, and what is about to be written is what its      *)
(* owner put there.                                                        *)
OthersInv ==
    /\ \A c \in Clients \ torn :
           /\ clients[c] = Missing => made[c] = {}
           /\ clients[c] = Cut => cmd.at = "write" /\ cmd.target = c
           /\ clients[c] \notin {Missing, Cut} => clients[c].others = made[c]
    /\ cmd.at \in {"truncate", "write"} =>
           cmd.target \in Clients
           /\ (cmd.target \notin torn => cmd.text.others = made[cmd.target])

LEMMA InitOthers == Init => OthersInv
  <1> SUFFICES ASSUME Init PROVE OthersInv
    OBVIOUS
  <1>1. cmd.at = "idle"
    BY DEF Init, Idle
  <1>2. ASSUME NEW c \in Clients
        PROVE  /\ clients[c] = Missing => made[c] = {}
               /\ clients[c] # Cut
               /\ clients[c] \notin {Missing, Cut} =>
                      clients[c].others = made[c]
    <2>1. made[c] = {}
      BY DEF Init
    <2>2. CASE clients[c] = Missing
      BY <2>1, <2>2, Apart
    <2>3. CASE clients[c] = [jira |-> None, others |-> {}]
      <3>1. clients[c] \in Entries
        BY <2>3 DEF Entries
      <3>2. clients[c].others = {}
        BY <2>3
      <3> QED BY <2>1, <3>1, <3>2, Apart
    <2> QED BY <2>2, <2>3 DEF Init
  <1> QED BY <1>1, <1>2 DEF OthersInv

(* A step of a command that leaves the clients' files alone and plans no   *)
(* other write.                                                            *)
LEMMA OthersApart ==
    ASSUME OthersInv, UNCHANGED <<clients, made, torn>>,
           cmd.at # "write", cmd'.at \notin {"truncate", "write"}
    PROVE  OthersInv'
  BY DEF OthersInv

LEMMA OthersRead ==
    ASSUME IInv, OthersInv, NEW c \in Clients, targetRead(c) PROVE OthersInv'
  <1>1. /\ cmd.at = "targets"
        /\ cmd' = [cmd EXCEPT !.at = "truncate", !.target = c, !.text = Text(c)]
        /\ UNCHANGED <<clients, made, torn>>
    BY DEF targetRead
  <1>2. cmd \in Registering
    BY <1>1, CommandKinds DEF IInv, TypeOK
  <1> DEFINE text == Text(c)
  <1>3. c \notin torn => text.others = made[c]
    BY <1>1 DEF OthersInv, Text, OthersIn
  <1> HIDE DEF text
  <1>4. cmd'.at = "truncate" /\ cmd'.target = c /\ cmd'.text = text
    BY <1>1, <1>2 DEF Registering, text
  <1> QED BY <1>1, <1>3, <1>4 DEF OthersInv

LEMMA OthersTruncate ==
    ASSUME IInv, OthersInv, targetTruncate PROVE OthersInv'
  <1>1. /\ cmd.at = "truncate" /\ cmd' = [cmd EXCEPT !.at = "write"]
        /\ clients' = [clients EXCEPT ![cmd.target] = Cut]
        /\ UNCHANGED <<made, torn>>
    BY DEF targetTruncate
  <1>2. cmd \in Registering
    BY <1>1, CommandKinds DEF IInv, TypeOK
  <1>3. cmd'.at = "write" /\ cmd'.target = cmd.target /\ cmd'.text = cmd.text
    BY <1>1, <1>2 DEF Registering
  <1>4. /\ cmd.target \in Clients /\ clients'[cmd.target] = Cut
        /\ \A d \in Clients \ {cmd.target} : clients'[d] = clients[d]
    BY <1>1 DEF IInv, TypeOK, TargetInv
  <1>5. \A d \in Clients \ {cmd.target} : d \notin torn => clients[d] # Cut
    BY <1>1 DEF OthersInv
  <1>6. ASSUME NEW c \in Clients \ torn
        PROVE  /\ clients'[c] = Missing => made[c] = {}
               /\ clients'[c] = Cut => c = cmd.target
               /\ clients'[c] \notin {Missing, Cut} =>
                      clients'[c].others = made[c]
    <2>1. CASE c = cmd.target
      BY <1>4, <2>1, Apart
    <2>2. CASE c # cmd.target
      <3>1. clients'[c] = clients[c] /\ clients[c] # Cut
        BY <1>4, <1>5, <2>2
      <3> QED BY <3>1 DEF OthersInv
    <2> QED BY <2>1, <2>2
  <1>7. cmd.target \notin torn => cmd.text.others = made[cmd.target]
    BY <1>1 DEF OthersInv
  <1> QED BY <1>1, <1>3, <1>4, <1>6, <1>7 DEF OthersInv

LEMMA OthersWrite ==
    ASSUME IInv, OthersInv, targetWrite PROVE OthersInv'
  <1>1. /\ cmd.at = "write"
        /\ cmd' = [cmd EXCEPT !.at = "targets", !.target = None,
                              !.text = None, !.update = @ \ {cmd.target},
                              !.remove = @ \ {cmd.target},
                              !.changed = @ \ {cmd.target}]
        /\ clients' = [clients EXCEPT ![cmd.target] = cmd.text]
        /\ UNCHANGED <<made, torn>>
    BY DEF targetWrite
  <1>2. cmd \in Registering
    BY <1>1, CommandKinds DEF IInv, TypeOK
  <1>3. cmd'.at = "targets"
    BY <1>1, <1>2 DEF Registering
  <1>4. cmd.target \in Clients /\ cmd.text \notin {Missing, Cut}
    BY <1>1, Apart DEF IInv, TargetInv
  <1> QED BY <1>1, <1>3, <1>4 DEF IInv, TypeOK, OthersInv

LEMMA OthersStop ==
    ASSUME OthersInv, Stop PROVE OthersInv'
  <1>1. /\ cmd' = Idle /\ torn' = torn \union Writing
        /\ UNCHANGED <<clients, made>>
    BY DEF Stop
  <1>2. cmd'.at = "idle"
    BY <1>1 DEF Idle
  <1>3. cmd.at = "write" => cmd.target \in torn'
    BY <1>1 DEF Writing
  <1> QED BY <1>1, <1>2, <1>3 DEF OthersInv

LEMMA OthersElsewhere ==
    ASSUME IInv, OthersInv, NEW c \in Clients, NEW servers \in SUBSET Servers,
           NEW entry \in Remembered(c), Elsewhere(c, servers, entry)
    PROVE  OthersInv'
  <1> DEFINE text == [jira |-> entry, others |-> servers]
  <1>1. /\ clients' = [clients EXCEPT ![c] = text]
        /\ made' = [made EXCEPT ![c] = servers]
        /\ torn' = IF cmd.at \in {"truncate", "write"} /\ cmd.target = c
                   THEN torn \union {c}
                   ELSE torn \ {c}
    BY DEF Elsewhere
  <1>2. text \in Entries /\ text.others = servers
    BY RememberedIsKnown DEF Entries
  <1> HIDE DEF text
  <1>3. text \notin {Missing, Cut}
    BY <1>2, Apart
  <1>4. /\ clients'[c] = text /\ made'[c] = servers
        /\ \A d \in Clients \ {c} :
               clients'[d] = clients[d] /\ made'[d] = made[d]
    BY <1>1 DEF IInv, TypeOK
  <1>5. \A d \in Clients \ {c} : d \in torn' <=> d \in torn
    BY <1>1
  <1>6. cmd.at \in {"truncate", "write"} /\ cmd.target \notin torn' =>
            cmd.target # c
    BY <1>1
  <1>7. /\ cmd'.at = cmd.at
        /\ cmd.at \in {"truncate", "write"} =>
               cmd'.target = cmd.target /\ cmd'.text = cmd.text
    BY ElsewhereCommand
  <1> QED BY <1>1, <1>2, <1>3, <1>4, <1>5, <1>6, <1>7 DEF OthersInv

LEMMA StepOthers == IInv /\ OthersInv /\ [Next]_vars => OthersInv'
  <1> SUFFICES ASSUME IInv, OthersInv, [Next]_vars PROVE OthersInv'
    OBVIOUS
  <1>1. ASSUME UNCHANGED <<clients, made, torn>>, cmd.at # "write",
               cmd'.at \in {"idle", "save", "save.write", "saved", "targets"}
        PROVE  OthersInv'
    BY <1>1, OthersApart
  <1>2. Idle.at = "idle"
    BY DEF Idle
  <1>3. ASSUME NEW env \in Names \union {""}, setup(env) PROVE OthersInv'
    <2>1. cmd = Idle /\ UNCHANGED <<clients, made, torn>>
      BY <1>3 DEF setup
    <2>2. PICK file, answer :
              cmd' = [at |-> "save", file |-> saveProfile(file, answer)]
      BY <1>3 DEF setup
    <2>3. cmd'.at = "save"
      BY <2>2
    <2> QED BY <1>1, <1>2, <2>1, <2>3
  <1>4. ASSUME NEW env \in Names \union {""}, installMCP(env) PROVE OthersInv'
    <2>1. cmd = Idle /\ UNCHANGED <<clients, made, torn>>
      BY <1>4 DEF installMCP
    <2>2. PICK name, selected :
              cmd' = Targets("install-mcp", name, selected, {})
      BY <1>4 DEF installMCP
    <2>3. cmd'.at = "targets"
      BY <2>2 DEF Targets
    <2> QED BY <1>1, <1>2, <2>1, <2>3
  <1>5. CASE saveTruncate
    BY <1>1, <1>5 DEF saveTruncate
  <1>6. CASE saveWrite
    BY <1>1, <1>6 DEF saveWrite
  <1>7. CASE setupSelect
    BY <1>1, <1>2, <1>7 DEF setupSelect, Targets
  <1>8. CASE finish
    BY <1>1, <1>2, <1>8 DEF finish, Finished
  <1>9. ASSUME NEW c \in Clients, targetRead(c) PROVE OthersInv'
    BY <1>9, OthersRead
  <1>10. CASE targetTruncate
    BY <1>10, OthersTruncate
  <1>11. CASE targetWrite
    BY <1>11, OthersWrite
  <1>12. CASE Stop
    BY <1>12, OthersStop
  <1>13. ASSUME NEW c \in Clients, NEW servers \in SUBSET Servers,
                NEW entry \in Remembered(c), Elsewhere(c, servers, entry)
         PROVE  OthersInv'
    BY <1>13, OthersElsewhere
  <1>14. CASE UNCHANGED vars
    BY <1>14 DEF vars, OthersInv
  <1> QED BY <1>3, <1>4, <1>5, <1>6, <1>7, <1>8, <1>9, <1>10, <1>11, <1>12,
             <1>13, <1>14 DEF Next

(* Registering jira-mcp in a client never costs it another server: the     *)
(* others stay as the client's owner put them, except in a file that was   *)
(* cut short or changed while a command was about to write it.             *)
THEOREM OthersSafe == Spec => []OthersKept
  <1>1. Spec => []OthersInv
    BY Invariance, InitOthers, StepOthers, PTL DEF Spec
  <1>2. OthersInv => OthersKept
    BY DEF OthersInv, OthersKept
  <1> QED BY <1>1, <1>2, PTL

-----------------------------------------------------------------------------
(* The selection of the user *)

(* A command that registers works through the clients it planned to write, *)
(* and what it is through with is as the user selected.                    *)
Left(r) == ((r.detected \ r.selected) \ r.remove) \ r.changed

PlanInv ==
    cmd.at \in {"targets", "truncate", "write"} =>
        /\ cmd.update \subseteq cmd.selected
        /\ cmd.remove \intersect cmd.selected = {}
        /\ \A c \in (cmd.selected \ cmd.update) \ cmd.changed :
               clients[c] \notin {Missing, Cut} /\ clients[c].jira = cmd.name
        /\ cmd.tool = "setup" =>
               \A c \in Left(cmd) :
                   clients[c] \in {Missing, Cut} \/ clients[c].jira = None
        /\ cmd.at \in {"truncate", "write"} =>
               /\ cmd.target \in cmd.update \union cmd.remove
               /\ cmd.text.jira = IF cmd.target \in cmd.update THEN cmd.name
                                  ELSE None

LEMMA PlanBegins ==
    ASSUME NEW tool, NEW name, NEW selected \in SUBSET Detected, NEW remove,
           cmd' = Targets(tool, name, selected, remove), clients' = clients,
           remove \intersect selected = {},
           tool = "setup" => remove = Removals(selected)
    PROVE  PlanInv'
  <1>1. /\ cmd'.at = "targets" /\ cmd'.tool = tool /\ cmd'.update = selected
        /\ cmd'.selected = selected /\ cmd'.remove = remove
        /\ cmd'.detected = Detected /\ cmd'.changed = {}
    BY DEF Targets
  <1>2. \A c \in Detected \ Configured :
            clients[c] \in {Missing, Cut} \/ clients[c].jira = None
    BY DEF Configured
  <1> QED BY <1>1, <1>2 DEF PlanInv, Left, Removals

LEMMA PlanRead ==
    ASSUME IInv, PlanInv, NEW c \in Clients, targetRead(c) PROVE PlanInv'
  <1>1. /\ cmd.at = "targets" /\ c \in cmd.update \union cmd.remove
        /\ cmd' = [cmd EXCEPT !.at = "truncate", !.target = c, !.text = Text(c)]
        /\ clients' = clients
    BY DEF targetRead
  <1>2. cmd \in Registering
    BY <1>1, CommandKinds DEF IInv, TypeOK
  <1> DEFINE text == Text(c)
  <1>3. text.jira = IF c \in cmd.update THEN cmd.name ELSE None
    BY DEF Text
  <1> HIDE DEF text
  <1>4. /\ cmd'.at = "truncate" /\ cmd'.target = c /\ cmd'.text = text
        /\ cmd'.update = cmd.update /\ cmd'.remove = cmd.remove
        /\ cmd'.selected = cmd.selected /\ cmd'.detected = cmd.detected
        /\ cmd'.name = cmd.name /\ cmd'.tool = cmd.tool
        /\ cmd'.changed = cmd.changed
    BY <1>1, <1>2 DEF Registering, text
  <1> QED BY <1>1, <1>3, <1>4 DEF PlanInv, Left

LEMMA PlanTruncate ==
    ASSUME IInv, PlanInv, targetTruncate PROVE PlanInv'
  <1>1. /\ cmd.at = "truncate" /\ cmd' = [cmd EXCEPT !.at = "write"]
        /\ clients' = [clients EXCEPT ![cmd.target] = Cut]
    BY DEF targetTruncate
  <1>2. cmd \in Registering
    BY <1>1, CommandKinds DEF IInv, TypeOK
  <1>3. /\ cmd'.at = "write" /\ cmd'.target = cmd.target
        /\ cmd'.text = cmd.text
        /\ cmd'.update = cmd.update /\ cmd'.remove = cmd.remove
        /\ cmd'.selected = cmd.selected /\ cmd'.detected = cmd.detected
        /\ cmd'.name = cmd.name /\ cmd'.tool = cmd.tool
        /\ cmd'.changed = cmd.changed
    BY <1>1, <1>2 DEF Registering
  <1>4. \A c \in Clients :
            clients'[c] = IF c = cmd.target THEN Cut ELSE clients[c]
    BY <1>1 DEF IInv, TypeOK
  <1>5. cmd.selected \subseteq Clients /\ cmd.detected \subseteq Clients
    BY <1>2 DEF Registering
  <1>6. cmd.target \notin cmd.selected \ cmd.update
    BY <1>1 DEF PlanInv
  <1> QED BY <1>1, <1>3, <1>4, <1>5, <1>6 DEF PlanInv, Left

LEMMA PlanWrite ==
    ASSUME IInv, PlanInv, targetWrite PROVE PlanInv'
  <1>1. /\ cmd.at = "write"
        /\ cmd' = [cmd EXCEPT !.at = "targets", !.target = None,
                              !.text = None, !.update = @ \ {cmd.target},
                              !.remove = @ \ {cmd.target},
                              !.changed = @ \ {cmd.target}]
        /\ clients' = [clients EXCEPT ![cmd.target] = cmd.text]
    BY DEF targetWrite
  <1>2. cmd \in Registering
    BY <1>1, CommandKinds DEF IInv, TypeOK
  <1>3. /\ cmd'.at = "targets"
        /\ cmd'.update = cmd.update \ {cmd.target}
        /\ cmd'.remove = cmd.remove \ {cmd.target}
        /\ cmd'.selected = cmd.selected /\ cmd'.detected = cmd.detected
        /\ cmd'.name = cmd.name /\ cmd'.tool = cmd.tool
        /\ cmd'.changed = cmd.changed \ {cmd.target}
    BY <1>1, <1>2 DEF Registering
  <1>4. \A c \in Clients :
            clients'[c] = IF c = cmd.target THEN cmd.text ELSE clients[c]
    BY <1>1 DEF IInv, TypeOK
  <1>5. cmd.selected \subseteq Clients /\ cmd.detected \subseteq Clients
    BY <1>2 DEF Registering
  <1>6. /\ cmd.text \notin {Missing, Cut}
        /\ cmd.target \in cmd.update \union cmd.remove
        /\ cmd.text.jira = IF cmd.target \in cmd.update THEN cmd.name
                           ELSE None
    BY <1>1, Apart DEF IInv, TargetInv, PlanInv
  <1>7. cmd.update \subseteq cmd.selected
        /\ cmd.remove \intersect cmd.selected = {}
    BY <1>1 DEF PlanInv
  <1>8. \A c \in (cmd.selected \ cmd'.update) \ cmd'.changed :
            clients'[c] \notin {Missing, Cut} /\ clients'[c].jira = cmd.name
    <2> SUFFICES ASSUME NEW c \in (cmd.selected \ cmd'.update) \ cmd'.changed
                 PROVE  /\ clients'[c] \notin {Missing, Cut}
                        /\ clients'[c].jira = cmd.name
      OBVIOUS
    <2>1. CASE c = cmd.target
      BY <1>4, <1>5, <1>6, <1>7, <2>1
    <2>2. CASE c # cmd.target
      <3>1. c \in (cmd.selected \ cmd.update) \ cmd.changed
            /\ clients'[c] = clients[c]
        BY <1>3, <1>4, <1>5, <2>2
      <3> QED BY <1>1, <3>1 DEF PlanInv
    <2> QED BY <2>1, <2>2
  <1>9. ASSUME cmd.tool = "setup",
               NEW c \in Left(cmd')
        PROVE  clients'[c] \in {Missing, Cut} \/ clients'[c].jira = None
    <2>1. CASE c = cmd.target
      BY <1>3, <1>4, <1>5, <1>6, <1>7, <1>9, <2>1 DEF Left
    <2>2. CASE c # cmd.target
      <3>1. c \in Left(cmd) /\ clients'[c] = clients[c]
        BY <1>3, <1>4, <1>5, <1>9, <2>2 DEF Left
      <3> QED BY <1>1, <1>9, <3>1 DEF PlanInv
    <2> QED BY <2>1, <2>2
  <1> QED BY <1>3, <1>7, <1>8, <1>9 DEF PlanInv, Left

(* A client whose owner changes jira-mcp's entry is no longer the          *)
(* command's.                                                              *)
LEMMA PlanElsewhere ==
    ASSUME IInv, PlanInv, NEW c \in Clients, NEW servers \in SUBSET Servers,
           NEW entry \in Remembered(c), Elsewhere(c, servers, entry)
    PROVE  PlanInv'
  <1> DEFINE text == [jira |-> entry, others |-> servers]
  <1>1. clients' = [clients EXCEPT ![c] = text] /\ cmd'.at = cmd.at
    BY ElsewhereCommand DEF Elsewhere
  <1>2. text \notin {Missing, Cut}
    <2>1. text \in Entries
      BY RememberedIsKnown DEF Entries
    <2> QED BY <2>1, Apart
  <1>3. text.jira = entry
    OBVIOUS
  <1> HIDE DEF text
  <1>4. \A d \in Clients : clients'[d] = IF d = c THEN text ELSE clients[d]
    BY <1>1 DEF IInv, TypeOK
  <1> SUFFICES ASSUME cmd.at \in {"targets", "truncate", "write"}
               PROVE  PlanInv'
    BY <1>1 DEF PlanInv
  <1>5. cmd.selected \subseteq Clients /\ cmd.detected \subseteq Clients
    <2>1. cmd \in Registering
      BY CommandKinds DEF IInv, TypeOK
    <2> QED BY <2>1 DEF Registering
  <1>6. /\ cmd'.update = cmd.update /\ cmd'.remove = cmd.remove
        /\ cmd'.selected = cmd.selected /\ cmd'.detected = cmd.detected
        /\ cmd'.name = cmd.name /\ cmd'.tool = cmd.tool
        /\ cmd'.target = cmd.target /\ cmd'.text = cmd.text
        /\ cmd'.changed = IF entry # EntryOf(c)
                          THEN cmd.changed \union {c} ELSE cmd.changed
    BY ElsewhereCommand
  <1>7. ASSUME NEW d \in (cmd.selected \ cmd.update) \ cmd'.changed
        PROVE  clients'[d] \notin {Missing, Cut} /\ clients'[d].jira = cmd.name
    <2>1. d \notin cmd.changed /\ (d = c => entry = EntryOf(c))
      BY <1>6, <1>7
    <2>2. clients[d] \notin {Missing, Cut} /\ clients[d].jira = cmd.name
      BY <1>7, <2>1 DEF PlanInv
    <2> QED BY <1>2, <1>3, <1>4, <1>5, <2>1, <2>2 DEF EntryOf
  <1>8. ASSUME cmd.tool = "setup", NEW d \in Left(cmd')
        PROVE  clients'[d] \in {Missing, Cut} \/ clients'[d].jira = None
    <2>1. d \in Left(cmd) /\ (d = c => entry = EntryOf(c))
      BY <1>6, <1>8 DEF Left
    <2>2. clients[d] \in {Missing, Cut} \/ clients[d].jira = None
      BY <1>8, <2>1 DEF PlanInv
    <2> QED BY <1>3, <1>4, <1>5, <2>1, <2>2 DEF EntryOf, Left
  <1> QED BY <1>1, <1>6, <1>7, <1>8 DEF PlanInv

LEMMA StepPlan == IInv /\ PlanInv /\ [Next]_vars => PlanInv'
  <1> SUFFICES ASSUME IInv, PlanInv, [Next]_vars PROVE PlanInv'
    OBVIOUS
  <1>1. ASSUME cmd'.at \in {"idle", "save", "save.write", "saved"}
        PROVE  PlanInv'
    BY <1>1 DEF PlanInv
  <1>2. Idle.at = "idle"
    BY DEF Idle
  <1>3. ASSUME NEW env \in Names \union {""}, setup(env) PROVE PlanInv'
    <2>1. PICK file, answer :
              cmd' = [at |-> "save", file |-> saveProfile(file, answer)]
      BY <1>3 DEF setup
    <2>2. cmd'.at = "save"
      BY <2>1
    <2> QED BY <1>1, <2>2
  <1>4. ASSUME NEW env \in Names \union {""}, installMCP(env) PROVE PlanInv'
    <2>1. PICK loaded \in Load : \E file \in activeProfileFile(loaded, env) :
              \E selected \in SUBSET Detected :
                  cmd' = Targets("install-mcp", file.active, selected, {})
      BY <1>4 DEF installMCP
    <2>2. PICK file \in activeProfileFile(loaded, env) :
              \E selected \in SUBSET Detected :
                  cmd' = Targets("install-mcp", file.active, selected, {})
      BY <2>1
    <2>3. PICK selected \in SUBSET Detected :
              cmd' = Targets("install-mcp", file.active, selected, {})
      BY <2>2
    <2>4. clients' = clients
      BY <1>4 DEF installMCP
    <2>5. {} \intersect selected = {} /\ "install-mcp" # "setup"
      OBVIOUS
    <2> DEFINE tool == "install-mcp"
               name == file.active
    <2>6. cmd' = Targets(tool, name, selected, {}) /\ tool # "setup"
      BY <2>3, <2>5
    <2> HIDE DEF tool, name
    <2> QED BY <2>4, <2>5, <2>6, PlanBegins
  <1>5. CASE saveTruncate \/ saveWrite
    BY <1>1, <1>5 DEF saveTruncate, saveWrite
  <1>6. CASE setupSelect
    <2>1. CASE cmd' = Idle
      BY <1>1, <1>2, <2>1
    <2>2. ASSUME NEW selected \in SUBSET Detected,
                 cmd' = Targets("setup", cmd.file.active, selected,
                                Removals(selected))
          PROVE  PlanInv'
      <3>1. Removals(selected) \intersect selected = {}
        BY DEF Removals
      <3>2. clients' = clients
        BY <1>6 DEF setupSelect
      <3> QED BY <2>2, <3>1, <3>2, PlanBegins
    <2> QED BY <1>6, <2>1, <2>2 DEF setupSelect
  <1>7. CASE finish \/ Stop
    BY <1>1, <1>2, <1>7 DEF finish, Stop
  <1>8. ASSUME NEW c \in Clients, targetRead(c) PROVE PlanInv'
    BY <1>8, PlanRead
  <1>9. CASE targetTruncate
    BY <1>9, PlanTruncate
  <1>10. CASE targetWrite
    BY <1>10, PlanWrite
  <1>11. ASSUME NEW c \in Clients, NEW servers \in SUBSET Servers,
                NEW entry \in Remembered(c), Elsewhere(c, servers, entry)
         PROVE  PlanInv'
    BY <1>11, PlanElsewhere
  <1>12. CASE UNCHANGED vars
    BY <1>12 DEF vars, PlanInv
  <1> QED BY <1>3, <1>4, <1>5, <1>6, <1>7, <1>8, <1>9, <1>10, <1>11, <1>12
          DEF Next

(* A command that ends well has registered the connection in every client  *)
(* selected, and a setup has taken it out of every other client it saw;    *)
(* of every client, that is, whose owner did not change jira-mcp's entry   *)
(* since, before the command wrote the file or after.                      *)
THEOREM SelectionSafe == Spec => []SelectionDone
  <1>1. Init => PlanInv
    <2>1. Idle.at = "idle"
      BY DEF Idle
    <2>2. Init => cmd = Idle
      BY DEF Init
    <2> QED BY <2>1, <2>2 DEF PlanInv
  <1>2. Spec => []PlanInv
    BY <1>1, Invariance, StepPlan, PTL DEF Spec
  <1>3. PlanInv => SelectionDone
    BY DEF PlanInv, Left, SelectionDone, Finished, Configured
  <1> QED BY <1>2, <1>3, PTL

-----------------------------------------------------------------------------
(* The commands together: what is proved of the connections holds whichever*)
(* command a behaviour is about, for the others leave them alone.          *)
LEMMA CommandsAreConnections == CommandsSpec => Spec
  <1>1. CommandsInit => Init
    BY DEF CommandsInit
  <1>2. [CommandsNext]_commandVars => [Next]_vars
    BY DEF CommandsNext, commandVars
  <1> QED BY <1>1, <1>2, PTL DEF CommandsSpec, Spec

(* Whichever command runs, the connections are typed and kept, clients are *)
(* served by the connection they were registered with, the selection of    *)
(* the user is carried out, and the other servers of a client stay; with   *)
(* the exceptions of each.                                                 *)
THEOREM CommandsSafe ==
    CommandsSpec => [](/\ TypeOK /\ ConnectionsKept /\ ClientsServed
                       /\ SelectionDone /\ OthersKept)
  BY CommandsAreConnections, TypeCorrect, ConnectionsSafe, ClientsSafe,
     SelectionSafe, OthersSafe, PTL

-----------------------------------------------------------------------------
(* Induction up to a bound, and functions defined along it. *)

LEMMA LeastExists ==
    ASSUME NEW T \in SUBSET Nat, T # {}
    PROVE  \E x \in T : \A y \in T : x <= y
  <1> DEFINE R == {ss \in Nat \X Nat : ss[1] < ss[2]}
  <1>1. IsWellFoundedOn(R, Nat)
    <2>1. OpToRel(<, Nat) = R
      BY Zenon DEF OpToRel
    <2> QED BY <2>1, NatLessThanWellFounded, Zenon
  <1> HIDE DEF R
  <1>2. PICK x \in T : \A y \in T : ~ (<<y, x>> \in R)
    BY <1>1, WFMin, Zenon
  <1>3. \A y \in T : ~ (y < x)
    BY <1>2 DEF R
  <1> QED BY <1>3

LEMMA UpTo ==
    ASSUME NEW n \in Nat, NEW P, 0 \in P,
           \A i \in 1..n : i - 1 \in P => i \in P
    PROVE  0..n \subseteq P
  <1> DEFINE T == (0..n) \ P
  <1>1. SUFFICES ASSUME T # {} PROVE FALSE
    OBVIOUS
  <1>2. T \in SUBSET Nat
    OBVIOUS
  <1>3. PICK x \in T : \A y \in T : x <= y
    BY <1>1, <1>2, LeastExists
  <1>4. x \in 1..n /\ x - 1 \in 0..n /\ ~ x <= x - 1
    BY <1>3
  <1>5. x - 1 \in P
    BY <1>3, <1>4
  <1> QED BY <1>3, <1>4, <1>5

(* A function that begins with x0 and goes on by h. *)
BuiltUp(n, X, x0, h) ==
    \E g \in [0..n -> X] :
        g[0] = x0 /\ \A i \in 1..n : g[i] = h[<<g[i - 1], i>>]

LEMMA Recursively ==
    ASSUME NEW n \in Nat, NEW X, NEW x0 \in X, NEW h \in [X \X (1..n) -> X]
    PROVE  BuiltUp(n, X, x0, h)
  <1> DEFINE Up(g, m) ==
                 g[0] = x0 /\ \A i \in 1..m : g[i] = h[<<g[i - 1], i>>]
             P == {m \in 0..n : \E g \in [0..m -> X] : Up(g, m)}
  <1>1. 0 \in P
    <2> DEFINE g == [i \in 0..0 |-> x0]
    <2>1. g \in [0..0 -> X] /\ g[0] = x0 /\ 1..0 = {}
      OBVIOUS
    <2> HIDE DEF g
    <2>2. Up(g, 0)
      BY <2>1
    <2>3. 0 \in 0..n
      OBVIOUS
    <2> QED BY <2>1, <2>2, <2>3
  <1>2. ASSUME NEW m \in 1..n, m - 1 \in P PROVE m \in P
    <2>1. PICK g \in [0..(m - 1) -> X] : Up(g, m - 1)
      BY <1>2
    <2> DEFINE f == [i \in 0..m |-> IF i = m THEN h[<<g[m - 1], m>>] ELSE g[i]]
    <2>2. g[m - 1] \in X /\ h[<<g[m - 1], m>>] \in X
      BY <2>1
    <2>3. f \in [0..m -> X]
      BY <2>1, <2>2
    <2>4. \A i \in 0..(m - 1) : f[i] = g[i]
      OBVIOUS
    <2>5. f[m] = h[<<g[m - 1], m>>]
      OBVIOUS
    <2> HIDE DEF f
    <2>6. \A i \in 1..m : f[i] = h[<<f[i - 1], i>>]
      <3>1. ASSUME NEW i \in 1..m PROVE f[i] = h[<<f[i - 1], i>>]
        <4>1. f[i - 1] = g[i - 1]
          BY <2>4
        <4>2. CASE i = m
          BY <2>5, <4>1, <4>2
        <4>3. CASE i # m
          <5>1. i \in 1..(m - 1) /\ i \in 0..(m - 1)
            BY <4>3
          <5> QED BY <2>1, <2>4, <4>1, <5>1
        <4> QED BY <4>2, <4>3
      <3> QED BY <3>1
    <2>7. f[0] = x0
      BY <2>1, <2>4
    <2> QED BY <2>3, <2>6, <2>7
  <1>3. n \in P
    <2> HIDE DEF P
    <2>1. 0..n \subseteq P
      BY <1>1, <1>2, UpTo
    <2> QED BY <2>1
  <1> QED BY <1>3 DEF BuiltUp

-----------------------------------------------------------------------------
(* The managed block of the instructions.  A text is cut at the first of   *)
(* each marker, so what is needed of sequences is where their parts are.   *)

Marks == {Guide!Start, Guide!End}
Plain == Pieces \union Marks
Chars == Plain \union {Guide!Guidance}

LEMMA CharsApart ==
    /\ Guide!Start \notin Pieces /\ Guide!End \notin Pieces
    /\ Guide!Guidance \notin Pieces \union Marks
    /\ Guide!Start # Guide!End
  BY CommandsAssumption DEF Guide!ConstantsOK, Guide!Start, Guide!End,
                            Guide!Guidance, Marks

LEMMA BlockIs ==
    /\ Guide!Block \in Seq(Marks \union {Guide!Guidance})
    /\ Guide!Block \in Seq(Chars) /\ Len(Guide!Block) = 3
    /\ Guide!Block[1] = Guide!Start /\ Guide!Block[2] = Guide!Guidance
    /\ Guide!Block[3] = Guide!End
  BY DEF Guide!Block, Marks, Plain, Chars

(* The place of the first. *)
LEMMA IndexFirst ==
    ASSUME NEW S, NEW t \in Seq(S), NEW c, NEW a \in 1..Len(t), t[a] = c,
           \A k \in 1..(a - 1) : t[k] # c
    PROVE  Guide!Index(t, c) = a
  <1> DEFINE T == {i \in 1..Len(t) : t[i] = c}
  <1>1. Len(t) \in Nat /\ DOMAIN t = 1..Len(t)
    BY LenProperties
  <1>2. a \in T /\ \A y \in T : a <= y
    BY <1>1
  <1>3. c \in Guide!Range(t)
    BY <1>1 DEF Guide!Range
  <1>4. Guide!Index(t, c) = CHOOSE x \in T : \A y \in T : x <= y
    BY <1>3 DEF Guide!Index, Guide!Min
  <1>5. \A x \in T : (\A y \in T : x <= y) => x = a
    BY <1>1, <1>2
  <1> HIDE DEF T
  <1> QED BY <1>2, <1>4, <1>5

LEMMA IndexNone ==
    ASSUME NEW S, NEW t \in Seq(S), NEW c, \A k \in 1..Len(t) : t[k] # c
    PROVE  Guide!Index(t, c) = 0
  BY LenProperties DEF Guide!Index, Guide!Range

LEMMA IndexIs ==
    ASSUME NEW S, NEW t \in Seq(S), NEW c
    PROVE  \/ /\ Guide!Index(t, c) = 0
              /\ \A k \in 1..Len(t) : t[k] # c
           \/ /\ Guide!Index(t, c) \in 1..Len(t)
              /\ t[Guide!Index(t, c)] = c
              /\ \A k \in 1..(Guide!Index(t, c) - 1) : t[k] # c
  <1> DEFINE T == {i \in 1..Len(t) : t[i] = c}
  <1>1. Len(t) \in Nat
    BY LenProperties
  <1>2. CASE T = {}
    BY <1>2, IndexNone
  <1>3. CASE T # {}
    <2>1. T \in SUBSET Nat
      BY <1>1
    <2> HIDE DEF T
    <2>2. PICK a \in T : \A y \in T : a <= y
      BY <1>3, <2>1, LeastExists
    <2> USE DEF T
    <2>3. a \in 1..Len(t) /\ t[a] = c /\ \A k \in 1..(a - 1) : t[k] # c
      BY <1>1, <2>2
    <2>4. Guide!Index(t, c) = a
      BY <2>3, IndexFirst
    <2> QED BY <2>3, <2>4
  <1> QED BY <1>2, <1>3

LEMMA Part ==
    ASSUME NEW S, NEW s \in Seq(S), NEW a \in 1..(Len(s) + 1),
           NEW b \in (a - 1)..Len(s)
    PROVE  /\ SubSeq(s, a, b) \in Seq(S) /\ Len(SubSeq(s, a, b)) = b - a + 1
           /\ \A i \in 1..(b - a + 1) : SubSeq(s, a, b)[i] = s[a + i - 1]
  <1>1. Len(s) \in Nat /\ \A i \in a..b : s[i] \in S
    BY LenProperties, ElementOfSeq
  <1>2. a \in Int /\ b \in Int
    BY <1>1
  <1>3. /\ SubSeq(s, a, b) \in Seq(S)
        /\ Len(SubSeq(s, a, b)) = IF a <= b THEN b - a + 1 ELSE 0
        /\ \A i \in 1..(b - a + 1) : SubSeq(s, a, b)[i] = s[a + i - 1]
    BY <1>1, <1>2, SubSeqProperties
  <1> QED BY <1>1, <1>2, <1>3

LEMMA Slice ==
    ASSUME NEW S, NEW t \in Seq(S), NEW b \in Seq(S), NEW x \in Nat,
           NEW y, y = x + Len(b), y <= Len(t),
           \A i \in 1..Len(b) : t[x + i] = b[i]
    PROVE  SubSeq(t, x + 1, y) = b
  <1> DEFINE a == x + 1
             s == SubSeq(t, a, y)
  <1>1. Len(b) \in Nat /\ Len(t) \in Nat
    BY LenProperties
  <1>2. a \in 1..(Len(t) + 1) /\ y \in (a - 1)..Len(t)
    BY <1>1
  <1>3. y - a + 1 = Len(b) /\ \A i \in 1..Len(b) : a + i - 1 = x + i
    BY <1>1
  <1> HIDE DEF a
  <1>4. /\ s \in Seq(S) /\ Len(s) = y - a + 1
        /\ \A i \in 1..(y - a + 1) : s[i] = t[a + i - 1]
    BY <1>2, Part
  <1> HIDE DEF s
  <1>5. Len(s) = Len(b) /\ \A i \in 1..Len(s) : s[i] = b[i]
    BY <1>3, <1>4
  <1>6. s = b
    BY <1>4, <1>5, SeqEqual
  <1> QED BY <1>6 DEF s, a

(* Where the parts of a text are. *)
Placed(t, p, n, b, q) ==
    /\ Len(t) = Len(p) + n + Len(q)
    /\ Len(p) \in Nat /\ n \in Nat /\ Len(q) \in Nat
    /\ \A i \in 1..Len(p) : t[i] = p[i]
    /\ \A i \in 1..n : t[Len(p) + i] = b[i]
    /\ \A i \in 1..Len(q) : t[Len(p) + n + i] = q[i]
    /\ SubSeq(t, 1, Len(p)) = p
    /\ SubSeq(t, Len(p) + 1, Len(p) + n) = b
    /\ SubSeq(t, Len(p) + n + 1, Len(t)) = q

LEMMA Parts ==
    ASSUME NEW S, NEW p \in Seq(S), NEW b \in Seq(S), NEW q \in Seq(S)
    PROVE  /\ p \o b \o q \in Seq(S)
           /\ Placed(p \o b \o q, p, Len(b), b, q)
  <1> DEFINE t == p \o b \o q
  <1>1. Len(p) \in Nat /\ Len(b) \in Nat /\ Len(q) \in Nat
    BY LenProperties
  <1> DEFINE r == p \o b
  <1>2. /\ r \in Seq(S) /\ Len(r) = Len(p) + Len(b)
        /\ \A i \in 1..(Len(p) + Len(b)) :
               r[i] = IF i <= Len(p) THEN p[i] ELSE b[i - Len(p)]
    BY ConcatProperties
  <1> HIDE DEF r
  <1>3. /\ t \in Seq(S) /\ Len(t) = Len(r) + Len(q)
        /\ \A i \in 1..(Len(r) + Len(q)) :
               t[i] = IF i <= Len(r) THEN r[i] ELSE q[i - Len(r)]
    BY <1>2, ConcatProperties DEF r
  <1> HIDE DEF t
  <1>4. \A i \in 1..Len(p) : t[i] = p[i]
    BY <1>1, <1>2, <1>3
  <1>5. \A i \in 1..Len(b) : t[Len(p) + i] = b[i]
    BY <1>1, <1>2, <1>3
  <1>6. ASSUME NEW i \in 1..Len(q)
        PROVE  t[Len(p) + Len(b) + i] = q[i]
    <2>1. /\ Len(r) + i \in 1..(Len(r) + Len(q)) /\ ~ Len(r) + i <= Len(r)
          /\ Len(r) + i - Len(r) = i
      BY <1>1, <1>2
    <2>2. t[Len(r) + i] = q[Len(r) + i - Len(r)]
      BY <1>3, <2>1
    <2> QED BY <1>2, <2>1, <2>2
  <1>7. Len(t) = Len(p) + Len(b) + Len(q)
    BY <1>2, <1>3
  <1>8. SubSeq(t, 0 + 1, Len(p)) = p
    BY <1>1, <1>3, <1>4, <1>7, Slice
  <1>9. SubSeq(t, Len(p) + 1, Len(p) + Len(b)) = b
    <2>1. Len(p) + Len(b) <= Len(t)
      BY <1>1, <1>7
    <2> QED BY <1>1, <1>3, <1>5, <2>1, Slice
  <1>10. SubSeq(t, Len(p) + Len(b) + 1, Len(t)) = q
    <2> DEFINE x == Len(p) + Len(b)
    <2>1. x \in Nat /\ Len(t) = x + Len(q) /\ Len(t) <= Len(t)
      BY <1>1, <1>7
    <2>2. \A i \in 1..Len(q) : t[x + i] = q[i]
      BY <1>6
    <2> HIDE DEF x
    <2>3. SubSeq(t, x + 1, Len(t)) = q
      BY <1>3, <2>1, <2>2, Slice
    <2> QED BY <2>3 DEF x
  <1>11. SubSeq(t, 1, Len(p)) = p
    <2>1. 0 + 1 = 1
      OBVIOUS
    <2> QED BY <1>8, <2>1
  <1>12. \A i \in 1..Len(q) : t[Len(p) + Len(b) + i] = q[i]
    BY <1>6
  <1>13. Placed(t, p, Len(b), b, q)
    BY <1>1, <1>4, <1>5, <1>7, <1>9, <1>10, <1>11, <1>12, Zenon DEF Placed
  <1> QED BY <1>3, <1>13 DEF t

(* Where the parts are around a block. *)
LEMMA BlockParts ==
    ASSUME NEW p \in Seq(Chars), NEW q \in Seq(Chars)
    PROVE  /\ p \o Guide!Block \o q \in Seq(Chars)
           /\ Placed(p \o Guide!Block \o q, p, 3, Guide!Block, q)
  <1> DEFINE b == Guide!Block
  <1>1. b \in Seq(Chars) /\ Len(b) = 3
    BY BlockIs
  <1> HIDE DEF b
  <1>2. p \o b \o q \in Seq(Chars) /\ Placed(p \o b \o q, p, Len(b), b, q)
    BY <1>1, Parts
  <1> QED BY <1>1, <1>2 DEF b

(* How a text the user left changes: the block is put at the end, or in    *)
(* the place of one that was there; or, where an end marker hides it,      *)
(* blocks are added; or, where a start has no end, a block is added and    *)
(* the next run takes it with all from the start on for its own.           *)
Open(old) ==
    Guide!Index(old, Guide!Start) > 0 /\ Guide!Index(old, Guide!End) = 0

Hidden(old) == Guide!Index(old, Guide!End) > 0 /\ ~ Guide!Managed(old)

Around(old, p, q) ==
    \E i, j \in 0..Len(old) :
        /\ i = j \/ Guide!IsBlock(old, i + 1, j)
        /\ p = SubSeq(old, 1, i) /\ q = SubSeq(old, j + 1, Len(old))

Settled(old, new) ==
    \E p \in Seq(Pieces), q \in Seq(Plain) :
        new = p \o Guide!Block \o q /\ (Open(old) \/ Around(old, p, q))

Hides(old, new) ==
    /\ Hidden(old)
    /\ \E w \in Seq(Marks \union {Guide!Guidance}) : new = old \o w

Opens(old, new) == Open(old) /\ new = old \o Guide!Block

Follows(old, new) == Settled(old, new) \/ Hides(old, new) \/ Opens(old, new)

(* A text with a block after plain pieces is left as it is. *)
LEMMA ManagedStays ==
    ASSUME NEW p \in Seq(Pieces), NEW q \in Seq(Plain),
           NEW t, t = p \o Guide!Block \o q
    PROVE  Guide!managed(t) = t
  <1>1. p \in Seq(Chars) /\ q \in Seq(Chars)
    BY SeqMonotonic DEF Plain, Chars
  <1>2. /\ t \in Seq(Chars) /\ Len(t) = Len(p) + 3 + Len(q)
        /\ Len(p) \in Nat /\ Len(q) \in Nat
        /\ \A i \in 1..Len(p) : t[i] = p[i]
        /\ \A i \in 1..3 : t[Len(p) + i] = Guide!Block[i]
        /\ SubSeq(t, 1, Len(p)) = p
        /\ SubSeq(t, Len(p) + 3 + 1, Len(t)) = q
    <2>1. t \in Seq(Chars) /\ Placed(t, p, 3, Guide!Block, q)
      BY <1>1, BlockParts
    <2> QED BY <2>1 DEF Placed
  <1>3. \A i \in 1..Len(p) : p[i] \in Pieces
    BY ElementOfSeq
  <1>4. Guide!Index(t, Guide!Start) = Len(p) + 1
    <2> DEFINE a == Len(p) + 1
    <2>1. a \in 1..Len(t) /\ t[a] = Guide!Start
      BY <1>2, BlockIs
    <2>2. \A k \in 1..(a - 1) : t[k] # Guide!Start
      BY <1>2, <1>3, CharsApart
    <2> HIDE DEF a
    <2>3. Guide!Index(t, Guide!Start) = a
      BY <1>2, <2>1, <2>2, IndexFirst
    <2> QED BY <2>3 DEF a
  <1>5. Guide!Index(t, Guide!End) = Len(p) + 3
    <2> DEFINE a == Len(p) + 3
    <2>1. a \in 1..Len(t) /\ t[a] = Guide!End
      BY <1>2, BlockIs
    <2>2. t[Len(p) + 1] # Guide!End /\ t[Len(p) + 2] # Guide!End
      BY <1>2, BlockIs, CharsApart DEF Marks
    <2>3. \A k \in 1..(a - 1) :
              k \in 1..Len(p) \/ k = Len(p) + 1 \/ k = Len(p) + 2
      BY <1>2
    <2>4. \A k \in 1..(a - 1) : t[k] # Guide!End
      BY <1>2, <1>3, <2>2, <2>3, CharsApart
    <2> HIDE DEF a
    <2>5. Guide!Index(t, Guide!End) = a
      BY <1>2, <2>1, <2>4, IndexFirst
    <2> QED BY <2>5 DEF a
  <1>6. Guide!Managed(t)
    BY <1>2, <1>4, <1>5 DEF Guide!Managed
  <1>7. SubSeq(t, 1, Guide!Index(t, Guide!Start) - 1) = p
    <2>1. Guide!Index(t, Guide!Start) - 1 = Len(p)
      BY <1>2, <1>4
    <2> QED BY <1>2, <2>1
  <1>8. SubSeq(t, Guide!Index(t, Guide!End) + 1, Len(t)) = q
    BY <1>2, <1>5
  <1> QED BY <1>6, <1>7, <1>8 DEF Guide!managed

(* What the first run makes of a text the user left. *)
LEMMA FirstRun ==
    ASSUME NEW old \in Seq(Plain)
    PROVE  Follows(old, Guide!managed(old))
  <1> DEFINE a == Guide!Index(old, Guide!Start)
             b == Guide!Index(old, Guide!End)
             n == Len(old)
  <1>1. n \in Nat /\ \A k \in 1..n : old[k] \in Plain
    BY LenProperties, ElementOfSeq
  <1>2. \/ a = 0 /\ \A k \in 1..n : old[k] # Guide!Start
        \/ /\ a \in 1..n /\ old[a] = Guide!Start
           /\ \A k \in 1..(a - 1) : old[k] # Guide!Start
    BY IndexIs
  <1>3. \/ b = 0 /\ \A k \in 1..n : old[k] # Guide!End
        \/ /\ b \in 1..n /\ old[b] = Guide!End
           /\ \A k \in 1..(b - 1) : old[k] # Guide!End
    BY IndexIs
  <1>4. Guide!Managed(old) <=> a > 0 /\ b > a
    BY DEF Guide!Managed
  <1>5. CASE a > 0 /\ b > a
    <2> DEFINE p == SubSeq(old, 1, a - 1)
               q == SubSeq(old, b + 1, n)
    <2>1. a \in 1..n /\ b \in 1..n
      BY <1>1, <1>2, <1>3, <1>5
    <2>2. p \in Seq(Pieces)
      <3>1. \A k \in 1..(a - 1) : old[k] \in Pieces
        BY <1>1, <1>2, <1>3, <1>5 DEF Plain, Marks
      <3>2. 1 \in Int /\ a - 1 \in Int
        BY <2>1
      <3> QED BY <3>1, <3>2, SubSeqProperties
    <2>3. q \in Seq(Plain)
      <3>1. b + 1 \in 1..(n + 1) /\ n \in (b + 1 - 1)..n
        BY <1>1, <2>1
      <3> QED BY <3>1, Part
    <2>4. Guide!IsBlock(old, a - 1 + 1, b)
      <3>1. a - 1 + 1 = a
        BY <2>1
      <3>2. \A k \in a..(b - 1) : old[k] # Guide!End
        BY <1>1, <1>3, <1>5, <2>1
      <3> QED BY <1>2, <1>3, <1>5, <2>1, <3>1, <3>2 DEF Guide!IsBlock
    <2>5. Around(old, p, q)
      <3>1. a - 1 \in 0..Len(old) /\ b \in 0..Len(old)
        BY <1>1, <2>1
      <3> QED BY <2>4, <3>1 DEF Around
    <2>6. Guide!managed(old) = p \o Guide!Block \o q
      BY <1>4, <1>5 DEF Guide!managed
    <2> HIDE DEF p, q
    <2> QED BY <2>2, <2>3, <2>5, <2>6 DEF Follows, Settled
  <1>6. CASE ~ (a > 0 /\ b > a)
    <2>1. Guide!managed(old) = old \o Guide!Block /\ ~ Guide!Managed(old)
      BY <1>4, <1>6 DEF Guide!managed
    <2>2. CASE b > 0
      BY <2>1, <2>2, BlockIs DEF Follows, Hides, Hidden
    <2>3. CASE a > 0 /\ ~ b > 0
      BY <1>1, <1>3, <2>1, <2>3 DEF Follows, Opens, Open
    <2>4. CASE ~ a > 0 /\ ~ b > 0
      <3>1. \A k \in 1..n : old[k] \in Pieces
        BY <1>1, <1>2, <1>3, <2>4 DEF Plain, Marks
      <3>2. SubSeq(old, 1, n) = old /\ SubSeq(old, n + 1, n) = <<>>
        BY <1>1, SubSeqFull, SubSeqEmpty
      <3>3. old \in Seq(Pieces)
        <4>1. SubSeq(old, 1, n) \in Seq(Pieces)
          BY <1>1, <3>1, SubSeqProperties
        <4> QED BY <3>2, <4>1
      <3>4. Around(old, old, <<>>)
        <4>1. n \in 0..Len(old)
          BY <1>1
        <4> QED BY <3>2, <4>1 DEF Around
      <3>5. <<>> \in Seq(Plain)
        BY EmptySeq
      <3>6. old \o Guide!Block \o <<>> = old \o Guide!Block
        <4>1. old \in Seq(Chars)
          BY SeqMonotonic DEF Chars
        <4>2. old \o Guide!Block \in Seq(Chars)
          BY <4>1, BlockIs, ConcatProperties
        <4> QED BY <4>2, ConcatEmptySeq
      <3> QED BY <2>1, <3>3, <3>4, <3>5, <3>6 DEF Follows, Settled
    <2> QED BY <2>2, <2>3, <2>4
  <1> QED BY <1>5, <1>6

(* What a later run makes of it. *)
LEMMA LaterRun ==
    ASSUME NEW old \in Seq(Plain), NEW t, Follows(old, t)
    PROVE  Follows(old, Guide!managed(t))
  <1> DEFINE a == Guide!Index(old, Guide!Start)
             b == Guide!Index(old, Guide!End)
             n == Len(old)
  <1>0. old \in Seq(Chars) /\ n \in Nat
        /\ \A k \in 1..n : old[k] \in Plain
    BY SeqMonotonic, LenProperties, ElementOfSeq DEF Chars
  <1>1. \/ a = 0 /\ \A k \in 1..n : old[k] # Guide!Start
        \/ /\ a \in 1..n /\ old[a] = Guide!Start
           /\ \A k \in 1..(a - 1) : old[k] # Guide!Start
    BY IndexIs
  <1>2. \/ b = 0 /\ \A k \in 1..n : old[k] # Guide!End
        \/ /\ b \in 1..n /\ old[b] = Guide!End
           /\ \A k \in 1..(b - 1) : old[k] # Guide!End
    BY IndexIs
  <1>3. <<>> \in Seq(Chars)
    BY EmptySeq
  <1>4. CASE Settled(old, t)
    <2>1. Guide!managed(t) = t
      BY <1>4, ManagedStays DEF Settled
    <2> QED BY <1>4, <2>1 DEF Follows
  <1>5. CASE Hides(old, t)
    <2>1. PICK w \in Seq(Marks \union {Guide!Guidance}) : t = old \o w
      BY <1>5 DEF Hides
    <2>2. w \in Seq(Chars)
      BY SeqMonotonic DEF Chars, Plain
    <2>3. /\ t \in Seq(Chars) /\ Len(t) = n + Len(w) /\ Len(w) \in Nat
          /\ \A k \in 1..n : t[k] = old[k]
      <3>1. /\ t \in Seq(Chars) /\ Len(t) = n + Len(w)
            /\ \A k \in 1..(n + Len(w)) :
                   t[k] = IF k <= n THEN old[k] ELSE w[k - n]
        BY <1>0, <2>1, <2>2, ConcatProperties
      <3>2. Len(w) \in Nat
        BY LenProperties
      <3> QED BY <1>0, <3>1, <3>2
    <2>4. b \in 1..n /\ old[b] = Guide!End
          /\ \A k \in 1..(b - 1) : old[k] # Guide!End
      BY <1>0, <1>2, <1>5 DEF Hides, Hidden
    <2>5. Guide!Index(t, Guide!End) = b
      <3> HIDE DEF b
      <3>1. b \in 1..Len(t) /\ \A k \in 1..(b - 1) : k \in 1..n
        BY <1>0, <2>3, <2>4
      <3>2. t[b] = Guide!End /\ \A k \in 1..(b - 1) : t[k] # Guide!End
        BY <2>3, <2>4, <3>1
      <3> QED BY <2>3, <3>1, <3>2, IndexFirst
    <2>6. \A k \in 1..(b - 1) : t[k] # Guide!Start
      <3>1. a = 0 \/ a >= b
        BY <1>0, <1>1, <2>4, <1>5 DEF Hides, Hidden, Guide!Managed
      <3> QED BY <1>0, <1>1, <2>3, <2>4, <3>1
    <2>7. ~ Guide!Managed(t)
      <3>1. \/ Guide!Index(t, Guide!Start) = 0
            \/ /\ Guide!Index(t, Guide!Start) \in 1..Len(t)
               /\ t[Guide!Index(t, Guide!Start)] = Guide!Start
        BY <2>3, IndexIs
      <3> QED BY <2>3, <2>4, <2>5, <2>6, <3>1 DEF Guide!Managed
    <2>8. Guide!managed(t) = old \o (w \o Guide!Block)
      <3>1. Guide!managed(t) = (old \o w) \o Guide!Block
        BY <2>1, <2>7 DEF Guide!managed
      <3> QED BY <1>0, <2>2, <3>1, BlockIs, ConcatAssociative
    <2>9. w \o Guide!Block \in Seq(Marks \union {Guide!Guidance})
      BY BlockIs, ConcatProperties
    <2> QED BY <1>5, <2>8, <2>9 DEF Follows, Hides
  <1>6. CASE Opens(old, t)
    <2>1. t = old \o Guide!Block \o <<>>
      <3>1. old \o Guide!Block \in Seq(Chars)
        BY <1>0, BlockIs, ConcatProperties
      <3> QED BY <1>6, <3>1, ConcatEmptySeq DEF Opens
    <2>2. /\ t \in Seq(Chars) /\ Len(t) = n + 3
          /\ \A i \in 1..n : t[i] = old[i]
          /\ \A i \in 1..3 : t[n + i] = Guide!Block[i]
      <3>1. Len(<<>>) = 0
        BY EmptySeq
      <3>2. /\ t \in Seq(Chars) /\ Len(t) = n + 3 + Len(<<>>)
            /\ \A i \in 1..n : t[i] = old[i]
            /\ \A i \in 1..3 : t[n + i] = Guide!Block[i]
        <4>1. /\ t \in Seq(Chars)
              /\ Placed(t, old, 3, Guide!Block, <<>>)
          BY <1>0, <1>3, <2>1, BlockParts
        <4> QED BY <4>1 DEF Placed
      <3> QED BY <1>0, <3>1, <3>2
    <2>3. /\ a \in 1..n /\ old[a] = Guide!Start
          /\ \A k \in 1..(a - 1) : old[k] # Guide!Start
          /\ \A k \in 1..n : old[k] # Guide!End
      BY <1>0, <1>1, <1>2, <1>6 DEF Opens, Open
    <2>4. Guide!Index(t, Guide!Start) = a
      <3>1. /\ a \in 1..Len(t) /\ t[a] = Guide!Start
            /\ \A k \in 1..(a - 1) : t[k] # Guide!Start
        BY <1>0, <2>2, <2>3
      <3> HIDE DEF a
      <3> QED BY <2>2, <3>1, IndexFirst
    <2>5. Guide!Index(t, Guide!End) = n + 3
      <3> DEFINE e == n + 3
      <3>1. e \in 1..Len(t) /\ t[e] = Guide!End
        BY <1>0, <2>2, BlockIs
      <3>2. t[n + 1] # Guide!End /\ t[n + 2] # Guide!End
        BY <2>2, BlockIs, CharsApart DEF Marks
      <3>3. \A k \in 1..(e - 1) : k \in 1..n \/ k = n + 1 \/ k = n + 2
        BY <1>0
      <3>4. \A k \in 1..(e - 1) : t[k] # Guide!End
        BY <2>2, <2>3, <3>2, <3>3
      <3> HIDE DEF e
      <3>5. Guide!Index(t, Guide!End) = e
        BY <2>2, <3>1, <3>4, IndexFirst
      <3> QED BY <3>5 DEF e
    <2> DEFINE p == SubSeq(t, 1, a - 1)
    <2>6. p \in Seq(Pieces)
      <3>1. \A k \in 1..(a - 1) : t[k] \in Pieces
        BY <1>0, <2>2, <2>3 DEF Plain, Marks
      <3>2. 1 \in Int /\ a - 1 \in Int
        BY <2>3
      <3> QED BY <3>1, <3>2, SubSeqProperties
    <2>7. SubSeq(t, n + 3 + 1, Len(t)) = <<>>
      BY <1>0, <2>2, SubSeqEmpty
    <2>8. Guide!managed(t) = p \o Guide!Block \o <<>>
      <3>1. Guide!Managed(t)
        BY <1>0, <2>3, <2>4, <2>5 DEF Guide!Managed
      <3> QED BY <2>4, <2>5, <2>7, <3>1 DEF Guide!managed
    <2>9. <<>> \in Seq(Plain)
      BY EmptySeq
    <2> HIDE DEF p
    <2> QED BY <1>6, <2>6, <2>8, <2>9 DEF Follows, Settled, Opens
  <1> QED BY <1>4, <1>5, <1>6 DEF Follows

(* What such a change keeps. *)
LEMMA FollowsKeeps ==
    ASSUME NEW old \in Seq(Plain), NEW t, Follows(old, t), ~ Open(old)
    PROVE  Guide!KeptOutside(old, t)
  <1>0. old \in Seq(Chars) /\ Len(old) \in Nat
    BY SeqMonotonic, LenProperties DEF Chars
  <1>1. CASE Settled(old, t)
    <2>1. PICK p \in Seq(Pieces), q \in Seq(Plain) :
              t = p \o Guide!Block \o q /\ Around(old, p, q)
      BY <1>1 DEF Settled
    <2>2. PICK i \in 0..Len(old), j \in 0..Len(old) :
              /\ i = j \/ Guide!IsBlock(old, i + 1, j)
              /\ p = SubSeq(old, 1, i) /\ q = SubSeq(old, j + 1, Len(old))
      BY <2>1 DEF Around
    <2>3. Len(p) = i
      <3>1. 1 \in 1..(Len(old) + 1) /\ i \in (1 - 1)..Len(old)
        BY <1>0
      <3>2. Len(SubSeq(old, 1, i)) = i - 1 + 1
        BY <3>1, Part
      <3> QED BY <1>0, <2>2, <3>2
    <2>4. p \in Seq(Chars) /\ q \in Seq(Chars)
      BY SeqMonotonic DEF Plain, Chars
    <2>5. /\ t \in Seq(Chars) /\ Len(t) = i + 3 + Len(q) /\ Len(q) \in Nat
          /\ \A k \in 1..3 : t[i + k] = Guide!Block[k]
          /\ SubSeq(t, i + 1, i + 3) = Guide!Block
      <3>1. t \in Seq(Chars) /\ Placed(t, p, 3, Guide!Block, q)
        BY <2>1, <2>4, BlockParts
      <3> QED BY <2>3, <3>1 DEF Placed
    <2> DEFINE m == i + 3
    <2>6. m \in 0..Len(t)
      BY <1>0, <2>5
    <2>7. \A k \in (i + 1)..m : t[k] \notin Pieces
      <3>1. \A k \in (i + 1)..m : k - i \in 1..3 /\ i + (k - i) = k
        BY <1>0
      <3>2. \A k \in 1..3 : Guide!Block[k] \notin Pieces
        BY BlockIs, CharsApart
      <3>3. ASSUME NEW k \in (i + 1)..m PROVE t[k] \notin Pieces
        <4>1. t[i + (k - i)] = Guide!Block[k - i]
          BY <2>5, <3>1
        <4> QED BY <3>1, <3>2, <4>1
      <3> QED BY <3>3
    <2>8. t = SubSeq(old, 1, i) \o SubSeq(t, i + 1, m)
                  \o SubSeq(old, j + 1, Len(old))
      BY <2>1, <2>2, <2>5
    <2> HIDE DEF m
    <2> QED BY <2>2, <2>6, <2>7, <2>8 DEF Guide!KeptOutside
  <1>2. CASE Hides(old, t)
    <2>1. PICK w \in Seq(Marks \union {Guide!Guidance}) : t = old \o w
      BY <1>2 DEF Hides
    <2>2. w \in Seq(Chars) /\ <<>> \in Seq(Chars)
      BY SeqMonotonic, EmptySeq DEF Chars, Plain
    <2>3. t = old \o w \o <<>>
      <3>1. old \o w \in Seq(Chars)
        BY <1>0, <2>2, ConcatProperties
      <3> QED BY <2>1, <3>1, ConcatEmptySeq
    <2> DEFINE i == Len(old)
               m == Len(t)
    <2>4. /\ t \in Seq(Chars) /\ m = i + Len(w) /\ Len(w) \in Nat
          /\ \A k \in 1..Len(w) : t[i + k] = w[k]
          /\ SubSeq(t, i + 1, i + Len(w)) = w
      <3>1. Len(<<>>) = 0
        BY EmptySeq
      <3>2. /\ t \in Seq(Chars) /\ m = i + Len(w) + Len(<<>>)
            /\ Len(w) \in Nat
            /\ \A k \in 1..Len(w) : t[i + k] = w[k]
            /\ SubSeq(t, i + 1, i + Len(w)) = w
        <4>1. t \in Seq(Chars) /\ Placed(t, old, Len(w), w, <<>>)
          BY <1>0, <2>2, <2>3, Parts
        <4> QED BY <4>1 DEF Placed
      <3> QED BY <1>0, <3>1, <3>2
    <2>5. SubSeq(old, 1, i) = old /\ SubSeq(old, i + 1, Len(old)) = <<>>
      BY <1>0, SubSeqFull, SubSeqEmpty
    <2>6. \A k \in (i + 1)..m : t[k] \notin Pieces
      <3>1. \A k \in 1..Len(w) : w[k] \in Marks \union {Guide!Guidance}
        BY ElementOfSeq
      <3>2. ASSUME NEW k \in (i + 1)..m PROVE t[k] \notin Pieces
        <4>1. k - i \in 1..Len(w) /\ i + (k - i) = k
          BY <1>0, <2>4
        <4>2. t[i + (k - i)] = w[k - i]
          BY <2>4, <4>1
        <4> QED BY <3>1, <4>1, <4>2, CharsApart DEF Marks
      <3> QED BY <3>2
    <2>7. i \in 0..Len(old) /\ m \in 0..Len(t)
      BY <1>0, <2>4
    <2>8. t = SubSeq(old, 1, i) \o SubSeq(t, i + 1, m)
                  \o SubSeq(old, i + 1, Len(old))
      BY <2>3, <2>4, <2>5
    <2> HIDE DEF i, m
    <2> QED BY <2>6, <2>7, <2>8 DEF Guide!KeptOutside
  <1>3. CASE Opens(old, t)
    BY <1>3 DEF Opens
  <1> QED BY <1>1, <1>2, <1>3 DEF Follows

LEMMA GuidanceOnce ==
    ASSUME NEW p \in Seq(Plain), NEW q \in Seq(Plain),
           NEW t, t = p \o Guide!Block \o q
    PROVE  Cardinality({i \in 1..Len(t) : t[i] = Guide!Guidance}) = 1
  <1> DEFINE T == {i \in 1..Len(t) : t[i] = Guide!Guidance}
  <1>1. p \in Seq(Chars) /\ q \in Seq(Chars)
    BY SeqMonotonic DEF Chars
  <1>2. /\ t \in Seq(Chars) /\ Len(t) = Len(p) + 3 + Len(q)
        /\ Len(p) \in Nat /\ Len(q) \in Nat
        /\ \A i \in 1..Len(p) : t[i] = p[i]
        /\ \A i \in 1..3 : t[Len(p) + i] = Guide!Block[i]
        /\ \A i \in 1..Len(q) : t[Len(p) + 3 + i] = q[i]
    <2>1. t \in Seq(Chars) /\ Placed(t, p, 3, Guide!Block, q)
      BY <1>1, BlockParts
    <2> QED BY <2>1 DEF Placed
  <1>3. /\ \A i \in 1..Len(p) : p[i] # Guide!Guidance
        /\ \A i \in 1..Len(q) : q[i] # Guide!Guidance
    BY ElementOfSeq, CharsApart DEF Plain
  <1>4. ASSUME NEW i \in 1..Len(t), t[i] = Guide!Guidance
        PROVE  i = Len(p) + 2
    <2>1. CASE i <= Len(p)
      BY <1>2, <1>3, <1>4, <2>1
    <2>2. CASE i = Len(p) + 1 \/ i = Len(p) + 3
      BY <1>2, <1>4, <2>2, BlockIs, CharsApart DEF Marks
    <2>3. CASE i > Len(p) + 3
      <3>1. i - (Len(p) + 3) \in 1..Len(q)
            /\ Len(p) + 3 + (i - (Len(p) + 3)) = i
        BY <1>2, <2>3
      <3>2. t[Len(p) + 3 + (i - (Len(p) + 3))] = q[i - (Len(p) + 3)]
        BY <1>2, <3>1
      <3> QED BY <1>3, <1>4, <3>1, <3>2
    <2> QED BY <1>2, <2>1, <2>2, <2>3
  <1>5. Len(p) + 2 \in 1..Len(t) /\ t[Len(p) + 2] = Guide!Guidance
    BY <1>2, BlockIs
  <1>6. T = {Len(p) + 2}
    BY <1>4, <1>5
  <1> HIDE DEF T
  <1>7. Cardinality(T) = 1
    BY <1>6, FS_Singleton
  <1> QED BY <1>7 DEF T

LEMMA FollowsOnce ==
    ASSUME NEW old \in Seq(Plain), NEW t, Follows(old, t), ~ Hidden(old)
    PROVE  Cardinality({i \in 1..Len(t) : t[i] = Guide!Guidance}) = 1
  <1>1. CASE Settled(old, t)
    <2>1. PICK p \in Seq(Pieces), q \in Seq(Plain) : t = p \o Guide!Block \o q
      BY <1>1 DEF Settled
    <2>2. p \in Seq(Plain)
      BY SeqMonotonic DEF Plain
    <2> QED BY <2>1, <2>2, GuidanceOnce
  <1>2. CASE Opens(old, t)
    <2>1. <<>> \in Seq(Plain)
      BY EmptySeq
    <2>2. t = old \o Guide!Block \o <<>>
      <3>1. old \in Seq(Chars)
        BY SeqMonotonic DEF Chars
      <3>2. old \o Guide!Block \in Seq(Chars)
        BY <3>1, BlockIs, ConcatProperties
      <3> QED BY <1>2, <3>2, ConcatEmptySeq DEF Opens
    <2> QED BY <2>1, <2>2, GuidanceOnce
  <1>3. CASE Hides(old, t)
    BY <1>3 DEF Hides
  <1> QED BY <1>1, <1>2, <1>3 DEF Follows

(* The cardinality of the instance is that of the library. *)
LEMMA Counts == ASSUME NEW S PROVE Guide!Cardinality(S) = Cardinality(S)
  BY DEF Guide!Cardinality, Cardinality

LEMMA ManagedText ==
    ASSUME NEW t \in Seq(Chars)
    PROVE  Guide!managed(t) \in Seq(Chars)
  <1> DEFINE a == Guide!Index(t, Guide!Start)
             b == Guide!Index(t, Guide!End)
             p == SubSeq(t, 1, a - 1)
             q == SubSeq(t, b + 1, Len(t))
  <1>1. Len(t) \in Nat /\ \A k \in 1..Len(t) : t[k] \in Chars
    BY LenProperties, ElementOfSeq
  <1>2. /\ a = 0 \/ a \in 1..Len(t)
        /\ b = 0 \/ b \in 1..Len(t)
    BY IndexIs
  <1>3. CASE Guide!Managed(t)
    <2>1. a \in 1..Len(t) /\ b \in 1..Len(t)
      BY <1>1, <1>2, <1>3 DEF Guide!Managed
    <2>2. p \in Seq(Chars)
      <3>1. 1 \in 1..(Len(t) + 1) /\ a - 1 \in (1 - 1)..Len(t)
        BY <1>1, <2>1
      <3> QED BY <3>1, Part
    <2>3. q \in Seq(Chars)
      <3>1. b + 1 \in 1..(Len(t) + 1) /\ Len(t) \in (b + 1 - 1)..Len(t)
        BY <1>1, <2>1
      <3> QED BY <3>1, Part
    <2>4. Guide!managed(t) = p \o Guide!Block \o q
      BY <1>3 DEF Guide!managed
    <2> HIDE DEF p, q
    <2> QED BY <2>2, <2>3, <2>4, BlockParts
  <1>4. CASE ~ Guide!Managed(t)
    <2>1. Guide!managed(t) = t \o Guide!Block
      BY <1>4 DEF Guide!managed
    <2> QED BY <2>1, BlockIs, ConcatProperties
  <1> QED BY <1>3, <1>4

LEMMA WrittenPlain == Guide!Written \subseteq Seq(Plain)
  BY DEF Guide!Written, Guide!BoundedSeq, Guide!SeqOf, Plain, Marks

(***************************************************************************)
(* The inductive invariant of install-instructions: a text is as the user  *)
(* left it or follows from that, and so does the one about to be written.  *)
(***************************************************************************)
Runs ==
    {Guide!Idle, [at |-> "done"]}
        \union [at : {"read"}, next : 1..2]
        \union [at : {"truncate", "write"}, next : 1..2, text : Seq(Chars)]

Kept(f) == texts[f] = left[f] \/ Follows(left[f], texts[f])

TextTypes ==
    /\ texts \in [Guide!Files -> Seq(Chars)]
    /\ left \in [Guide!Files -> Seq(Plain)]
    /\ run \in Runs

TextsKept == \A f \in Guide!Files \ (lost \union Guide!Writing) : Kept(f)

RunKeeps ==
    run.at \in {"truncate", "write"} /\ Guide!File \notin lost =>
        Follows(left[Guide!File], run.text)

TextInv == TextTypes /\ TextsKept /\ RunKeeps

LEMMA FilesAre == Guide!Files = {Guide!Guides[1], Guide!Guides[2]}
  BY DEF Guide!Files, Guide!Range, Guide!Guides

LEMMA RunFile ==
    ASSUME TextTypes, run.at \in {"read", "truncate", "write"}
    PROVE  /\ run.next \in 1..2 /\ Guide!File \in Guide!Files
           /\ run.at = "read" => run = [at |-> "read", next |-> run.next]
           /\ run.at # "read" =>
                  /\ run.text \in Seq(Chars)
                  /\ run = [at |-> run.at, next |-> run.next, text |-> run.text]
  <1>1. /\ run.next \in 1..2
        /\ run.at = "read" => run = [at |-> "read", next |-> run.next]
        /\ run.at # "read" =>
               /\ run.text \in Seq(Chars)
               /\ run = [at |-> run.at, next |-> run.next, text |-> run.text]
    BY DEF TextTypes, Runs, Guide!Idle
  <1> QED BY <1>1, FilesAre DEF Guide!File

LEMMA InitText == Guide!Init => TextInv
  <1> SUFFICES ASSUME Guide!Init PROVE TextInv
    OBVIOUS
  <1>1. \A S : <<>> \in Seq(S)
    BY EmptySeq
  <1>2. /\ texts \in [Guide!Files -> Seq(Chars)]
        /\ left \in [Guide!Files -> Seq(Plain)]
    BY <1>1 DEF Guide!Init
  <1>3. run = Guide!Idle /\ run.at = "idle" /\ texts = left
    BY DEF Guide!Init, Guide!Idle
  <1> QED BY <1>2, <1>3 DEF TextInv, TextTypes, TextsKept, RunKeeps, Runs, Kept

(* One lemma for each step of the command and for the user. *)
LEMMA TextBegins == TextInv /\ Guide!installInstructions => TextInv'
  <1> SUFFICES ASSUME TextInv, Guide!installInstructions PROVE TextInv'
    OBVIOUS
  <1>1. UNCHANGED <<texts, left, lost>>
    BY DEF Guide!installInstructions
  <1>2. run' = [at |-> "read", next |-> 1] /\ run.at = "idle"
    BY DEF Guide!installInstructions, Guide!Idle
  <1>3. run' \in Runs /\ run'.at = "read"
    BY <1>2 DEF Runs
  <1>4. Guide!Writing = {} /\ Guide!Writing' = {}
    BY <1>2, <1>3 DEF Guide!Writing
  <1> QED BY <1>1, <1>3, <1>4 DEF TextInv, TextTypes, TextsKept, RunKeeps, Kept

LEMMA TextRead == TextInv /\ Guide!readText => TextInv'
  <1> SUFFICES ASSUME TextInv, Guide!readText PROVE TextInv'
    OBVIOUS
  <1> DEFINE f == Guide!File
  <1>1. UNCHANGED <<texts, left, lost>> /\ run.at = "read"
    BY DEF Guide!readText
  <1>2. TextTypes /\ run.next \in 1..2 /\ f \in Guide!Files
    BY <1>1, RunFile DEF TextInv
  <1>3. Guide!managed(texts[f]) \in Seq(Chars)
    BY <1>2, ManagedText DEF TextTypes
  <1>4. run' = [at |-> "truncate", next |-> run.next,
                text |-> Guide!managed(texts[f])]
    BY DEF Guide!readText
  <1>5. run' \in Runs /\ run'.at = "truncate" /\ run'.next = run.next
        /\ run'.text = Guide!managed(texts[f])
    BY <1>2, <1>3, <1>4 DEF Runs
  <1>6. Guide!Writing = {} /\ Guide!Writing' = {} /\ Guide!File' = f
    BY <1>1, <1>5 DEF Guide!Writing, Guide!File
  <1>7. f \notin lost => Follows(left[f], Guide!managed(texts[f]))
    <2>1. left[f] \in Seq(Plain)
      BY <1>2 DEF TextTypes
    <2>2. f \notin lost => Kept(f)
      BY <1>2, <1>6 DEF TextInv, TextsKept
    <2> QED BY <2>1, <2>2, FirstRun, LaterRun DEF Kept
  <1>8. TextTypes' /\ TextsKept'
    BY <1>1, <1>5, <1>6 DEF TextInv, TextTypes, TextsKept, Kept
  <1>9. RunKeeps'
    BY <1>1, <1>5, <1>6, <1>7 DEF RunKeeps
  <1> QED BY <1>8, <1>9 DEF TextInv

LEMMA TextTruncate == TextInv /\ Guide!truncateText => TextInv'
  <1> SUFFICES ASSUME TextInv, Guide!truncateText PROVE TextInv'
    OBVIOUS
  <1> DEFINE f == Guide!File
  <1>1. /\ UNCHANGED <<left, lost>> /\ run.at = "truncate"
        /\ texts' = [texts EXCEPT ![f] = <<>>]
        /\ run' = [run EXCEPT !.at = "write"]
    BY DEF Guide!truncateText
  <1>2. /\ TextTypes /\ run.next \in 1..2 /\ f \in Guide!Files
        /\ run.text \in Seq(Chars)
        /\ run = [at |-> run.at, next |-> run.next, text |-> run.text]
    BY <1>1, RunFile DEF TextInv
  <1>3. run' = [at |-> "write", next |-> run.next, text |-> run.text]
    BY <1>1, <1>2
  <1>4. run' \in Runs /\ run'.at = "write" /\ run'.next = run.next
        /\ run'.text = run.text
    BY <1>2, <1>3 DEF Runs
  <1>5. Guide!Writing = {} /\ Guide!Writing' = {f} /\ Guide!File' = f
    BY <1>1, <1>4 DEF Guide!Writing, Guide!File
  <1>6. TextTypes'
    BY <1>1, <1>2, <1>4, EmptySeq DEF TextTypes
  <1>7. TextsKept'
    <2> SUFFICES ASSUME NEW g \in Guide!Files, g \notin lost, g # f
                 PROVE  Kept(g)'
      BY <1>1, <1>5 DEF TextsKept
    <2>1. Kept(g) /\ texts'[g] = texts[g]
      BY <1>1, <1>2, <1>5 DEF TextInv, TextsKept, TextTypes
    <2> QED BY <1>1, <2>1 DEF Kept
  <1>8. RunKeeps'
    BY <1>1, <1>4, <1>5 DEF TextInv, RunKeeps
  <1> QED BY <1>6, <1>7, <1>8 DEF TextInv

LEMMA TextWrite == TextInv /\ Guide!writeText => TextInv'
  <1> SUFFICES ASSUME TextInv, Guide!writeText PROVE TextInv'
    OBVIOUS
  <1> DEFINE f == Guide!File
  <1>1. /\ UNCHANGED <<left, lost>> /\ run.at = "write"
        /\ texts' = [texts EXCEPT ![f] = run.text]
    BY DEF Guide!writeText
  <1>2. /\ TextTypes /\ run.next \in 1..2 /\ f \in Guide!Files
        /\ run.text \in Seq(Chars)
    BY <1>1, RunFile DEF TextInv
  <1>3. run' \in Runs /\ run'.at \in {"read", "done"}
    <2>1. CASE run.next < Len(Guide!Guides)
      <3>1. run' = [at |-> "read", next |-> run.next + 1]
        BY <2>1 DEF Guide!writeText
      <3>2. run.next + 1 \in 1..2
        BY <1>2, <2>1 DEF Guide!Guides
      <3> QED BY <3>1, <3>2 DEF Runs
    <2>2. CASE ~ run.next < Len(Guide!Guides)
      <3>1. run' = [at |-> "done"]
        BY <2>2 DEF Guide!writeText
      <3> QED BY <3>1 DEF Runs
    <2> QED BY <2>1, <2>2
  <1>4. Guide!Writing = {f} /\ Guide!Writing' = {}
    BY <1>1, <1>3 DEF Guide!Writing
  <1>5. TextTypes'
    BY <1>1, <1>2, <1>3 DEF TextTypes
  <1>6. TextsKept'
    <2> SUFFICES ASSUME NEW g \in Guide!Files, g \notin lost PROVE Kept(g)'
      BY <1>1, <1>4 DEF TextsKept
    <2>1. CASE g = f
      <3>1. Follows(left[f], run.text) /\ texts'[f] = run.text
        BY <1>1, <1>2, <2>1 DEF TextInv, RunKeeps, TextTypes
      <3> QED BY <1>1, <2>1, <3>1 DEF Kept
    <2>2. CASE g # f
      <3>1. Kept(g) /\ texts'[g] = texts[g]
        BY <1>1, <1>2, <1>4, <2>2 DEF TextInv, TextsKept, TextTypes
      <3> QED BY <1>1, <3>1 DEF Kept
    <2> QED BY <2>1, <2>2
  <1>7. RunKeeps'
    BY <1>3 DEF RunKeeps
  <1> QED BY <1>5, <1>6, <1>7 DEF TextInv

LEMMA TextFinish == TextInv /\ Guide!finish => TextInv'
  <1> SUFFICES ASSUME TextInv, Guide!finish PROVE TextInv'
    OBVIOUS
  <1>1. UNCHANGED <<texts, left, lost>> /\ run.at = "done" /\ run' = Guide!Idle
    BY DEF Guide!finish
  <1>2. run' \in Runs /\ run'.at = "idle"
    BY <1>1 DEF Runs, Guide!Idle
  <1>3. Guide!Writing = {} /\ Guide!Writing' = {}
    BY <1>1, <1>2 DEF Guide!Writing
  <1> QED BY <1>1, <1>2, <1>3 DEF TextInv, TextTypes, TextsKept, RunKeeps, Kept

LEMMA TextStop == TextInv /\ Guide!Stop => TextInv'
  <1> SUFFICES ASSUME TextInv, Guide!Stop PROVE TextInv'
    OBVIOUS
  <1>1. UNCHANGED <<texts, left>> /\ run' = Guide!Idle
    BY DEF Guide!Stop
  <1>2. run' \in Runs /\ run'.at = "idle"
    BY <1>1 DEF Runs, Guide!Idle
  <1>3. lost \union Guide!Writing \subseteq lost' /\ Guide!Writing' = {}
    BY <1>2 DEF Guide!Stop, Guide!Writing
  <1> QED BY <1>1, <1>2, <1>3 DEF TextInv, TextTypes, TextsKept, RunKeeps, Kept

LEMMA TextElsewhere ==
    ASSUME NEW f \in Guide!Files, TextInv, Guide!Elsewhere(f)
    PROVE  TextInv'
  <1>1. PICK text \in Guide!Written :
            /\ texts' = [texts EXCEPT ![f] = text]
            /\ left' = [left EXCEPT ![f] = text]
    BY DEF Guide!Elsewhere
  <1>2. /\ run' = run
        /\ lost' = IF run.at \in {"truncate", "write"} /\ Guide!File = f
                   THEN lost \union {f} ELSE lost \ {f}
    BY DEF Guide!Elsewhere
  <1>3. text \in Seq(Plain) /\ text \in Seq(Chars) /\ TextTypes
    BY WrittenPlain, SeqMonotonic DEF TextInv, Chars
  <1>4. TextTypes' /\ texts'[f] = left'[f]
    BY <1>1, <1>2, <1>3 DEF TextTypes
  <1>5. Guide!Writing' = Guide!Writing /\ Guide!File' = Guide!File
    BY <1>2 DEF Guide!Writing, Guide!File
  <1>6. TextsKept'
    <2> SUFFICES ASSUME NEW g \in Guide!Files,
                        g \notin lost', g \notin Guide!Writing
                 PROVE  Kept(g)'
      BY <1>5 DEF TextsKept
    <2>1. CASE g = f
      BY <1>4, <2>1 DEF Kept
    <2>2. CASE g # f
      <3>1. g \notin lost
        BY <1>2, <2>2
      <3>2. Kept(g) /\ texts'[g] = texts[g] /\ left'[g] = left[g]
        BY <1>1, <1>3, <2>2, <3>1 DEF TextInv, TextsKept, TextTypes
      <3> QED BY <3>2 DEF Kept
    <2> QED BY <2>1, <2>2
  <1>7. RunKeeps'
    <2> SUFFICES ASSUME run.at \in {"truncate", "write"},
        Guide!File \notin lost'
                 PROVE  Follows(left'[Guide!File], run.text)
      BY <1>2, <1>5 DEF RunKeeps
    <2>1. Guide!File # f /\ Guide!File \notin lost /\ Guide!File \in Guide!Files
      BY <1>2, <1>3, RunFile
    <2>2. left'[Guide!File] = left[Guide!File]
      BY <1>1, <1>3, <2>1 DEF TextTypes
    <2> QED BY <2>1, <2>2 DEF TextInv, RunKeeps
  <1> QED BY <1>4, <1>6, <1>7 DEF TextInv

LEMMA StepText == TextInv /\ [CommandsNext]_commandVars => TextInv'
  <1> SUFFICES ASSUME TextInv, [CommandsNext]_commandVars PROVE TextInv'
    OBVIOUS
  <1>1. CASE UNCHANGED inGuide
    BY <1>1 DEF inGuide, TextInv, TextTypes, TextsKept, RunKeeps, Kept,
                Guide!Writing, Guide!File
  <1>2. CASE Guide!Next
    BY <1>2, TextBegins, TextRead, TextTruncate, TextWrite, TextFinish,
       TextStop, TextElsewhere DEF Guide!Next
  <1> QED BY <1>1, <1>2 DEF CommandsNext, commandVars

(* install-instructions keeps, word for word, what the user wrote outside  *)
(* the managed block and leaves the guidance there once, however often it  *)
(* runs and the user writes (updateManagedInstructions,                    *)
(* replaceManagedBlock); but where a start has no end, where an end hides  *)
(* the blocks, and in a file that a run emptied and did not fill or that   *)
(* the user wrote after the command had read it.                           *)
THEOREM TextSafe == CommandsSpec => []UserTextKept
  <1>1. CommandsInit => TextInv
    BY InitText DEF CommandsInit
  <1>2. TextInv => UserTextKept
    <2> SUFFICES ASSUME TextInv,
                        NEW f \in Guide!Files \ (lost \union Guide!Writing),
                        texts[f] # left[f]
                 PROVE  /\ (Guide!Index(left[f], Guide!Start) > 0
                                => Guide!Index(left[f], Guide!End) > 0)
                                => Guide!KeptOutside(left[f], texts[f])
                        /\ (Guide!Index(left[f], Guide!End) > 0
                                => Guide!Managed(left[f]))
                                => Guide!Cardinality({i \in 1..Len(texts[f]) :
                                       texts[f][i] = Guide!Guidance}) = 1
      BY Zenon DEF UserTextKept, Guide!UserTextKept
    <2>1. left[f] \in Seq(Plain) /\ Follows(left[f], texts[f])
      BY DEF TextInv, TextTypes, TextsKept, Kept
    <2>2. ~ Open(left[f]) => Guide!KeptOutside(left[f], texts[f])
      BY <2>1, FollowsKeeps
    <2>3. ~ Hidden(left[f]) =>
              Guide!Cardinality({i \in 1..Len(texts[f]) :
                                    texts[f][i] = Guide!Guidance}) = 1
      BY <2>1, FollowsOnce, Counts
    <2>4. Guide!Index(left[f], Guide!End) = 0
              \/ Guide!Index(left[f], Guide!End) > 0
      <3>1. \/ Guide!Index(left[f], Guide!End) = 0
            \/ Guide!Index(left[f], Guide!End) \in 1..Len(left[f])
        BY <2>1, IndexIs
      <3>2. Len(left[f]) \in Nat
        BY <2>1, LenProperties
      <3> QED BY <3>1, <3>2
    <2> QED BY <2>2, <2>3, <2>4 DEF Open, Hidden
  <1> QED BY <1>1, <1>2, StepText, PTL DEF CommandsSpec

-----------------------------------------------------------------------------
(* The screens.  What they hand on is built up from nothing, name by name. *)

Prefixes == {SubSeq(Offers, 1, n) : n \in 0..Len(Offers)}

LEMMA RangeIs ==
    ASSUME NEW S, NEW s \in Seq(S)
    PROVE  /\ Len(s) \in Nat /\ DOMAIN s = 1..Len(s)
           /\ Screens!Range(s) = {s[i] : i \in 1..Len(s)}
           /\ Screens!Range(s) \subseteq S
           /\ Screens!IsInjective(s) <=>
                  \A i, j \in 1..Len(s) : s[i] = s[j] => i = j
  <1>1. Len(s) \in Nat /\ DOMAIN s = 1..Len(s)
    BY LenProperties
  <1>2. \A i \in 1..Len(s) : s[i] \in S
    BY ElementOfSeq
  <1> QED BY <1>1, <1>2 DEF Screens!Range, Screens!IsInjective

LEMMA PrefixIs ==
    ASSUME NEW c \in Prefixes
    PROVE  c \in Seq(Words) /\ Screens!IsInjective(c)
  <1>1. Offers \in Seq(Words) /\ Screens!IsInjective(Offers)
    BY CommandsAssumption DEF Screens!ConstantsOK
  <1>2. /\ Len(Offers) \in Nat
        /\ \A i, j \in 1..Len(Offers) : Offers[i] = Offers[j] => i = j
    BY <1>1, RangeIs
  <1>3. PICK n \in 0..Len(Offers) : c = SubSeq(Offers, 1, n)
    BY DEF Prefixes
  <1>4. /\ c \in Seq(Words) /\ Len(c) = n
        /\ \A i \in 1..n : c[i] = Offers[i]
    <2>1. 1 \in 1..(Len(Offers) + 1) /\ n \in (1 - 1)..Len(Offers)
      BY <1>2
    <2>2. /\ c \in Seq(Words) /\ Len(c) = n - 1 + 1
          /\ \A i \in 1..(n - 1 + 1) : c[i] = Offers[1 + i - 1]
      BY <1>1, <1>3, <2>1, Part
    <2> QED BY <2>2
  <1>5. \A i, j \in 1..Len(c) : c[i] = c[j] => i = j
    BY <1>2, <1>4
  <1> QED BY <1>4, <1>5, RangeIs

LEMMA Appended ==
    ASSUME NEW s \in Seq(Words), NEW x \in Words, Screens!IsInjective(s),
           x \notin Screens!Range(s)
    PROVE  /\ Append(s, x) \in Seq(Words) /\ Append(s, x) # <<>>
           /\ Screens!IsInjective(Append(s, x))
           /\ Screens!Range(Append(s, x)) = Screens!Range(s) \union {x}
  <1> DEFINE t == Append(s, x)
  <1>1. /\ t \in Seq(Words) /\ Len(t) = Len(s) + 1
        /\ \A i \in 1..Len(s) : t[i] = s[i]
        /\ t[Len(s) + 1] = x
    BY AppendProperties
  <1> HIDE DEF t
  <1>2. /\ Len(s) \in Nat
        /\ \A i, j \in 1..Len(s) : s[i] = s[j] => i = j
        /\ Screens!Range(s) = {s[i] : i \in 1..Len(s)}
    BY RangeIs
  <1>3. \A i \in 1..Len(t) : i \in 1..Len(s) \/ i = Len(s) + 1
    BY <1>1, <1>2
  <1>4. \A i, j \in 1..Len(t) : t[i] = t[j] => i = j
    BY <1>1, <1>2, <1>3
  <1>5. Screens!Range(t) = {t[i] : i \in 1..Len(t)}
    BY <1>1, RangeIs
  <1>6. Screens!Range(t) = Screens!Range(s) \union {x}
    BY <1>1, <1>2, <1>3, <1>5
  <1>7. Len(t) # 0
    BY <1>1, <1>2
  <1>8. t # <<>>
    BY <1>7, EmptySeq
  <1> QED BY <1>1, <1>4, <1>6, <1>8, RangeIs DEF t

LEMMA Nothing ==
    /\ <<>> \in Seq(Words) /\ Screens!IsInjective(<<>>)
    /\ Screens!Range(<<>>) = {}
  <1> DEFINE s == <<>>
  <1>1. s \in Seq(Words) /\ Len(s) = 0
    BY EmptySeq
  <1> HIDE DEF s
  <1>2. 1..Len(s) = {}
    BY <1>1
  <1>3. Screens!Range(s) = {s[i] : i \in 1..Len(s)}
    BY <1>1, RangeIs
  <1>4. Screens!Range(s) = {}
    BY <1>2, <1>3
  <1>5. Screens!IsInjective(s)
    BY <1>1, <1>2, RangeIs
  <1> QED BY <1>1, <1>4, <1>5 DEF s

(* A screen of several hands on what it offers, each once. *)
LEMMA SelectionIs ==
    ASSUME screen.choices \in Prefixes
    PROVE  /\ Screens!selection \in Seq(Words)
           /\ Screens!IsInjective(Screens!selection)
           /\ Screens!Range(Screens!selection)
                  \subseteq Screens!Range(screen.choices)
  <1> DEFINE c == screen.choices
             n == Len(c)
             M == screen.marked
             X == Seq(Words)
             h == [s \in X \X (1..n) |-> IF c[s[2]] \in M
                                         THEN Append(s[1], c[s[2]]) ELSE s[1]]
             Rec(g) == g = [i \in 0..n |->
                                IF i = 0 THEN <<>>
                                ELSE IF c[i] \in M
                                     THEN Append(g[i - 1], c[i]) ELSE g[i - 1]]
             k == CHOOSE g : Rec(g)
  <1>1. /\ c \in X /\ n \in Nat
        /\ \A i, j \in 1..n : c[i] = c[j] => i = j
        /\ Screens!Range(c) = {c[i] : i \in 1..n}
        /\ \A i \in 1..n : c[i] \in Words
    <2>1. c \in X /\ Screens!IsInjective(c)
      BY PrefixIs
    <2> QED BY <2>1, RangeIs, ElementOfSeq
  <1>2. Screens!selection = k[n]
    BY Zenon DEF Screens!selection
  <1> HIDE DEF c
  <1>3. Rec(k)
    <2>1. h \in [X \X (1..n) -> X]
      <3>1. ASSUME NEW s \in X \X (1..n)
            PROVE (IF c[s[2]] \in M THEN Append(s[1], c[s[2]]) ELSE s[1]) \in X
        BY <1>1, AppendProperties
      <3> QED BY <3>1
    <2> DEFINE e == <<>>
    <2>2. e \in X
      BY Nothing
    <2> HIDE DEF X
    <2>3. PICK g \in [0..n -> X] :
              g[0] = e /\ \A i \in 1..n : g[i] = h[<<g[i - 1], i>>]
      <3>1. n \in Nat
        BY <1>1
      <3> HIDE DEF h, e, n
      <3>2. BuiltUp(n, X, e, h)
        BY <2>1, <2>2, <3>1, Recursively
      <3> QED BY <3>2 DEF BuiltUp
    <2>4. \A i \in 1..n : g[i] = IF c[i] \in M
                                 THEN Append(g[i - 1], c[i]) ELSE g[i - 1]
      <3>1. ASSUME NEW i \in 1..n
            PROVE  g[i] = IF c[i] \in M
                          THEN Append(g[i - 1], c[i]) ELSE g[i - 1]
        <4>1. i - 1 \in 0..n
          BY <1>1
        <4>2. <<g[i - 1], i>> \in X \X (1..n)
          BY <4>1
        <4> QED BY <2>3, <4>2
      <3> QED BY <3>1
    <2>5. \A i \in 0..n : i = 0 \/ i \in 1..n
      BY <1>1
    <2>6. Rec(g)
      BY <2>3, <2>4, <2>5
    <2> QED BY <2>6, Zenon
  <1> DEFINE P == {i \in 0..n :
                     /\ k[i] \in X /\ Screens!IsInjective(k[i])
                     /\ Screens!Range(k[i]) \subseteq {c[j] : j \in 1..i}}
  <1> HIDE DEF k
  <1>4. 0 \in P
    <2>1. k[0] = <<>> /\ 0 \in 0..n
      BY <1>1, <1>3
    <2> QED BY <2>1, Nothing
  <1>5. ASSUME NEW i \in 1..n, i - 1 \in P PROVE i \in P
    <2>1. i \in 0..n /\ i - 1 \in 0..n /\ i # 0
      BY <1>1
    <2>2. k[i] = IF c[i] \in M THEN Append(k[i - 1], c[i]) ELSE k[i - 1]
      BY <1>3, <2>1
    <2>3. /\ k[i - 1] \in X /\ Screens!IsInjective(k[i - 1])
          /\ Screens!Range(k[i - 1]) \subseteq {c[j] : j \in 1..(i - 1)}
      BY <1>5
    <2>4. /\ {c[j] : j \in 1..(i - 1)} \subseteq {c[j] : j \in 1..i}
          /\ c[i] \in {c[j] : j \in 1..i}
      BY <1>1
    <2>5. c[i] \notin {c[j] : j \in 1..(i - 1)}
      BY <1>1
    <2>6. CASE c[i] \in M
      <3>1. c[i] \in Words /\ c[i] \notin Screens!Range(k[i - 1])
        BY <1>1, <2>3, <2>5
      <3>2. k[i] = Append(k[i - 1], c[i])
        BY <2>2, <2>6
      <3>3. /\ k[i] \in X /\ Screens!IsInjective(k[i])
            /\ Screens!Range(k[i]) = Screens!Range(k[i - 1]) \union {c[i]}
        BY <2>3, <3>1, <3>2, Appended
      <3> QED BY <2>1, <2>3, <2>4, <3>3
    <2>7. CASE c[i] \notin M
      BY <2>1, <2>2, <2>3, <2>4, <2>7
    <2> QED BY <2>6, <2>7
  <1>6. n \in P
    <2> HIDE DEF P
    <2>1. 0..n \subseteq P
      BY <1>1, <1>4, <1>5, UpTo
    <2> QED BY <1>1, <2>1
  <1> QED BY <1>1, <1>2, <1>6 DEF c

(* So does a line that is typed, and nothing only if it is blank. *)
LEMMA ParseIs ==
    ASSUME NEW c \in Prefixes, NEW words \in Seq(Words),
           NEW result \in Screens!Parse(words, c)
    PROVE  /\ result \in Seq(Words) /\ result # <<>>
           /\ Screens!IsInjective(result)
           /\ Screens!Range(result) \subseteq Screens!Range(c)
  <1> DEFINE n == Len(words)
             X == Seq(Words)
             m == [i \in 1..n |-> Screens!Meant(words[i], c)]
             h == [s \in X \X (1..n) |-> Screens!Add(s[1], m[s[2]])]
             Rec(g) == g = [i \in 0..n |->
                                IF i = 0 THEN <<>>
                                ELSE Screens!Add(g[i - 1], m[i])]
             k == CHOOSE g : Rec(g)
  <1>1. n \in Nat /\ c \in X /\ Screens!Range(c) \subseteq Words
    BY PrefixIs, RangeIs, LenProperties
  <1>2. /\ words # <<>> /\ Screens!Range(m) \subseteq Screens!Range(c)
        /\ result = k[n]
    BY Zenon DEF Screens!Parse
  <1>3. n # 0
    BY <1>2, EmptySeq
  <1>4. \A i \in 1..n : m[i] \in Screens!Range(c) /\ m[i] \in Words
    BY <1>1, <1>2 DEF Screens!Range
  <1> HIDE DEF m
  <1>5. ASSUME NEW s \in X, NEW i \in 1..n, Screens!IsInjective(s),
               Screens!Range(s) \subseteq Screens!Range(c)
        PROVE  /\ Screens!Add(s, m[i]) \in X /\ Screens!Add(s, m[i]) # <<>>
               /\ Screens!IsInjective(Screens!Add(s, m[i]))
               /\ Screens!Range(Screens!Add(s, m[i])) \subseteq Screens!Range(c)
    <2>1. CASE m[i] \in Screens!Range(s)
      <3>1. s # <<>>
        BY <2>1, Nothing
      <3> QED BY <1>5, <2>1, <3>1 DEF Screens!Add
    <2>2. CASE m[i] \notin Screens!Range(s)
      BY <1>4, <1>5, <2>2, Appended DEF Screens!Add
    <2> QED BY <2>1, <2>2
  <1>6. Rec(k)
    <2>1. h \in [X \X (1..n) -> X]
      <3>1. ASSUME NEW s \in X \X (1..n)
            PROVE  Screens!Add(s[1], m[s[2]]) \in X
        BY <1>4, AppendProperties DEF Screens!Add
      <3> QED BY <3>1
    <2> DEFINE e == <<>>
    <2>2. e \in X
      BY Nothing
    <2> HIDE DEF X
    <2>3. PICK g \in [0..n -> X] :
              g[0] = e /\ \A i \in 1..n : g[i] = h[<<g[i - 1], i>>]
      <3>1. n \in Nat
        BY <1>1
      <3> HIDE DEF h, e, n
      <3>2. BuiltUp(n, X, e, h)
        BY <2>1, <2>2, <3>1, Recursively
      <3> QED BY <3>2 DEF BuiltUp
    <2>4. \A i \in 1..n : g[i] = Screens!Add(g[i - 1], m[i])
      <3>1. ASSUME NEW i \in 1..n
            PROVE  g[i] = Screens!Add(g[i - 1], m[i])
        <4>1. i - 1 \in 0..n
          BY <1>1
        <4>2. <<g[i - 1], i>> \in X \X (1..n)
          BY <4>1
        <4> QED BY <2>3, <4>2
      <3> QED BY <3>1
    <2>5. \A i \in 0..n : i = 0 \/ i \in 1..n
      BY <1>1
    <2>6. Rec(g)
      BY <2>3, <2>4, <2>5
    <2> QED BY <2>6, Zenon
  <1> HIDE DEF k
  <1> DEFINE P == {i \in 0..n :
                     /\ k[i] \in X /\ Screens!IsInjective(k[i])
                     /\ i # 0 => k[i] # <<>>
                     /\ Screens!Range(k[i]) \subseteq Screens!Range(c)}
  <1>7. 0 \in P
    <2>1. k[0] = <<>> /\ 0 \in 0..n
      BY <1>1, <1>6
    <2> QED BY <2>1, Nothing
  <1>8. ASSUME NEW i \in 1..n, i - 1 \in P PROVE i \in P
    <2>1. i \in 0..n /\ i - 1 \in 0..n /\ i # 0
      BY <1>1
    <2>2. k[i] = Screens!Add(k[i - 1], m[i])
      BY <1>6, <2>1
    <2>3. /\ k[i - 1] \in X /\ Screens!IsInjective(k[i - 1])
          /\ Screens!Range(k[i - 1]) \subseteq Screens!Range(c)
      BY <1>8
    <2> QED BY <1>5, <2>1, <2>2, <2>3
  <1>9. n \in P
    <2> HIDE DEF P
    <2>1. 0..n \subseteq P
      BY <1>1, <1>7, <1>8, UpTo
    <2> QED BY <1>1, <2>1
  <1> QED BY <1>2, <1>3, <1>9

(***************************************************************************)
(* The inductive invariant of the screens: one that is open has the fields *)
(* its keys read.                                                          *)
(***************************************************************************)
OpenScreens ==
    [at : {"open"}, kind : {"one", "tools", "clients"}, choices : Prefixes,
     cursor : Nat, marked : SUBSET Words]

ClosedScreens ==
    [at : {"closed"}, kind : {"one", "tools", "clients"}, offers : Prefixes,
     result : Seq(Words)]

ScreenInv ==
    /\ screen \in {Screens!NoScreen} \union OpenScreens \union ClosedScreens
    /\ Screens!TypeOK

LEMMA NotNone ==
    /\ Screens!NoScreen.at = "none"
    /\ \A s \in OpenScreens : s.at = "open"
    /\ \A s \in ClosedScreens : s.at = "closed"
  BY DEF Screens!NoScreen, OpenScreens, ClosedScreens

LEMMA InitScreen == Screens!Init => ScreenInv
  BY NotNone DEF Screens!Init, ScreenInv, Screens!TypeOK

FirstCursor(c, current) ==
    IF current \in Screens!Range(c)
    THEN CHOOSE i \in 1..Len(c) : c[i] = current ELSE 1

LEMMA CursorOK ==
    ASSUME NEW c \in Prefixes, NEW current
    PROVE  /\ FirstCursor(c, current) \in Nat
           /\ \/ FirstCursor(c, current) \in 1..Len(c)
              \/ c = <<>> /\ FirstCursor(c, current) = 1
  <1>1. /\ c \in Seq(Words) /\ Len(c) \in Nat
        /\ Screens!Range(c) = {c[i] : i \in 1..Len(c)}
    BY PrefixIs, RangeIs
  <1>2. CASE current \in Screens!Range(c)
    <2>1. \E i \in 1..Len(c) : c[i] = current
      BY <1>1, <1>2
    <2>2. (CHOOSE i \in 1..Len(c) : c[i] = current) \in 1..Len(c)
      BY <2>1
    <2> QED BY <1>1, <1>2, <2>2 DEF FirstCursor
  <1>3. CASE current \notin Screens!Range(c)
    <2>1. c = <<>> \/ 1 \in 1..Len(c)
      BY <1>1, EmptySeq
    <2> QED BY <1>1, <1>3, <2>1 DEF FirstCursor
  <1> QED BY <1>2, <1>3

LEMMA ScreenOpens == ScreenInv /\ Screens!open => ScreenInv'
  <1> SUFFICES ASSUME ScreenInv, Screens!open PROVE ScreenInv'
    OBVIOUS
  <1>1. PICK n \in 0..Len(Offers) :
            \/ \E current \in Words :
                   Screens!SelectOne(SubSeq(Offers, 1, n), current)
            \/ \E kind \in {"tools", "clients"}, current \in SUBSET Words :
                   Screens!selectMany(kind, SubSeq(Offers, 1, n), current)
    BY DEF Screens!open
  <1> DEFINE c == SubSeq(Offers, 1, n)
  <1>2. c \in Prefixes
    BY DEF Prefixes
  <1>3. Screens!Range(c) \subseteq Words /\ (c = <<>> \/ 1 \in 1..Len(c))
    <2>1. c \in Seq(Words)
      BY <1>2, PrefixIs
    <2>2. Screens!Range(c) \subseteq Words /\ Len(c) \in Nat
      BY <2>1, RangeIs
    <2> QED BY <2>1, <2>2, EmptySeq
  <1> HIDE DEF c
  <1>4. ASSUME NEW current \in Words, Screens!SelectOne(c, current)
        PROVE  ScreenInv'
    <2> DEFINE at == FirstCursor(c, current)
    <2>1. at \in Nat /\ (at \in 1..Len(c) \/ (c = <<>> /\ at = 1))
      BY <1>2, CursorOK
    <2>2. screen' = [at |-> "open", kind |-> "one", choices |-> c,
                     cursor |-> at, marked |-> {}]
      BY <1>4 DEF Screens!SelectOne, FirstCursor
    <2> HIDE DEF at
    <2>3. screen' \in OpenScreens
      BY <1>2, <2>1, <2>2 DEF OpenScreens
    <2>4. Screens!TypeOK'
      BY <2>1, <2>2 DEF Screens!TypeOK
    <2> QED BY <2>3, <2>4 DEF ScreenInv
  <1>5. ASSUME NEW kind \in {"tools", "clients"}, NEW current \in SUBSET Words,
               Screens!selectMany(kind, c, current)
        PROVE  ScreenInv'
    <2> DEFINE m == IF kind = "tools" /\ current = {}
                    THEN Screens!Range(c) ELSE current
    <2>1. m \in SUBSET Words
      BY <1>3
    <2>2. screen' = [at |-> "open", kind |-> kind, choices |-> c,
                     cursor |-> 1, marked |-> m]
      BY <1>5 DEF Screens!selectMany
    <2> HIDE DEF m
    <2>3. screen' \in OpenScreens
      BY <1>2, <2>1, <2>2 DEF OpenScreens
    <2>4. Screens!TypeOK'
      BY <1>3, <2>1, <2>2 DEF Screens!TypeOK
    <2> QED BY <2>3, <2>4 DEF ScreenInv
  <1> QED BY <1>1, <1>4, <1>5 DEF c

(* A screen that closes with what was offered. *)
LEMMA ScreenCloses ==
    ASSUME NEW kind \in {"one", "tools", "clients"}, NEW c \in Prefixes,
           NEW result \in Seq(Words), Screens!IsInjective(result),
           Screens!Range(result) \subseteq Screens!Range(c),
           kind = "tools" /\ c # <<>> => result # <<>>,
           Screens!Close(kind, c, result)
    PROVE  ScreenInv'
  <1>1. screen' = [at |-> "closed", kind |-> kind, offers |-> c,
                   result |-> result]
    BY DEF Screens!Close
  <1>2. screen' \in ClosedScreens
    BY <1>1 DEF ClosedScreens
  <1>3. /\ screen'.at = "closed" /\ screen'.kind = kind
        /\ screen'.offers = c /\ screen'.result = result
    BY <1>1
  <1>4. Screens!TypeOK'
    BY <1>3 DEF Screens!TypeOK
  <1> QED BY <1>2, <1>4 DEF ScreenInv

LEMMA ScreenKeys ==
    ASSUME NEW k \in Screens!Keys, ScreenInv, Screens!key(k)
    PROVE  ScreenInv'
  <1> DEFINE c == screen.choices
             at == screen.cursor
             m == screen.marked
  <1>1. screen \in OpenScreens
    BY NotNone DEF ScreenInv, Screens!key
  <1>2. /\ screen.at = "open" /\ c \in Prefixes /\ at \in Nat
        /\ m \in SUBSET Words
        /\ screen.kind \in {"one", "tools", "clients"}
        /\ screen = [at |-> "open", kind |-> screen.kind, choices |-> c,
                     cursor |-> at, marked |-> m]
    BY <1>1 DEF OpenScreens
  <1>3. at \in 1..Len(c) \/ (c = <<>> /\ at = 1)
    BY <1>2 DEF ScreenInv, Screens!TypeOK
  <1>4. /\ c \in Seq(Words) /\ Len(c) \in Nat
        /\ Screens!Range(c) = {c[i] : i \in 1..Len(c)}
        /\ Screens!Range(c) \subseteq Words
    BY <1>2, PrefixIs, RangeIs
  <1>5. Len(<<>>) = 0
    BY EmptySeq
  <1>6. ASSUME NEW i \in 1..Len(c), screen' = [screen EXCEPT !.cursor = i]
        PROVE  ScreenInv'
    <2>1. screen' = [at |-> "open", kind |-> screen.kind, choices |-> c,
                     cursor |-> i, marked |-> m]
      BY <1>2, <1>6
    <2>2. screen' \in OpenScreens
      BY <1>2, <1>4, <2>1 DEF OpenScreens
    <2>3. Screens!TypeOK'
      BY <1>2, <2>1 DEF Screens!TypeOK
    <2> QED BY <2>2, <2>3 DEF ScreenInv
  <1>7. ASSUME NEW w \in SUBSET Words, screen' = [screen EXCEPT !.marked = w]
        PROVE  ScreenInv'
    <2>1. screen' = [at |-> "open", kind |-> screen.kind, choices |-> c,
                     cursor |-> at, marked |-> w]
      BY <1>2, <1>7
    <2>2. screen' \in OpenScreens
      BY <1>2, <2>1 DEF OpenScreens
    <2>3. /\ screen'.at = "open" /\ screen'.cursor = at
          /\ screen'.choices = c /\ screen'.marked = w
      BY <2>1
    <2>4. Screens!TypeOK'
      BY <1>3, <2>3 DEF Screens!TypeOK
    <2> QED BY <2>2, <2>4 DEF ScreenInv
  <1>8. CASE k = "up" /\ at > 1 /\ screen' = [screen EXCEPT !.cursor = at - 1]
    <2>1. at - 1 \in 1..Len(c)
      BY <1>2, <1>3, <1>4, <1>8
    <2> QED BY <1>6, <1>8, <2>1
  <1>9. CASE /\ k = "down" /\ at < Len(c)
             /\ screen' = [screen EXCEPT !.cursor = at + 1]
    <2>1. at + 1 \in 1..Len(c)
      BY <1>2, <1>4, <1>9
    <2> QED BY <1>6, <1>9, <2>1
  <1>10. CASE /\ k = "space" /\ c # <<>>
              /\ screen' = [screen EXCEPT !.marked =
                     IF c[at] \in @ THEN @ \ {c[at]} ELSE @ \union {c[at]}]
    <2> DEFINE w == IF c[at] \in m THEN m \ {c[at]} ELSE m \union {c[at]}
    <2>1. c[at] \in Words
      BY <1>3, <1>4, <1>10
    <2>2. w \in SUBSET Words
      BY <1>2, <2>1
    <2>3. screen' = [screen EXCEPT !.marked = w]
      BY <1>10
    <2> QED BY <1>7, <2>2, <2>3
  <1>11. CASE screen' = [screen EXCEPT !.marked = @ \union Screens!Range(c)]
    <2>1. m \union Screens!Range(c) \in SUBSET Words
      BY <1>2, <1>4
    <2>2. screen' = [screen EXCEPT !.marked = m \union Screens!Range(c)]
      BY <1>11
    <2> QED BY <1>7, <2>1, <2>2
  <1>12. CASE screen' = [screen EXCEPT !.marked = @ \ Screens!Range(c)]
    <2>1. m \ Screens!Range(c) \in SUBSET Words
      BY <1>2
    <2>2. screen' = [screen EXCEPT !.marked = m \ Screens!Range(c)]
      BY <1>12
    <2> QED BY <1>7, <2>1, <2>2
  <1>13. CASE c # <<>> /\ Screens!Close("one", c, <<c[at]>>)
    <2> DEFINE r == <<c[at]>>
    <2>1. c[at] \in Screens!Range(c) /\ c[at] \in Words
      BY <1>3, <1>4, <1>13
    <2>2. r \in Seq(Words) /\ Len(r) = 1 /\ r[1] = c[at]
      BY <2>1
    <2>3. Screens!Close("one", c, r)
      BY <1>13
    <2> HIDE DEF r
    <2>4. Screens!Range(r) = {r[i] : i \in 1..Len(r)}
      BY <2>2, RangeIs
    <2>5. Screens!Range(r) \subseteq Screens!Range(c)
      BY <2>1, <2>2, <2>4
    <2>6. Screens!IsInjective(r)
      BY <2>2, RangeIs
    <2> QED BY <1>2, <2>2, <2>3, <2>5, <2>6, ScreenCloses
  <1>14. CASE /\ Screens!selection # <<>> \/ screen.kind = "clients"
              /\ Screens!Close(screen.kind, c, Screens!selection)
    <2>1. /\ Screens!selection \in Seq(Words)
          /\ Screens!IsInjective(Screens!selection)
          /\ Screens!Range(Screens!selection) \subseteq Screens!Range(c)
      BY <1>2, SelectionIs
    <2> QED BY <1>2, <1>14, <2>1, ScreenCloses
  <1>15. CASE screen' = Screens!NoScreen
    BY <1>15, NotNone DEF ScreenInv, Screens!TypeOK
  <1> QED BY <1>8, <1>9, <1>10, <1>11, <1>12, <1>13, <1>14, <1>15
          DEF Screens!key

LEMMA LinesAre == Screens!Lines \subseteq Seq(Words)
  <1>1. <<>> \in Seq(Words)
    BY EmptySeq
  <1>2. \A w \in Words : <<w>> \in Seq(Words)
    OBVIOUS
  <1>3. \A w \in Words \X Words : w \in Seq(Words)
    <2>1. \A a, b \in Words : <<a, b>> \in Seq(Words)
      OBVIOUS
    <2>2. \A w \in Words \X Words : \E a, b \in Words : w = <<a, b>>
      OBVIOUS
    <2> QED BY <2>1, <2>2
  <1> QED BY <1>1, <1>2, <1>3 DEF Screens!Lines

LEMMA ScreenTyped == ScreenInv /\ Screens!typed => ScreenInv'
  <1> SUFFICES ASSUME ScreenInv, Screens!typed PROVE ScreenInv'
    OBVIOUS
  <1>1. PICK n \in 0..Len(Offers) :
            \E kind \in {"tools", "clients"}, current \in Screens!Lines :
                \E result \in Screens!Answers(kind, SubSeq(Offers, 1, n),
                                              current) :
                    Screens!Close(kind, SubSeq(Offers, 1, n), result)
    BY DEF Screens!typed
  <1> DEFINE c == SubSeq(Offers, 1, n)
  <1>2. c \in Prefixes
    BY DEF Prefixes
  <1> HIDE DEF c
  <1>3. ASSUME NEW kind \in {"tools", "clients"}, NEW current \in Screens!Lines,
               NEW result \in Screens!Answers(kind, c, current),
               Screens!Close(kind, c, result)
        PROVE  ScreenInv'
    <2>1. CASE result = c
      <3>1. c \in Seq(Words) /\ Screens!IsInjective(c)
        BY <1>2, PrefixIs
      <3> QED BY <1>2, <1>3, <2>1, <3>1, ScreenCloses
    <2>2. CASE \E words \in Screens!Lines : result \in Screens!Parse(words, c)
      <3>1. PICK words \in Screens!Lines : result \in Screens!Parse(words, c)
        BY <2>2
      <3>2. words \in Seq(Words)
        BY LinesAre
      <3>3. /\ result \in Seq(Words) /\ result # <<>>
            /\ Screens!IsInjective(result)
            /\ Screens!Range(result) \subseteq Screens!Range(c)
        BY <1>2, <3>1, <3>2, ParseIs
      <3> QED BY <1>2, <1>3, <3>3, ScreenCloses
    <2>3. CASE kind = "clients" /\ result = <<>>
      BY <1>2, <1>3, <2>3, Nothing, ScreenCloses
    <2> QED BY <2>1, <2>2, <2>3 DEF Screens!Answers
  <1> QED BY <1>1, <1>3 DEF c

LEMMA StepScreen == ScreenInv /\ [CommandsNext]_commandVars => ScreenInv'
  <1> SUFFICES ASSUME ScreenInv, [CommandsNext]_commandVars PROVE ScreenInv'
    OBVIOUS
  <1>1. CASE UNCHANGED screen
    BY <1>1 DEF ScreenInv, Screens!TypeOK
  <1>2. CASE Screens!Next
    BY <1>2, ScreenOpens, ScreenKeys, ScreenTyped DEF Screens!Next
  <1> QED BY <1>1, <1>2 DEF CommandsNext, commandVars

(* The cursor stays on a choice, and what a screen or a typed line hands   *)
(* on is offered, without repetition, and for tools never empty            *)
(* (toolsModel.Update, selectModel.Update, selection.Parse); the           *)
(* connections are typed.                                                  *)
THEOREM TypesSafe == CommandsSpec => []TypesOK
  <1>1. CommandsInit => ScreenInv
    BY InitScreen DEF CommandsInit
  <1>2. CommandsSpec => []ScreenInv
    BY <1>1, StepScreen, PTL DEF CommandsSpec
  <1>3. TypeOK /\ ScreenInv => TypesOK
    BY DEF ScreenInv, TypesOK
  <1> QED BY <1>2, <1>3, CommandsAreConnections, TypeCorrect, PTL
=============================================================================
