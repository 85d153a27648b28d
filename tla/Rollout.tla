------------------------------ MODULE Rollout ------------------------------
(***************************************************************************)
(* Putting Jarvis into production: scripts/production_rollout.py and the   *)
(* older install_service.sh, run as root by one operator, on one machine   *)
(* with systemd and the service process that the unit starts (app.main).   *)
(*                                                                         *)
(* A command is a sequence of steps; systemctl may fail and the operator   *)
(* may interrupt a command between two of them.  A unit file is the number *)
(* of its version, an environment file a few facts about its content, and  *)
(* a database its owner: the files a root command creates are root's, and  *)
(* the service runs as user jarvis.                                        *)
(***************************************************************************)
EXTENDS Naturals

CONSTANTS
    StateBases,   \* databases under /var/lib/jarvis, systemd's StateDirectory
    DataBases,    \* databases under /opt/jarvis/data
    Access,       \* the one that every configuration has
    Selections,   \* sets of databases that the operator may turn on
    Versions,     \* versions of config/jarvis.service
    NoUnit,
    MaxCommands,  \* bound: commands the operator runs
    MaxEdits,     \* bound: edits of the settings and checkouts
    MaxFaults,    \* bound: failures of systemctl and of a running service
    MaxTime       \* bound: clock, in seconds

ASSUME RolloutAssumption ==
    /\ Access \in StateBases /\ StateBases \intersect DataBases = {}
    /\ \A bases \in Selections : Access \in bases /\ bases \subseteq StateBases \union DataBases
    /\ Versions \subseteq Nat /\ Versions # {} /\ NoUnit \notin Versions
    /\ {MaxCommands, MaxEdits, MaxFaults, MaxTime} \subseteq Nat

VARIABLES
    env,       \* jarvis.env: its content, the databases it turns on, its mode, and
               \* whether it fits this machine: everything but the databases that a
               \* start needs is there, SSH keys, document libraries, a free port,
               \* a token that Telegram accepts
    source,    \* the unit in the working tree
    installed, \* the unit in /etc/systemd/system
    backups,   \* jarvis.service.backup-<stamp>
    service,   \* the unit in systemd: enabled, active (up, or to be restarted);
               \* and history: whether the operator wants it up
    proc,      \* the service process, and what it has read of the settings
    dir,       \* owner of the directories for the state, data and logs
    owner,     \* owner of each database file
    tool,      \* the command that runs: [cmd, step, found]
    now,
    used,      \* commands, edits and faults so far
    undo       \* history: the unit that the last complete install replaced

machine == <<env, source, service, proc, dir, owner>>
units == <<installed, backups, undo>>
vars == <<machine, units, tool, now, used>>

Databases == StateBases \union DataBases
Commands == {"prepare", "validate", "install", "start", "rollback", "script", "migrate"}
Contents == {"absent", "template", "broken", "unready", "complete"}
NoTool == [cmd |-> "none", step |-> "none", found |-> NoUnit]
Down == [at |-> "down", uses |-> {}, fit |-> TRUE]

(* A machine nobody has prepared, or one that already runs Jarvis.         *)
Clean ==
    /\ env = [content |-> "absent", bases |-> {Access}, mode |-> FALSE, fit |-> TRUE]
    /\ installed = NoUnit
    /\ service = [enabled |-> FALSE, active |-> FALSE, wanted |-> FALSE]
    /\ proc = Down
    /\ dir = [state |-> "none", data |-> "none", logs |-> "none"]
    /\ owner = [d \in Databases |-> "none"]
InUse ==
    /\ env = [content |-> "complete", bases |-> {Access}, mode |-> TRUE, fit |-> TRUE]
    /\ installed = source
    /\ service = [enabled |-> TRUE, active |-> TRUE, wanted |-> TRUE]
    /\ proc = [at |-> "polling", uses |-> {Access}, fit |-> TRUE]
    /\ dir = [state |-> "jarvis", data |-> "jarvis", logs |-> "jarvis"]
    /\ owner = [d \in Databases |-> IF d = Access THEN "jarvis" ELSE "none"]
Init ==
    /\ source \in Versions /\ \A v \in Versions : source <= v
    /\ Clean \/ InUse
    /\ backups = {}
    /\ undo = NoUnit
    /\ tool = NoTool
    /\ now = 0
    /\ used = [commands |-> 0, edits |-> 0, faults |-> 0]

Goto(step) == tool' = [tool EXCEPT !.step = step]
Done == tool' = NoTool
At(cmd, step) == tool.cmd = cmd /\ tool.step = step
Bound == [commands |-> MaxCommands, edits |-> MaxEdits, faults |-> MaxFaults]
Use(what) == used[what] < Bound[what] /\ used' = [used EXCEPT ![what] = @ + 1]

-----------------------------------------------------------------------------
(* The operator.                                                           *)

FirstStep == [prepare |-> "directories", validate |-> "validate", install |-> "validate",
              start |-> "validate", rollback |-> "stop", script |-> "settings", migrate |-> "migrate"]
Begin(cmd) ==
    /\ tool = NoTool
    /\ Use("commands")
    /\ tool' = [NoTool EXCEPT !.cmd = cmd, !.step = FirstStep[cmd]]
    /\ UNCHANGED <<machine, units, now>>

(* A key pressed, a lost connection.                                       *)
Interrupt ==
    /\ tool # NoTool
    /\ Use("faults")
    /\ Done
    /\ UNCHANGED <<machine, units, now>>

(* He edits the settings, or the files and services that they name.        *)
Edit(content, bases) ==
    /\ env.content # "absent"
    /\ tool = NoTool
    /\ Use("edits")
    /\ \E mode \in {env.mode, FALSE}, fit \in BOOLEAN :
          /\ content = "broken" => fit
          /\ env' = [content |-> content, bases |-> bases, mode |-> mode,
                     fit |-> fit]
    /\ UNCHANGED <<source, service, proc, dir, owner, units, tool, now>>

Checkout ==
    /\ Use("edits")
    /\ \E v \in Versions : v > source /\ source' = v
    /\ UNCHANGED <<env, service, proc, dir, owner, units, tool, now>>

-----------------------------------------------------------------------------
(* prepare, and the first half of install_service.sh.                      *)
AfterStep == [prepare |-> [directories |-> "settings", settings |-> "modes", modes |-> "logs",
                           logs |-> "data", data |-> "keys", keys |-> "none"],
              script |-> [settings |-> "modes", modes |-> "keys", keys |-> "logs",
                          logs |-> "data", data |-> "unit"]]
GoOn(cmd) == IF AfterStep[cmd][tool.step] = "none" THEN Done ELSE Goto(AfterStep[cmd][tool.step])

(* mkdir leaves a directory that is there as it is.                        *)
MadeBy_Always(who, o) == who
MadeBy(who, o) == IF o = "none" THEN who ELSE o
Directories ==
    /\ At("prepare", "directories")
    /\ dir' = [dir EXCEPT !.data = MadeBy("root", @), !.logs = MadeBy("root", @)]
    /\ GoOn("prepare")
    /\ UNCHANGED <<env, source, service, proc, owner, units, now, used>>

(* The script creates the file with the mode and group it is to have.      *)
CreateOnce(cmd, content) ==
    IF content # "absent" THEN env
    ELSE [env EXCEPT !.content = "template", !.mode = cmd = "script"]
Settings(cmd) ==
    /\ At(cmd, "settings")
    /\ env' = CreateOnce(cmd, env.content)
    /\ GoOn(cmd)
    /\ UNCHANGED <<source, service, proc, dir, owner, units, now, used>>

(* /etc/jarvis and the files in it; some of them the service could perhaps *)
(* not read before.                                                        *)
Modes(cmd) ==
    /\ At(cmd, "modes")
    /\ \E fit \in {env.fit, TRUE} : env' = [env EXCEPT !.mode = TRUE, !.fit = fit]
    /\ GoOn(cmd)
    /\ UNCHANGED <<source, service, proc, dir, owner, units, now, used>>

(* Every key in /etc/jarvis/keys becomes readable to the group, and the    *)
(* SSH agent accepts no such key, if the operator keeps one of its there.  *)
Keys(cmd) ==
    /\ At(cmd, "keys")
    /\ \E fit \in {env.fit, FALSE} : env' = [env EXCEPT !.fit = fit]
    /\ GoOn(cmd)
    /\ UNCHANGED <<source, service, proc, dir, owner, units, now, used>>

(* The log and the data directory become the service's, one by one; what is*)
(* in them does not.                                                       *)
Owners(cmd, home) ==
    /\ At(cmd, home)
    /\ dir' = [dir EXCEPT ![home] = "jarvis"]
    /\ GoOn(cmd)
    /\ UNCHANGED <<env, source, service, proc, owner, units, now, used>>

-----------------------------------------------------------------------------
(* validate: it opens, and so creates and migrates, every database that the*)
(* settings turn on.                                                       *)
Loads == env.content \in {"unready", "complete"}
Ready == env.content = "complete" /\ env.mode
Homes == {"state", "data", "logs"}
Home(d) == IF d \in StateBases THEN "state" ELSE "data"
Opened(d) == IF Loads /\ d \in env.bases THEN MadeBy("root", owner[d]) ELSE owner[d]
OpenedDir(h) == IF Loads /\ \E d \in env.bases : Home(d) = h THEN MadeBy("root", dir[h]) ELSE dir[h]
AfterValidation == [validate |-> "none", install |-> "backup", start |-> "start"]
Validate(cmd) ==
    /\ At(cmd, "validate")
    /\ owner' = [d \in Databases |-> Opened(d)]
    /\ dir' = [h \in Homes |-> OpenedDir(h)]
    /\ IF \/ cmd = "validate"
          \/ ~Ready
          \/ cmd = "start" /\ installed = NoUnit
       THEN Done ELSE Goto(AfterValidation[cmd])
    /\ UNCHANGED <<env, source, service, proc, units, now, used>>

(* family_access_migration.py --apply: it creates the database, or changes *)
(* it, as root, and then hands it over.  It ends at once if it cannot read *)
(* the settings, or a database is damaged.                                 *)
Migrate ==
    /\ At("migrate", "migrate")
    /\ \/ /\ Loads
          /\ owner' = [owner EXCEPT ![Access] = MadeBy("root", @)]
          /\ dir' = [dir EXCEPT !.state = MadeBy("root", @)]
          /\ Goto("handover")
       \/ /\ ~Loads \/ \E d \in Databases : owner[d] # "none"
          /\ Done
          /\ UNCHANGED <<dir, owner>>
    /\ UNCHANGED <<env, source, service, proc, units, now, used>>
HandOver ==
    /\ At("migrate", "handover")
    /\ owner' = [owner EXCEPT ![Access] = "jarvis"]
    /\ Done
    /\ UNCHANGED <<env, source, service, proc, dir, units, now, used>>

-----------------------------------------------------------------------------
(* install                                                                 *)

(* The stamp has a resolution of one second: a second backup replaces the  *)
(* first.                                                                  *)
BackedUp_FirstOnly == IF backups = {} THEN {[at |-> now, unit |-> installed]} ELSE backups
BackedUp == {b \in backups : b.at # now} \union {[at |-> now, unit |-> installed]}
Backup ==
    /\ At("install", "backup")
    /\ backups' = IF installed = NoUnit THEN backups ELSE BackedUp
    /\ tool' = [tool EXCEPT !.step = "copy", !.found = installed]
    /\ undo' = NoUnit
    /\ UNCHANGED <<machine, installed, now, used>>
Copy ==
    /\ At("install", "copy")
    /\ installed' = source
    /\ undo' = tool.found
    /\ Goto("reload")
    /\ UNCHANGED <<machine, backups, now, used>>

(* systemctl with check=True: its failure ends the command.                *)
Reload ==
    /\ At("install", "reload")
    /\ \/ Goto("enable") /\ UNCHANGED used
       \/ Done /\ Use("faults")
    /\ UNCHANGED <<machine, units, now>>
ReloadAndEnd(cmd) ==
    /\ At(cmd, "reload")
    /\ Done
    /\ UNCHANGED <<machine, units, now, used>>
Enable ==
    /\ At("install", "enable")
    /\ \/ service' = [service EXCEPT !.enabled = TRUE] /\ UNCHANGED used
       \/ UNCHANGED service /\ Use("faults")
    /\ Done
    /\ UNCHANGED <<env, source, proc, dir, owner, units, now>>

(* install_service.sh copies the unit and keeps no backup.                 *)
CopyUnsaved ==
    /\ At("script", "unit")
    /\ installed' = source
    /\ undo' = NoUnit
    /\ Goto("reload")
    /\ UNCHANGED <<machine, backups, now, used>>

-----------------------------------------------------------------------------
(* start: a start of an active unit changes nothing, and its failure is not*)
(* looked at; the probe that follows only reads.                           *)
Start ==
    /\ At("start", "start")
    /\ \/ service' = [service EXCEPT !.active = TRUE, !.wanted = TRUE] /\ UNCHANGED used
       \/ UNCHANGED service /\ Use("faults")
    /\ Goto("probe")
    /\ UNCHANGED <<env, source, proc, dir, owner, units, now>>
Probe ==
    /\ At("start", "probe")
    /\ Done
    /\ UNCHANGED <<machine, units, now, used>>

(* rollback: neither the failure to stop nor the failure to disable ends it*)
Stop ==
    /\ At("rollback", "stop")
    /\ \/ service' = [service EXCEPT !.active = FALSE, !.wanted = FALSE] /\ proc' = Down /\ UNCHANGED used
       \/ UNCHANGED <<service, proc>> /\ Use("faults")
    /\ Goto("disable")
    /\ UNCHANGED <<env, source, dir, owner, units, now>>
Disable ==
    /\ At("rollback", "disable")
    /\ \/ service' = [service EXCEPT !.enabled = FALSE] /\ UNCHANGED used
       \/ UNCHANGED service /\ Use("faults")
    /\ Goto("restore")
    /\ UNCHANGED <<env, source, proc, dir, owner, units, now>>
Latest_Oldest == CHOOSE b \in backups : \A c \in backups : b.at <= c.at
Latest == CHOOSE b \in backups : \A c \in backups : c.at <= b.at
Restore ==
    /\ At("rollback", "restore")
    /\ installed' = IF backups = {} THEN installed ELSE Latest.unit
    /\ undo' = NoUnit
    /\ Goto("reload")
    /\ UNCHANGED <<machine, backups, now, used>>

-----------------------------------------------------------------------------
(* systemd and the service process.                                        *)

(* Before it starts the process systemd sees to the state directory: if it *)
(* is not the service's, it becomes so with everything in it.              *)
TakenOver(d) == IF d \in StateBases /\ dir.state # "jarvis" /\ owner[d] # "none"
                THEN "jarvis" ELSE owner[d]
(* ReadWritePaths asks for both directories, configure_logging for a log it *)
(* can write.                                                              *)
Lodged == dir.data # "none" /\ dir.logs = "jarvis"

(* What a start needs besides its databases.                               *)
Checked == Loads /\ Lodged /\ env.fit

(* main, before the bot is built: the settings, the logs, the self-check and*)
(* the health server.  Settings that do not fit fail here or later.        *)
Boot ==
    /\ service.active /\ proc.at = "down"
    /\ dir' = [dir EXCEPT !.state = "jarvis"]
    /\ owner' = [d \in Databases |-> TakenOver(d)]
    /\ \/ Loads /\ Lodged /\ proc' = [at |-> "healthy", uses |-> env.bases, fit |-> env.fit]
       \/ ~Checked /\ proc' = Down
    /\ UNCHANGED <<env, source, service, units, tool, now, used>>

(* build_application opens the databases, and run_polling begins.          *)
Writable(d) == \/ owner[d] = "jarvis"
               \/ owner[d] = "none" /\ dir[Home(d)] = "jarvis"
OpenedBy(opened) == [d \in Databases |-> IF d \in opened THEN "jarvis" ELSE owner[d]]
Build ==
    /\ proc.at = "healthy" /\ proc.fit /\ \A d \in proc.uses : Writable(d)
    /\ owner' = OpenedBy(proc.uses)
    /\ proc' = [proc EXCEPT !.at = "polling"]
    /\ UNCHANGED <<env, source, service, dir, units, tool, now, used>>

(* Restart=on-failure: an exception leaves the unit active.                *)
Exit_Quietly == service' = [service EXCEPT !.active = FALSE]
Exit == service' = service

(* Some databases may have been opened before.                             *)
BuildFails ==
    /\ proc.at = "healthy" /\ (~proc.fit \/ \E d \in proc.uses : ~Writable(d))
    /\ \E opened \in SUBSET {d \in proc.uses : Writable(d)} : owner' = OpenedBy(opened)
    /\ Exit
    /\ proc' = Down
    /\ UNCHANGED <<env, source, dir, units, tool, now, used>>
Crash ==
    /\ proc.at # "down"
    /\ Use("faults")
    /\ Exit
    /\ proc' = Down
    /\ UNCHANGED <<env, source, dir, owner, units, tool, now>>

Tick == now < MaxTime /\ now' = now + 1 /\ UNCHANGED <<machine, units, tool, used>>

ServiceStep == Boot \/ Build \/ BuildFails
ToolStep ==
    \/ Directories
    \/ \E cmd \in {"prepare", "script"} :
          Settings(cmd) \/ Modes(cmd) \/ Keys(cmd) \/ Owners(cmd, "logs") \/ Owners(cmd, "data")
    \/ \E cmd \in {"validate", "install", "start"} : Validate(cmd)
    \/ Migrate \/ HandOver
    \/ Backup \/ Copy \/ Enable \/ CopyUnsaved
    \/ Reload \/ ReloadAndEnd("script") \/ ReloadAndEnd("rollback")
    \/ Start \/ Probe
    \/ Stop \/ Disable \/ Restore
Next ==
    \/ \E cmd \in Commands : Begin(cmd)
    \/ Interrupt
    \/ \E content \in {"broken", "unready", "complete"}, bases \in Selections : Edit(content, bases)
    \/ Checkout
    \/ ToolStep
    \/ ServiceStep
    \/ Crash
    \/ Tick

Spec == Init /\ [][Next]_vars

(* systemd restarts the process and the process goes on; the operator and  *)
(* the faults promise nothing.                                             *)
FairSpec == Spec /\ WF_vars(ServiceStep)

-----------------------------------------------------------------------------
TypeOK ==
    /\ env \in [content : Contents, bases : SUBSET Databases, mode : BOOLEAN, fit : BOOLEAN]
    /\ source \in Versions
    /\ installed \in Versions \union {NoUnit}
    /\ backups \subseteq [at : 0..MaxTime, unit : Versions]
    /\ \A b, c \in backups : b.at = c.at => b = c
    /\ service \in [enabled : BOOLEAN, active : BOOLEAN, wanted : BOOLEAN]
    /\ proc \in [at : {"down", "healthy", "polling"}, uses : SUBSET Databases, fit : BOOLEAN]
    /\ proc.at # "down" => service.active
    /\ proc.at = "polling" => \A d \in proc.uses : owner[d] = "jarvis"
    /\ dir \in [Homes -> {"none", "root", "jarvis"}]
    /\ owner \in [Databases -> {"none", "root", "jarvis"}]
    /\ now \in 0..MaxTime
    /\ undo \in Versions \union {NoUnit}

(* A rollback puts back the unit that the last install replaced, however   *)
(* many backups there are, if that install and the rollback got that far   *)
(* and nothing else has touched the unit in between (rollback's            *)
(* sorted(...)[-1] against install's stamps).                              *)
RollbackUndoes == [][Restore /\ undo # NoUnit => installed' = undo]_vars

(* A unit that was installed stays installed or backed up: only the old    *)
(* installer, a rollback and a second backup in one second lose one.  And  *)
(* what the operator wrote into the settings only the operator changes.    *)
Kept == {installed} \union {b.unit : b \in backups}
NothingLost ==
    [][/\ \/ Kept \ {NoUnit} \subseteq Kept'
          \/ CopyUnsaved \/ Restore
          \/ Backup /\ \E b \in backups : b.at = now
       /\ env.content # env'.content => env.content = "absent" \/ tool = NoTool]_vars

(* Whatever the service's process and its databases do, systemd keeps a    *)
(* unit up that the operator wants up: no exit and no failed start takes   *)
(* it down (Restart=on-failure and a `main` that raises).                  *)
WantedUp == service.wanted => service.active

(* The settings load and fit, the log directory is the service's, and the  *)
(* databases can be written once systemd has handed over the state         *)
(* directory.                                                              *)
Startable ==
    /\ Checked
    /\ \A d \in env.bases : \/ TakenOver(d) = "jarvis"
                            \/ owner[d] = "none" /\ (d \in StateBases \/ dir.data = "jarvis")

(* Nothing takes that away but the operator's edit, the new modes of the   *)
(* keys, and root that creates a database in a directory which is the      *)
(* service's already (validate does so before the first start): nothing    *)
(* else that prepare, the installers, a migration or a rollback do, and    *)
(* neither systemd nor the service itself.                                 *)
StaysStartable ==
    [][Startable /\ ~Startable' =>
          \/ tool = NoTool /\ env' # env
          \/ tool.step = "keys" /\ ~env'.fit
          \/ \E d \in env.bases : dir[Home(d)] = "jarvis" /\ owner[d] = "none" /\ owner'[d] = "root"]_vars

(* A service that the operator has started and that could run once systemd *)
(* has handed it the state directory is polling sooner or later, whatever  *)
(* made it exit before: settings that did not fit then, directories that   *)
(* were not there, databases it could not write.                           *)
RetriedUntilItRuns ==
    service.wanted /\ Startable ~> proc.at = "polling" \/ ~service.wanted \/ ~Startable

=============================================================================
