---------------------------- MODULE RolloutProof ----------------------------
(***************************************************************************)
(* Proofs about Rollout, for every set of databases and of versions of the *)
(* unit, and any number of commands, edits, faults and seconds.            *)
(***************************************************************************)
EXTENDS Rollout, TLAPS

-----------------------------------------------------------------------------
(* The inductive invariant.                                                *)

Units == Versions \union {NoUnit}
Steps == {"none", "directories", "settings", "modes", "keys", "logs", "data", "unit", "validate",
          "migrate", "handover", "backup", "copy",
          "reload", "enable", "start", "probe", "stop", "disable", "restore"}
Tools == [cmd : Commands \union {"none"}, step : Steps, found : Units]

UnitsTyped ==
    /\ source \in Versions
    /\ installed \in Units
    /\ undo \in Units
    /\ backups \subseteq [at : 0..MaxTime, unit : Versions]
    /\ now \in 0..MaxTime
    /\ tool \in Tools

Envs == [content : Contents, bases : SUBSET Databases, mode : BOOLEAN, fit : BOOLEAN]
Procs == [at : {"down", "healthy", "polling"}, uses : SUBSET Databases, fit : BOOLEAN]

MachineTyped ==
    /\ env \in Envs
    /\ service \in [enabled : BOOLEAN, active : BOOLEAN, wanted : BOOLEAN]
    /\ proc \in Procs
    /\ proc.at # "down" => service.active
    /\ proc.at = "polling" => \A d \in proc.uses : owner[d] = "jarvis"
    /\ dir \in [Homes -> {"none", "root", "jarvis"}]
    /\ owner \in [Databases -> {"none", "root", "jarvis"}]

(* Stamps are of the past, one second has one backup, and one backup is    *)
(* the latest.                                                             *)
StampsPast ==
    /\ \A b \in backups : b.at <= now
    /\ \A b, c \in backups : b.at = c.at => b = c
    /\ backups # {} => \E b \in backups : \A c \in backups : c.at <= b.at

IsLatest(unit) == \E b \in backups : b.unit = unit /\ \A c \in backups : c.at <= b.at

(* Before install copies the new unit, the one it found is still in place  *)
(* and is what the latest backup holds.                                    *)
FoundSaved ==
    At("install", "copy") =>
        /\ tool.found = installed
        /\ installed # NoUnit => IsLatest(installed)

UndoSaved == undo # NoUnit => IsLatest(undo)

UInv == UnitsTyped /\ StampsPast /\ FoundSaved /\ UndoSaved
IInv == UInv /\ MachineTyped

(* What prepare and the script do to settings and directories.             *)
Setup(cmd) == Settings(cmd) \/ Modes(cmd) \/ Keys(cmd) \/ Owners(cmd, "logs") \/ Owners(cmd, "data")

-----------------------------------------------------------------------------

LEMMA InitUInv == Init => UInv
<1> SUFFICES ASSUME Init PROVE UInv
  OBVIOUS
<1>1. /\ source \in Versions /\ installed \in Units
      /\ backups = {} /\ undo = NoUnit /\ tool = NoTool /\ now = 0
  <2>1. CASE Clean
    BY <2>1 DEF Init, Clean, Units
  <2>2. CASE InUse
    BY <2>2 DEF Init, InUse, Units
  <2>3. QED BY <2>1, <2>2 DEF Init
<1>2. UnitsTyped
  BY <1>1, RolloutAssumption DEF UnitsTyped, NoTool, Units, Tools, Steps
<1>3. StampsPast /\ UndoSaved
  BY <1>1 DEF StampsPast, UndoSaved
<1>4. FoundSaved
  BY <1>1 DEF FoundSaved, NoTool, At
<1>5. QED BY <1>2, <1>3, <1>4 DEF UInv

(* A step that leaves the units alone, other than from backup to copy.     *)
LEMMA QuietStep ==
  ASSUME UInv, UNCHANGED <<units, now>>, source' \in Versions,
         tool' \in Tools,
         tool' = tool \/ ~At("install", "copy")'
  PROVE  UInv'
  BY DEF UInv, UnitsTyped, StampsPast, FoundSaved, UndoSaved, IsLatest, units, At

(* The steps of the operator, of systemd and of the service.               *)
LEMMA SurroundingsStep ==
  ASSUME UInv,
         \/ Interrupt \/ Checkout \/ ServiceStep \/ Crash
         \/ \E content \in Contents, bases \in Selections : Edit(content, bases)
  PROVE  UInv'
<1> USE DEF UInv, UnitsTyped
<1>1. CASE Interrupt
  <2>1. /\ UNCHANGED <<units, now>> /\ source' = source /\ tool' = NoTool
    BY <1>1 DEF Interrupt, machine, Done
  <2>2. NoTool \in Tools
    BY DEF NoTool, Units, Tools, Steps
  <2>3. ~At("install", "copy")'
    BY <2>1 DEF At, NoTool
  <2>4. QED BY <2>1, <2>2, <2>3, QuietStep
<1>2. CASE \/ Checkout \/ ServiceStep \/ Crash
           \/ \E content \in Contents, bases \in Selections : Edit(content, bases)
  <2>1. UNCHANGED <<units, now, tool>> /\ source' \in Versions
    BY <1>2 DEF Checkout, ServiceStep, Boot, Build, BuildFails, Crash, Edit, units
  <2>2. QED BY <2>1, QuietStep
<1>3. QED BY <1>1, <1>2

(* prepare and the script go through their steps and leave all else alone. *)
LEMMA SetupGoesOn ==
  ASSUME NEW cmd \in {"prepare", "script"}, Directories \/ Setup(cmd)
  PROVE  /\ UNCHANGED <<source, service, proc, owner, units, now>>
         /\ \/ tool' = NoTool
            \/ \E step \in {"settings", "modes", "keys", "logs", "data", "unit"} :
                  tool' = [tool EXCEPT !.step = step]
<1> USE DEF At, GoOn, AfterStep, Goto, Done
<1>1. CASE Directories
  BY <1>1 DEF Directories
<1>2. CASE Settings(cmd)
  BY <1>2 DEF Settings
<1>3. CASE Modes(cmd)
  BY <1>3 DEF Modes
<1>4. CASE Keys(cmd)
  BY <1>4 DEF Keys
<1>5. CASE Owners(cmd, "logs") \/ Owners(cmd, "data")
  BY <1>5 DEF Owners
<1>6. QED BY <1>1, <1>2, <1>3, <1>4, <1>5 DEF Setup

(* The steps of the commands that leave the units alone.                   *)
LEMMA ToolQuietStep ==
  ASSUME UInv,
         \/ \E cmd \in Commands : Begin(cmd)
         \/ Directories \/ \E cmd \in {"prepare", "script"} : Setup(cmd)
         \/ \E cmd \in {"validate", "install", "start"} : Validate(cmd)
         \/ Migrate \/ HandOver \/ Enable
         \/ Reload \/ ReloadAndEnd("script") \/ ReloadAndEnd("rollback")
         \/ Start \/ Probe \/ Stop \/ Disable
  PROVE  UInv'
<1>0. tool \in Tools /\ NoTool \in Tools /\ source \in Versions
  BY DEF UInv, UnitsTyped, NoTool, Units, Tools, Steps
<1>1. UNCHANGED <<units, now>> /\ source' = source
  BY SetupGoesOn DEF Begin, Validate, Migrate, HandOver, Enable, Reload, ReloadAndEnd,
     Start, Probe, Stop, Disable, machine, units
<1>2. \/ tool' = NoTool
      \/ \E cmd \in Commands : tool' = [NoTool EXCEPT !.cmd = cmd, !.step = FirstStep[cmd]]
      \/ \E step \in {"settings", "modes", "keys", "logs", "data", "unit", "handover", "backup",
                      "start", "enable", "probe", "disable", "restore"} :
            tool' = [tool EXCEPT !.step = step]
  <2>1. ASSUME NEW cmd \in {"validate", "install", "start"}, Validate(cmd)
        PROVE  tool' = NoTool \/ tool' = [tool EXCEPT !.step = "backup"]
                              \/ tool' = [tool EXCEPT !.step = "start"]
    BY <2>1 DEF Validate, Done, Goto, AfterValidation
  <2>2. CASE Directories \/ \E cmd \in {"prepare", "script"} : Setup(cmd)
    BY <2>2, SetupGoesOn
  <2>3. CASE Migrate \/ HandOver
    BY <2>3 DEF Migrate, HandOver, Goto, Done
  <2>4. QED
    BY <2>1, <2>2, <2>3 DEF Begin, Enable, Reload, ReloadAndEnd, Start, Probe, Stop, Disable, Goto, Done
<1>3. tool' \in Tools /\ ~At("install", "copy")'
  <2>1. CASE tool' = NoTool
    BY <2>1, <1>0 DEF At, NoTool
  <2>2. ASSUME NEW cmd \in Commands, tool' = [NoTool EXCEPT !.cmd = cmd, !.step = FirstStep[cmd]]
        PROVE  tool' \in Tools /\ ~At("install", "copy")'
    <3>1. FirstStep[cmd] \in Steps /\ FirstStep[cmd] # "copy"
      BY DEF FirstStep, Commands, Steps
    <3>2. QED BY <2>2, <3>1, <1>0 DEF At, NoTool, Tools
  <2>3. ASSUME NEW step \in {"settings", "modes", "keys", "logs", "data", "unit", "handover", "backup",
                            "start", "enable", "probe", "disable", "restore"},
               tool' = [tool EXCEPT !.step = step]
        PROVE  tool' \in Tools /\ ~At("install", "copy")'
    BY <2>3, <1>0 DEF At, Tools, Steps
  <2>4. QED BY <1>2, <2>1, <2>2, <2>3
<1>4. QED BY <1>0, <1>1, <1>3, QuietStep

(* install makes the found unit the latest backup ...                      *)
LEMMA BackupStep == ASSUME UInv, Backup PROVE UInv'
<1> USE DEF UInv, UnitsTyped, StampsPast
<1>1. /\ installed' = installed /\ source' = source /\ now' = now /\ undo' = NoUnit
      /\ tool' = [tool EXCEPT !.step = "copy", !.found = installed]
      /\ backups' = IF installed = NoUnit THEN backups ELSE BackedUp
  BY DEF Backup, machine
<1>2. UnitsTyped'
  <2>1. tool' \in Tools
    BY <1>1 DEF Tools, Steps
  <2>2. backups' \subseteq [at : 0..MaxTime, unit : Versions]
    BY <1>1 DEF BackedUp, Units
  <2>3. QED BY <1>1, <2>1, <2>2 DEF Units
<1>3. StampsPast'
  <2>1. CASE installed = NoUnit
    BY <1>1, <2>1
  <2>2. CASE installed # NoUnit
    <3> DEFINE saved == [at |-> now, unit |-> installed]
    <3>1. backups' = {b \in backups : b.at # now} \union {saved}
      BY <1>1, <2>2 DEF BackedUp
    <3>2. \A c \in backups' : c.at <= now /\ (c.at = now => c = saved)
      BY <3>1
    <3>3. \A b, c \in backups' : b.at = c.at => b = c
      BY <3>1
    <3>4. saved \in backups' /\ \A c \in backups' : c.at <= saved.at
      BY <3>1, <3>2
    <3>5. QED BY <1>1, <3>2, <3>3, <3>4
  <2>3. QED BY <2>1, <2>2
<1>4. FoundSaved'
  <2>1. tool'.found = installed'
    BY <1>1
  <2>2. ASSUME installed # NoUnit PROVE IsLatest(installed)'
    <3> DEFINE saved == [at |-> now, unit |-> installed]
    <3>1. saved \in backups' /\ saved.unit = installed'
      BY <2>2, <1>1 DEF BackedUp
    <3>2. \A c \in backups' : c.at <= saved.at
      BY <2>2, <1>1 DEF BackedUp
    <3>3. QED BY <3>1, <3>2 DEF IsLatest
  <2>3. QED BY <2>1, <2>2, <1>1 DEF FoundSaved
<1>5. QED BY <1>1, <1>2, <1>3, <1>4 DEF UndoSaved

(* ... and replaces it.                                                    *)
LEMMA CopyStep == ASSUME UInv, Copy PROVE UInv'
<1> USE DEF UInv, UnitsTyped
<1>1. /\ installed' = source /\ undo' = tool.found /\ tool' = [tool EXCEPT !.step = "reload"]
      /\ UNCHANGED <<source, now, backups>>
  BY DEF Copy, machine, Goto
<1>2. UnitsTyped'
  BY <1>1 DEF Units, Tools, Steps
<1>3. FoundSaved'
  BY <1>1 DEF FoundSaved, At
<1>4. UndoSaved'
  BY <1>1 DEF Copy, FoundSaved, UndoSaved, IsLatest
<1>5. StampsPast'
  BY <1>1 DEF StampsPast
<1>6. QED BY <1>2, <1>3, <1>4, <1>5

LEMMA LatestUnit ==
  ASSUME UInv, NEW unit, IsLatest(unit)
  PROVE  backups # {} /\ Latest \in backups /\ Latest.unit = unit
  BY DEF UInv, UnitsTyped, StampsPast, IsLatest, Latest

LEMMA OtherUnitStep == ASSUME UInv, CopyUnsaved \/ Restore PROVE UInv'
<1> USE DEF UInv, UnitsTyped
<1>1. /\ undo' = NoUnit /\ tool' = [tool EXCEPT !.step = "reload"]
      /\ UNCHANGED <<source, now, backups>>
  BY DEF CopyUnsaved, Restore, machine, Goto
<1>2. installed' \in Units
  <2>1. CASE CopyUnsaved
    BY <2>1 DEF CopyUnsaved, Units
  <2>2. CASE Restore /\ backups # {}
    <3>1. Latest \in backups
      BY <2>2 DEF StampsPast, Latest
    <3>2. QED BY <3>1, <2>2 DEF Restore, Units
  <2>3. CASE Restore /\ backups = {}
    BY <2>3 DEF Restore
  <2>4. QED BY <2>1, <2>2, <2>3
<1>3. UnitsTyped'
  BY <1>1, <1>2 DEF Units, Tools, Steps
<1>4. FoundSaved' /\ UndoSaved' /\ StampsPast'
  BY <1>1 DEF FoundSaved, UndoSaved, StampsPast, At
<1>5. QED BY <1>3, <1>4

LEMMA TickStep == ASSUME UInv, Tick PROVE UInv'
<1>1. /\ now' = now + 1 /\ now < MaxTime /\ UNCHANGED <<units, tool, source>>
  BY DEF Tick, machine
<1>2. UnitsTyped'
  BY <1>1, RolloutAssumption DEF UInv, UnitsTyped, units
<1>3. StampsPast'
  BY <1>1 DEF UInv, UnitsTyped, StampsPast, units
<1>4. FoundSaved' /\ UndoSaved'
  BY <1>1 DEF UInv, FoundSaved, UndoSaved, IsLatest, At, units
<1>5. QED BY <1>2, <1>3, <1>4 DEF UInv

LEMMA NextUInv == UInv /\ [Next]_vars => UInv'
<1> SUFFICES ASSUME UInv, [Next]_vars PROVE UInv'
  OBVIOUS
<1>1. CASE \E cmd \in Commands : Begin(cmd)
  BY <1>1, ToolQuietStep
<1>2. CASE Interrupt \/ Checkout \/ ServiceStep \/ Crash
  BY <1>2, SurroundingsStep
<1>3. CASE \E content \in {"broken", "unready", "complete"}, bases \in Selections : Edit(content, bases)
  BY <1>3, SurroundingsStep DEF Contents
<1>4. CASE ToolStep
  <2>1. CASE Backup
    BY <2>1, BackupStep
  <2>2. CASE Copy
    BY <2>2, CopyStep
  <2>3. CASE CopyUnsaved \/ Restore
    BY <2>3, OtherUnitStep
  <2>4. CASE ~(Backup \/ Copy \/ CopyUnsaved \/ Restore)
    BY <1>4, <2>4, ToolQuietStep DEF ToolStep, Setup
  <2>5. QED BY <2>1, <2>2, <2>3, <2>4
<1>5. CASE Tick
  BY <1>5, TickStep
<1>6. CASE UNCHANGED vars
  BY <1>6 DEF vars, machine, units, UInv, UnitsTyped, StampsPast, FoundSaved, UndoSaved, IsLatest, At
<1>7. QED BY <1>1, <1>2, <1>3, <1>4, <1>5, <1>6 DEF Next

-----------------------------------------------------------------------------
(* The machine.                                                            *)

LEMMA InitMachine == Init => MachineTyped
<1> SUFFICES ASSUME Init PROVE MachineTyped
  OBVIOUS
<1>1. Access \in Databases
  BY RolloutAssumption DEF Databases
<1>2. CASE Clean
  BY <1>1, <1>2 DEF Clean, MachineTyped, Contents, Down, Envs, Procs, Homes
<1>3. CASE InUse
  BY <1>1, <1>3 DEF InUse, MachineTyped, Contents, Envs, Procs, Homes
<1>4. QED BY <1>2, <1>3 DEF Init

(* A step that leaves the service, its process and the databases alone.    *)
LEMMA IdleStep ==
  ASSUME MachineTyped, UNCHANGED <<service, proc, owner>>,
         env' \in Envs,
         dir' \in [Homes -> {"none", "root", "jarvis"}]
  PROVE  MachineTyped'
  BY DEF MachineTyped

LEMMA SettingsStep ==
  ASSUME MachineTyped,
         \/ Directories \/ \E cmd \in {"prepare", "script"} : Setup(cmd)
         \/ \E content \in Contents, bases \in Selections : Edit(content, bases)
  PROVE  MachineTyped'
<1>1. CASE Directories
  <2>1. dir' \in [Homes -> {"none", "root", "jarvis"}]
    BY <1>1 DEF Directories, MadeBy, MachineTyped, Homes
  <2>2. QED BY <1>1, <2>1, IdleStep DEF Directories, MachineTyped
<1>2. ASSUME NEW cmd \in {"prepare", "script"}, Settings(cmd) \/ Modes(cmd) \/ Keys(cmd)
      PROVE  MachineTyped'
  <2>1. env' \in Envs
    <3>1. CASE Settings(cmd)
      BY <3>1 DEF Settings, CreateOnce, Contents, MachineTyped, Envs
    <3>2. ASSUME NEW fit \in BOOLEAN,
                 env' = [env EXCEPT !.mode = TRUE, !.fit = fit] \/ env' = [env EXCEPT !.fit = fit]
          PROVE  env' \in Envs
      BY <3>2 DEF MachineTyped, Envs
    <3>3. env.fit \in BOOLEAN
      BY DEF MachineTyped, Envs
    <3>4. QED BY <1>2, <3>1, <3>2, <3>3 DEF Modes, Keys
  <2>2. UNCHANGED <<service, proc, owner, dir>>
    BY <1>2 DEF Settings, Modes, Keys
  <2>3. QED BY <2>1, <2>2, IdleStep DEF MachineTyped
<1>3. ASSUME NEW cmd \in {"prepare", "script"}, Owners(cmd, "logs") \/ Owners(cmd, "data")
      PROVE  MachineTyped'
  <2>1. dir' \in [Homes -> {"none", "root", "jarvis"}]
    BY <1>3 DEF Owners, MachineTyped, Homes
  <2>2. QED BY <1>3, <2>1, IdleStep DEF Owners, MachineTyped
<1>4. ASSUME NEW content \in Contents, NEW bases \in Selections, Edit(content, bases)
      PROVE  MachineTyped'
  <2>1. PICK mode \in {env.mode, FALSE}, fit \in BOOLEAN :
          env' = [content |-> content, bases |-> bases, mode |-> mode, fit |-> fit]
    BY <1>4 DEF Edit
  <2>2. mode \in BOOLEAN /\ bases \in SUBSET Databases
    BY RolloutAssumption DEF MachineTyped, Databases, Envs
  <2>3. env' \in Envs
    BY <2>1, <2>2 DEF Envs
  <2>4. QED BY <1>4, <2>3, IdleStep DEF Edit, MachineTyped
<1>5. QED BY <1>1, <1>2, <1>3, <1>4 DEF Setup

(* validate and the migration create databases and leave those of the      *)
(* service as they are.                                                    *)
LEMMA OpeningStep ==
  ASSUME MachineTyped,
         Migrate \/ HandOver \/ \E cmd \in {"validate", "install", "start"} : Validate(cmd)
  PROVE  MachineTyped'
<1>1. UNCHANGED <<env, service, proc>>
  BY DEF Migrate, HandOver, Validate
<1>2. owner' \in [Databases -> {"none", "root", "jarvis"}]
  BY RolloutAssumption DEF Migrate, HandOver, Validate, Opened, MadeBy, MachineTyped, Databases
<1>3. dir' \in [Homes -> {"none", "root", "jarvis"}]
  BY DEF Migrate, HandOver, Validate, OpenedDir, MadeBy, MachineTyped
<1>4. \A d \in Databases : owner[d] = "jarvis" => owner'[d] = "jarvis"
  BY DEF Migrate, HandOver, Validate, Opened, MadeBy, MachineTyped
<1>5. QED BY <1>1, <1>2, <1>3, <1>4 DEF MachineTyped, Procs

(* systemctl starts, stops and enables.                                    *)
LEMMA SystemctlStep ==
  ASSUME MachineTyped, Enable \/ Start \/ Stop \/ Disable
  PROVE  MachineTyped'
<1>1. CASE Enable \/ Start \/ Disable
  <2>1. UNCHANGED <<env, proc, dir, owner>>
    BY <1>1 DEF Enable, Start, Disable
  <2>2. service' \in [enabled : BOOLEAN, active : BOOLEAN, wanted : BOOLEAN]
    BY <1>1 DEF Enable, Start, Disable, MachineTyped
  <2>3. service.active => service'.active
    BY <1>1 DEF Enable, Start, Disable, MachineTyped
  <2>4. QED BY <2>1, <2>2, <2>3 DEF MachineTyped
<1>2. CASE Stop
  <2>1. UNCHANGED <<env, dir, owner>>
    BY <1>2 DEF Stop
  <2>2. service' \in [enabled : BOOLEAN, active : BOOLEAN, wanted : BOOLEAN]
    BY <1>2 DEF Stop, MachineTyped
  <2>3. proc' = Down \/ (proc' = proc /\ service' = service)
    BY <1>2 DEF Stop
  <2>4. Down \in Procs /\ Down.at = "down"
    BY DEF Down, Procs
  <2>5. QED BY <2>1, <2>2, <2>3, <2>4 DEF MachineTyped
<1>3. QED BY <1>1, <1>2

(* The service's process goes on, or down.                                 *)
LEMMA ProcessStep ==
  ASSUME MachineTyped, ServiceStep \/ Crash
  PROVE  MachineTyped'
<1> USE DEF MachineTyped
<1>1. CASE Boot
  <2>1. dir' \in [Homes -> {"none", "root", "jarvis"}]
    BY <1>1 DEF Boot
  <2>2. owner' \in [Databases -> {"none", "root", "jarvis"}]
    BY <1>1 DEF Boot, TakenOver
  <2>3. proc' \in Procs /\ proc'.at # "polling"
    <3>1. env.bases \in SUBSET Databases /\ env.fit \in BOOLEAN
      BY DEF Envs
    <3>2. \A fit \in BOOLEAN :
            [at |-> "healthy", uses |-> env.bases, fit |-> fit] \in Procs
      BY <3>1 DEF Procs
    <3>3. Down \in Procs /\ Down.at = "down"
      BY DEF Down, Procs
    <3>4. proc' = [at |-> "healthy", uses |-> env.bases, fit |-> env.fit] \/ proc' = Down
      BY <1>1 DEF Boot
    <3>5. QED BY <3>1, <3>2, <3>3, <3>4
  <2>4. QED BY <1>1, <2>1, <2>2, <2>3 DEF Boot
<1>2. CASE Build
  <2>1. owner' \in [Databases -> {"none", "root", "jarvis"}] /\ \A d \in proc.uses : owner'[d] = "jarvis"
    BY <1>2 DEF Build, OpenedBy, Procs
  <2>2. /\ proc' \in Procs
        /\ proc'.uses = proc.uses
    BY <1>2 DEF Build, Procs
  <2>3. QED BY <1>2, <2>1, <2>2 DEF Build
<1>3. CASE BuildFails \/ Crash
  <2>1. UNCHANGED <<env, dir, service>> /\ proc' = Down
    BY <1>3 DEF BuildFails, Crash, Exit
  <2>2. owner' \in [Databases -> {"none", "root", "jarvis"}]
    BY <1>3 DEF BuildFails, Crash, OpenedBy
  <2>3. QED BY <2>1, <2>2 DEF Down, Procs
<1>4. QED BY <1>1, <1>2, <1>3 DEF ServiceStep

LEMMA MachineStep == MachineTyped /\ [Next]_vars => MachineTyped'
<1> SUFFICES ASSUME MachineTyped, [Next]_vars PROVE MachineTyped'
  OBVIOUS
<1>1. CASE ToolStep
  <2>1. CASE Backup \/ Copy \/ CopyUnsaved \/ Reload \/ ReloadAndEnd("script")
             \/ ReloadAndEnd("rollback") \/ Probe \/ Restore
    BY <2>1 DEF Backup, Copy, CopyUnsaved, Reload, ReloadAndEnd, Probe, Restore, machine, MachineTyped
  <2>2. QED BY <1>1, <2>1, SettingsStep, OpeningStep, SystemctlStep DEF ToolStep, Setup
<1>2. CASE Interrupt \/ Checkout \/ Tick \/ UNCHANGED vars
  BY <1>2 DEF Interrupt, Checkout, Tick, vars, machine, MachineTyped
<1>3. CASE \E cmd \in Commands : Begin(cmd)
  BY <1>3 DEF Begin, machine, MachineTyped
<1>4. CASE \E content \in {"broken", "unready", "complete"}, bases \in Selections : Edit(content, bases)
  BY <1>4, SettingsStep DEF Contents
<1>5. CASE ServiceStep \/ Crash
  BY <1>5, ProcessStep
<1>6. QED BY <1>1, <1>2, <1>3, <1>4, <1>5 DEF Next

-----------------------------------------------------------------------------
(* The inductive invariant: stamps of backups tell them apart, what install*)
(* is about to replace is the latest backup, and so is what a rollback     *)
(* would undo.                                                             *)
THEOREM RolloutInvariant == Spec => []IInv
<1>1. Init => IInv
  BY InitUInv, InitMachine DEF IInv
<1>2. IInv /\ [Next]_vars => IInv'
  BY NextUInv, MachineStep DEF IInv
<1>3. QED BY <1>1, <1>2, PTL DEF Spec

(* Type correctness, with what ties the process to its unit and to its     *)
(* databases: a process runs only while its unit is active, and a bot that *)
(* polls owns every database it opened.                                    *)
THEOREM RolloutTypes == Spec => []TypeOK
<1>1. IInv => TypeOK
  BY DEF IInv, UInv, UnitsTyped, StampsPast, MachineTyped, TypeOK, Units, Envs, Procs
<1>2. QED BY <1>1, RolloutInvariant, PTL

(* A rollback puts back the unit that the last complete install replaced,  *)
(* however many installs, backups and failures came before.                *)
THEOREM RollbackAlwaysUndoes == Spec => RollbackUndoes
<1>1. ASSUME IInv, Restore, undo # NoUnit PROVE installed' = undo
  <2>1. IsLatest(undo)
    BY <1>1 DEF IInv, UInv, UndoSaved
  <2>2. backups # {} /\ Latest.unit = undo
    BY <1>1, <2>1, LatestUnit DEF IInv
  <2>3. QED BY <1>1, <2>2 DEF Restore
<1>2. IInv => [Restore /\ undo # NoUnit => installed' = undo]_vars
  BY <1>1
<1>3. QED BY <1>2, RolloutInvariant, PTL DEF RollbackUndoes

-----------------------------------------------------------------------------

(* Which steps touch the installed unit and its backups.                   *)
LEMMA UnitsTouched ==
  ASSUME [Next]_vars
  PROVE  Backup \/ Copy \/ CopyUnsaved \/ Restore \/ UNCHANGED <<installed, backups>>
<1> USE DEF units, machine
<1>1. CASE ToolStep
  <2>1. CASE Directories \/ \E cmd \in {"prepare", "script"} : Setup(cmd)
    BY <2>1, SetupGoesOn
  <2>2. ASSUME NEW cmd \in {"validate", "install", "start"}, Validate(cmd)
        PROVE  UNCHANGED <<installed, backups>>
    BY <2>2 DEF Validate
  <2>3. QED
    BY <1>1, <2>1, <2>2 DEF ToolStep, Setup, Migrate, HandOver, Enable, Reload, ReloadAndEnd, Start,
       Probe, Stop, Disable
<1>2. CASE ServiceStep \/ Crash \/ Tick \/ Interrupt \/ Checkout \/ UNCHANGED vars
  BY <1>2 DEF ServiceStep, Boot, Build, BuildFails, Crash, Tick, Interrupt, Checkout, vars
<1>3. CASE \E cmd \in Commands : Begin(cmd)
  BY <1>3 DEF Begin
<1>4. CASE \E content \in {"broken", "unready", "complete"}, bases \in Selections : Edit(content, bases)
  BY <1>4 DEF Edit
<1>5. QED BY <1>1, <1>2, <1>3, <1>4 DEF Next

(* Which steps touch the settings.                                         *)
LEMMA SettingsTouched ==
  ASSUME MachineTyped, [Next]_vars
  PROVE  env.content # env'.content => env.content = "absent" \/ tool = NoTool
<1> USE DEF machine
<1>1. CASE ToolStep
  <2>1. ASSUME NEW cmd \in {"prepare", "script"}, Settings(cmd), env.content # "absent"
        PROVE  env'.content = env.content
    BY <2>1 DEF Settings, CreateOnce
  <2>2. ASSUME NEW cmd \in {"prepare", "script"}, Modes(cmd) \/ Keys(cmd)
        PROVE  env'.content = env.content
    BY <2>2 DEF Modes, Keys, MachineTyped, Envs
  <2>3. ASSUME NEW cmd \in {"prepare", "script"},
               Directories \/ Owners(cmd, "logs") \/ Owners(cmd, "data")
        PROVE  env' = env
    BY <2>3 DEF Directories, Owners
  <2>4. ASSUME NEW cmd \in {"validate", "install", "start"}, Validate(cmd)
        PROVE  env' = env
    BY <2>4 DEF Validate
  <2>5. QED
    BY <1>1, <2>1, <2>2, <2>3, <2>4 DEF ToolStep, Migrate, HandOver, Backup, Copy, Enable,
       CopyUnsaved, Reload, ReloadAndEnd, Start, Probe, Stop, Disable, Restore
<1>2. CASE ServiceStep \/ Crash \/ Tick \/ Interrupt \/ Checkout \/ UNCHANGED vars
  BY <1>2 DEF ServiceStep, Boot, Build, BuildFails, Crash, Tick, Interrupt, Checkout, vars
<1>3. CASE \E cmd \in Commands : Begin(cmd)
  BY <1>3 DEF Begin
<1>4. CASE \E content \in {"broken", "unready", "complete"}, bases \in Selections : Edit(content, bases)
  BY <1>4 DEF Edit
<1>5. QED BY <1>1, <1>2, <1>3, <1>4 DEF Next

(* A unit that was installed stays installed or backed up, but for the old *)
(* installer, a rollback and a second backup in one second; the settings   *)
(* are the operator's.                                                     *)
THEOREM NothingIsLost == Spec => NothingLost
<1> DEFINE Excepted == CopyUnsaved \/ Restore \/ (Backup /\ \E b \in backups : b.at = now)
<1>1. ASSUME IInv, [Next]_vars, ~Excepted
      PROVE  Kept \ {NoUnit} \subseteq Kept'
  <2>1. CASE Backup
    <3>1. backups \subseteq backups' /\ installed' = installed
      BY <1>1, <2>1 DEF Backup, BackedUp
    <3>2. QED BY <3>1 DEF Kept
  <2>2. CASE Copy
    <3>1. installed = NoUnit \/ \E b \in backups : b.unit = installed
      BY <1>1, <2>2 DEF IInv, UInv, FoundSaved, Copy, IsLatest
    <3>2. backups' = backups
      BY <2>2 DEF Copy
    <3>3. QED BY <3>1, <3>2 DEF Kept
  <2>3. CASE UNCHANGED <<installed, backups>>
    BY <2>3 DEF Kept
  <2>4. QED BY <1>1, <2>1, <2>2, <2>3, UnitsTouched
<1>2. IInv /\ [Next]_vars =>
        [/\ \/ Kept \ {NoUnit} \subseteq Kept'
            \/ CopyUnsaved \/ Restore
            \/ Backup /\ \E b \in backups : b.at = now
         /\ env.content # env'.content => env.content = "absent" \/ tool = NoTool]_vars
  BY <1>1, SettingsTouched DEF IInv
<1>3. QED BY <1>2, RolloutInvariant, PTL DEF Spec, NothingLost

-----------------------------------------------------------------------------
(* The service's own.                                                      *)

(* Which steps touch systemd's unit.                                       *)
LEMMA ServiceTouched ==
  ASSUME MachineTyped, WantedUp, [Next]_vars
  PROVE  WantedUp'
<1> USE DEF machine, MachineTyped, WantedUp
<1>1. CASE ToolStep
  <2>1. CASE Directories \/ \E cmd \in {"prepare", "script"} : Setup(cmd)
    BY <2>1, SetupGoesOn
  <2>2. ASSUME NEW cmd \in {"validate", "install", "start"}, Validate(cmd)
        PROVE  service' = service
    BY <2>2 DEF Validate
  <2>3. CASE Start \/ Stop \/ Enable \/ Disable
    BY <2>3 DEF Start, Stop, Enable, Disable
  <2>4. QED
    BY <1>1, <2>1, <2>2, <2>3 DEF ToolStep, Setup, Migrate, HandOver, Backup, Copy, CopyUnsaved,
       Reload, ReloadAndEnd, Probe, Restore
<1>2. CASE ServiceStep \/ Crash \/ Tick \/ Interrupt \/ Checkout \/ UNCHANGED vars
  BY <1>2 DEF ServiceStep, Boot, Build, BuildFails, Crash, Exit, Tick, Interrupt, Checkout, vars
<1>3. CASE \E cmd \in Commands : Begin(cmd)
  BY <1>3 DEF Begin
<1>4. CASE \E content \in {"broken", "unready", "complete"}, bases \in Selections : Edit(content, bases)
  BY <1>4 DEF Edit
<1>5. QED BY <1>1, <1>2, <1>3, <1>4 DEF Next

(* The operator's wish is systemd's: no exit of the process, no failed     *)
(* start and no other command takes a unit down that is wanted.            *)
THEOREM WantedStaysUp == Spec => []WantedUp
<1>1. Init => WantedUp
  BY DEF Init, Clean, InUse, WantedUp
<1>2. IInv /\ WantedUp /\ [Next]_vars => WantedUp'
  BY ServiceTouched DEF IInv
<1>3. QED BY <1>1, <1>2, RolloutInvariant, PTL DEF Spec

(* One database: what makes it writable after a start of the service.      *)
Servable(d) == \/ TakenOver(d) = "jarvis"
               \/ owner[d] = "none" /\ (d \in StateBases \/ dir.data = "jarvis")

LEMMA StartableIsServable ==
  Startable <=> Loads /\ env.fit /\ Lodged /\ \A d \in env.bases : Servable(d)
  BY DEF Startable, Checked, Servable

(* A step keeps a database servable if it only gives it or its directory   *)
(* to the service, or creates what was not there.                          *)
LEMMA StaysServable ==
  ASSUME MachineTyped, NEW d \in Databases, Servable(d),
         owner'[d] = owner[d] \/ owner'[d] = "jarvis",
         dir'.data = dir.data \/ dir.data # "jarvis",
         (dir'.state = "jarvis") <=> (dir.state = "jarvis")
  PROVE  Servable(d)'
  BY DEF Servable, TakenOver, MachineTyped

(* All of it at once: the settings stay, and so does what they turn on.    *)
LEMMA StaysStartableIf ==
  ASSUME MachineTyped, Startable,
         env'.content = env.content, env'.bases = env.bases, env'.fit,
         \A d \in Databases : owner'[d] = owner[d] \/ owner'[d] = "jarvis",
         dir'.data \in {dir.data, "jarvis"}, dir'.logs \in {dir.logs, "jarvis"},
         (dir'.state = "jarvis") <=> (dir.state = "jarvis")
  PROVE  Startable'
<1>1. Loads /\ Lodged /\ (\A d \in env.bases : Servable(d)) /\ env.bases \subseteq Databases
  BY StartableIsServable DEF MachineTyped, Envs
<1>2. dir'.data = dir.data \/ dir.data # "jarvis"
  OBVIOUS
<1>3. \A d \in env.bases : Servable(d)'
  BY <1>1, <1>2, StaysServable
<1>4. Loads' /\ Lodged'
  BY <1>1 DEF Loads, Lodged
<1>5. QED BY <1>3, <1>4 DEF Startable, Checked, Servable

(* Settings and directories, the database handed over, the bot's build.    *)
LEMMA SetupKeepsStartable ==
  ASSUME MachineTyped, Startable,
         \/ Directories \/ \E cmd \in {"prepare", "script"} : Setup(cmd)
         \/ HandOver \/ Build \/ BuildFails,
         ~(tool.step = "keys" /\ ~env'.fit)
  PROVE  Startable'
<1> USE DEF MachineTyped
<1>1. Loads /\ env.fit /\ dir.data # "none" /\ dir.logs = "jarvis"
  BY StartableIsServable DEF Lodged
<1>2. CASE Directories
  <2>1. env' = env /\ owner' = owner /\ dir' = dir
    BY <1>1, <1>2 DEF Directories, MadeBy
  <2>2. QED BY <1>1, <2>1, StaysStartableIf
<1>3. ASSUME NEW cmd \in {"prepare", "script"}, Settings(cmd) PROVE Startable'
  <2>1. env' = env /\ owner' = owner /\ dir' = dir
    BY <1>1, <1>3 DEF Settings, CreateOnce, Loads
  <2>2. QED BY <1>1, <2>1, StaysStartableIf
<1>4. ASSUME NEW cmd \in {"prepare", "script"}, Modes(cmd) \/ Keys(cmd) PROVE Startable'
  <2>1. env'.content = env.content /\ env'.bases = env.bases /\ owner' = owner /\ dir' = dir
    BY <1>4 DEF Modes, Keys, Envs
  <2>2. env'.fit
    BY <1>1, <1>4 DEF Modes, Keys, Envs, At
  <2>3. QED BY <2>1, <2>2, StaysStartableIf
<1>5. ASSUME NEW cmd \in {"prepare", "script"}, Owners(cmd, "logs") \/ Owners(cmd, "data")
      PROVE  Startable'
  <2>1. /\ env' = env /\ owner' = owner /\ dir'.state = dir.state
        /\ dir'.data \in {dir.data, "jarvis"} /\ dir'.logs \in {dir.logs, "jarvis"}
    BY <1>5 DEF Owners, Homes
  <2>2. QED BY <1>1, <2>1, StaysStartableIf
<1>6. CASE HandOver \/ Build \/ BuildFails
  <2>1. env' = env /\ dir' = dir
    BY <1>6 DEF HandOver, Build, BuildFails
  <2>2. \A d \in Databases : owner'[d] = owner[d] \/ owner'[d] = "jarvis"
    BY <1>6 DEF HandOver, Build, BuildFails, OpenedBy
  <2>3. QED BY <1>1, <2>1, <2>2, StaysStartableIf
<1>7. QED BY <1>2, <1>3, <1>4, <1>5, <1>6 DEF Setup

(* systemd gives the state directory to the service.                       *)
LEMMA BootKeepsStartable ==
  ASSUME MachineTyped, Startable, Boot
  PROVE  Startable'
<1>1. env' = env /\ dir'.data = dir.data /\ dir'.logs = dir.logs /\ dir'.state = "jarvis"
  BY DEF Boot, MachineTyped, Homes
<1>2. \A d \in env.bases : owner'[d] = TakenOver(d)
  BY DEF Boot, MachineTyped, Envs
<1>3. \A d \in env.bases : TakenOver(d)' = TakenOver(d)
  BY <1>1, <1>2 DEF TakenOver
<1>4. \A d \in env.bases : owner[d] = "none" => owner'[d] = "none"
  BY <1>2 DEF TakenOver
<1>5. QED BY <1>1, <1>3, <1>4 DEF Startable, Checked, Loads, Lodged

(* A validation and a migration create databases as root.                  *)
LEMMA CreatedStaysServable ==
  ASSUME MachineTyped, NEW d \in Databases, Servable(d),
         owner'[d] = owner[d] \/ (owner[d] = "none" /\ owner'[d] = "root"),
         \A h \in Homes : (dir'[h] = "jarvis") <=> (dir[h] = "jarvis"),
         ~(dir[Home(d)] = "jarvis" /\ owner[d] = "none" /\ owner'[d] = "root")
  PROVE  Servable(d)'
<1>1. CASE owner'[d] = owner[d]
  BY <1>1, StaysServable DEF Homes
<1>2. CASE owner[d] = "none" /\ owner'[d] = "root"
  <2>1. d \in StateBases /\ dir.state # "jarvis"
    BY <1>2 DEF Servable, TakenOver, Home
  <2>2. QED BY <1>2, <2>1 DEF Servable, TakenOver, Homes
<1>3. QED BY <1>1, <1>2

LEMMA OpeningKeepsStartable ==
  ASSUME MachineTyped, Startable,
         Migrate \/ \E cmd \in {"validate", "install", "start"} : Validate(cmd),
         ~ \E d \in env.bases : dir[Home(d)] = "jarvis" /\ owner[d] = "none" /\ owner'[d] = "root"
  PROVE  Startable'
<1> USE DEF MachineTyped
<1>1. /\ Loads /\ env.fit /\ Lodged /\ (\A d \in env.bases : Servable(d))
      /\ env.bases \subseteq Databases
  BY StartableIsServable DEF Envs
<1>2. /\ env' = env
      /\ \A h \in Homes : dir'[h] \in {dir[h], MadeBy("root", dir[h])}
      /\ \A d \in Databases : owner'[d] \in {owner[d], MadeBy("root", owner[d])}
  BY RolloutAssumption DEF Migrate, Validate, Opened, OpenedDir, Homes
<1>3. \A h \in Homes : /\ (dir'[h] = "jarvis") <=> (dir[h] = "jarvis")
                       /\ dir[h] # "none" => dir'[h] = dir[h]
  BY <1>2 DEF MadeBy
<1>4. ASSUME NEW d \in env.bases PROVE Servable(d)'
  <2>1. d \in Databases /\ Servable(d)
    BY <1>1
  <2>2. owner'[d] = owner[d] \/ (owner[d] = "none" /\ owner'[d] = "root")
    BY <1>2, <2>1 DEF MadeBy
  <2>3. QED BY <1>3, <2>1, <2>2, CreatedStaysServable
<1>5. Loads' /\ Lodged' /\ env'.fit
  BY <1>1, <1>2, <1>3 DEF Loads, Lodged, Homes
<1>6. QED BY <1>2, <1>4, <1>5, StartableIsServable DEF Startable, Checked, Servable

(* Startable is lost only by an edit, by the new modes of the keys, and by *)
(* root's creating a database in the service's directory, in every order of*)
(* commands, faults and starts.                                            *)
THEOREM StartableIsKept == Spec => StaysStartable
<1> DEFINE Excepted == \/ tool = NoTool /\ env' # env
                       \/ tool.step = "keys" /\ ~env'.fit
                       \/ \E d \in env.bases : dir[Home(d)] = "jarvis" /\ owner[d] = "none" /\ owner'[d] = "root"
<1>1. ASSUME IInv, Next, Startable, ~Excepted PROVE Startable'
  <2>1. MachineTyped
    BY <1>1 DEF IInv
  <2>2. ASSUME UNCHANGED <<env, dir, owner>> PROVE Startable'
    BY <1>1, <2>2 DEF Startable, Checked, Loads, Lodged, TakenOver
  <2>3. CASE ToolStep
    <3>1. CASE HandOver \/ Directories \/ \E cmd \in {"prepare", "script"} : Setup(cmd)
      BY <1>1, <2>1, <3>1, SetupKeepsStartable
    <3>2. CASE Migrate \/ \E cmd \in {"validate", "install", "start"} : Validate(cmd)
      BY <1>1, <2>1, <3>2, OpeningKeepsStartable
    <3>4. CASE \/ Backup \/ Copy \/ Enable \/ CopyUnsaved \/ Reload \/ ReloadAndEnd("script")
               \/ ReloadAndEnd("rollback") \/ Start \/ Probe \/ Stop \/ Disable \/ Restore
      <4>1. UNCHANGED <<env, dir, owner>>
        BY <3>4 DEF Backup, Copy, Enable, CopyUnsaved, Reload, ReloadAndEnd, Start, Probe, Stop, Disable,
           Restore, machine
      <4>2. QED BY <2>2, <4>1
    <3>5. QED BY <2>3, <3>1, <3>2, <3>4 DEF ToolStep, Setup
  <2>4. CASE Interrupt \/ Checkout \/ Tick \/ Crash \/ \E cmd \in Commands : Begin(cmd)
    <3>1. UNCHANGED <<env, dir, owner>>
      BY <2>4 DEF Interrupt, Checkout, Tick, Crash, Begin, machine
    <3>2. QED BY <2>2, <3>1
  <2>5. CASE Boot
    BY <1>1, <2>1, <2>5, BootKeepsStartable
  <2>6. CASE Build \/ BuildFails
    BY <1>1, <2>1, <2>6, SetupKeepsStartable
  <2>7. CASE \E content \in {"broken", "unready", "complete"}, bases \in Selections : Edit(content, bases)
    <3>1. tool = NoTool /\ UNCHANGED <<dir, owner>>
      BY <2>7 DEF Edit
    <3>2. env' = env
      BY <1>1, <3>1
    <3>3. QED BY <2>2, <3>1, <3>2
  <2>8. QED BY <1>1, <2>3, <2>4, <2>5, <2>6, <2>7 DEF Next, ServiceStep
<1>2. IInv /\ [Next]_vars =>
        [Startable /\ ~Startable' =>
           \/ tool = NoTool /\ env' # env
           \/ tool.step = "keys" /\ ~env'.fit
           \/ \E d \in env.bases : dir[Home(d)] = "jarvis" /\ owner[d] = "none" /\ owner'[d] = "root"]_vars
  BY <1>1
<1>3. QED BY <1>2, RolloutInvariant, PTL DEF Spec, StaysStartable

=============================================================================
