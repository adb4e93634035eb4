---------------------------- MODULE PluginInstaller ----------------------------
(***************************************************************************)
(* The installer of the plugin for one project (cli.mjs): what `install`,  *)
(* `repair` and `uninstall` do, write by write, to the plugin's files      *)
(* under .claude, to the settings that register its hooks (settings.json,  *)
(* or a drop-in of its own where Claude Code reads one), to .mcp.json and  *)
(* to the manifest that tells uninstall what there is.                     *)
(*                                                                         *)
(* A command may be cut short between two writes or in the middle of one.  *)
(* Settings, servers and manifest are replaced by a rename; where that     *)
(* fails they are written in place, and a failure of that is not told to   *)
(* the command, which goes on.  Of settings.json and .mcp.json the model   *)
(* keeps which entries they have: those of the plugin, a hook of the       *)
(* user's own that lives in .claude/hooks, and another setting of the      *)
(* user's.  The native plugin and --global differ in paths only.           *)
(***************************************************************************)
EXTENDS Naturals, FiniteSets

CONSTANTS Paths,                   \* the files of the plugin
          MaxInvocations, MaxFaults   \* bounds of the exploration

VARIABLES content,     \* of the paths: "none", "own", "plugin" or "torn"
          settings, servers,       \* settings.json and .mcp.json
          dropin,      \* "none", "dir" or "file"
          manifest,    \* "none", "torn", or the settingsMode it tells
          recent,      \* does Claude Code read drop-ins?
          job,         \* the command under way
          done, faults,   \* of these: cuts, and writes that failed untold
          origin,      \* content and settings before the first command
          doubtful,    \* since the last install that wrote its manifest: was one
                       \* cut, or did a repair write settings or a manifest?
          damaged,     \* of settings and servers, those ever left half written
          overdue      \* those not replaced when they last should have been

harm == <<damaged, overdue>>
installerVars == <<content, settings, servers, dropin, manifest, recent, job, done, faults,
                   origin, doubtful, harm>>

NoJob == [pc |-> "idle", last |-> "none"]

-----------------------------------------------------------------------------
(* Files of settings. *)

Plugins == {"plugin hook", "plugin server", "plugin permission"}

NoFile      == [is |-> "missing", entries |-> {}]
Broken      == [is |-> "broken", entries |-> {}]
Holding(es) == [is |-> "readable", entries |-> es]

Exists(file) == file.is # "missing"

(* safeReadJson: what does not parse counts as empty. *)
Entries(file) == file.entries

MergeSettings(es) == es \cup Plugins

(* A hook is taken for the plugin's by its path, a permission by its text. *)
RemoveOcoSettings(es) == es \ (Plugins \cup {"own hook"})

UpToDate(name) == overdue' = overdue \ {name} /\ UNCHANGED <<damaged, faults>>

(* An error the command does not hear of: neither the rename nor the write  *)
(* in place went to its end.                                                *)
Untold == faults < MaxFaults /\ faults' = faults + 1

MissesUntold(name, file, new) ==
  /\ Untold
  /\ \/ new = file /\ overdue' = overdue \cup {name} /\ damaged' = damaged
     \/ new = Broken /\ overdue' = overdue \ {name} /\ damaged' = damaged \cup {name}

(* Mutant of AtomicWrite: always in place, so that a cut leaves half a file. *)
WriteInPlace(name, file, new, es) == new \in {Holding(es), Broken} /\ UpToDate(name)

(* Through a temporary file and a rename, or else in place.                 *)
AtomicWrite(name, file, new, es) ==
  \/ new = Holding(es) /\ UpToDate(name)
  \/ MissesUntold(name, file, new)

(* What is left empty is removed. *)
Clean(es) ==
  IF RemoveOcoSettings(es) = {}
  THEN settings' = NoFile /\ UpToDate("settings")
  ELSE AtomicWrite("settings", settings, settings', RemoveOcoSettings(es))

-----------------------------------------------------------------------------
(* Commands. *)

Invoked == job.pc = "idle" /\ done < MaxInvocations

Goes(pc) == job' = [job EXCEPT !.pc = pc]

Ends(outcome) == job' = [pc |-> "idle", last |-> outcome] /\ done' = done + 1

Install(force) ==
  /\ Invoked
  /\ job' = [pc |-> "copy", left |-> Paths, force |-> force]
  /\ UNCHANGED <<content, settings, servers, dropin, manifest, recent, done, faults, origin,
                 doubtful, harm>>

(* A copy that fails is skipped, and so is a file that is there already. *)
CopyFile(p) ==
  /\ job.pc = "copy" /\ p \in job.left
  /\ job' = [job EXCEPT !.left = @ \ {p}]
  /\ \/ content' = content
     \/ (content[p] = "none" \/ job.force) /\ content' = [content EXCEPT ![p] = "plugin"]
  /\ UNCHANGED <<settings, servers, dropin, manifest, recent, done, faults, origin, doubtful,
                 harm>>

SupportsDropin == recent \/ dropin # "none"

(* Half a drop-in is a file as well. *)
PutDropin ==
  \/ dropin' = "file" /\ UNCHANGED faults
  \/ Untold /\ dropin' = IF dropin = "file" THEN "file" ELSE "dir"

WriteDropin ==
  /\ job.pc = "copy" /\ job.left = {} /\ SupportsDropin
  /\ PutDropin
  /\ job' = [pc |-> "migrate", mode |-> "managed-settings.d"]
  /\ UNCHANGED <<content, settings, servers, manifest, recent, done, origin, doubtful, harm>>

(* Mutant of MigrateSettings: what an older install wrote stays. *)
MigrateNothing ==
  /\ job.pc = "migrate" /\ Goes("servers") /\ UpToDate("settings")
  /\ UNCHANGED <<content, settings, servers, dropin, manifest, recent, done, origin, doubtful>>

(* What has nothing of the plugin's is not written. *)
MigrateSettings ==
  /\ job.pc = "migrate" /\ Goes("servers")
  /\ LET es == Entries(settings)
     IN  IF Exists(settings) /\ (es = {} \/ RemoveOcoSettings(es) # es)
         THEN Clean(es)
         ELSE UNCHANGED settings /\ UpToDate("settings")
  /\ UNCHANGED <<content, servers, dropin, manifest, recent, done, origin, doubtful>>

WriteSettings ==
  /\ job.pc = "copy" /\ job.left = {} /\ ~SupportsDropin
  /\ AtomicWrite("settings", settings, settings', MergeSettings(Entries(settings)))
  /\ job' = [pc |-> "servers", mode |-> "settings.json"]
  /\ UNCHANGED <<content, servers, dropin, manifest, recent, done, origin, doubtful>>

WriteServers ==
  /\ job.pc = "servers" /\ Goes("manifest")
  /\ IF "plugin server" \in Entries(servers)
     THEN UNCHANGED servers /\ UpToDate("servers")
     ELSE AtomicWrite("servers", servers, servers', Entries(servers) \cup {"plugin server"})
  /\ UNCHANGED <<content, settings, dropin, manifest, recent, done, origin, doubtful>>

WriteManifest ==
  /\ job.pc = "manifest"
  /\ \/ manifest' = job.mode /\ UNCHANGED faults
     \/ Untold /\ manifest' \in {manifest, "torn"}
  /\ Ends("installed") /\ doubtful' = (manifest' # job.mode)
  /\ UNCHANGED <<content, settings, servers, dropin, recent, origin, harm>>

(* Without a manifest there is nothing to remove; one that does not parse   *)
(* is all that is removed.                                                  *)
Uninstall ==
  /\ Invoked
  /\ CASE manifest = "none" -> Ends("nothing found") /\ UNCHANGED manifest
       [] manifest = "torn" -> Ends("corrupted") /\ manifest' = "none"
       [] OTHER -> job' = [pc |-> "remove", left |-> Paths] /\ UNCHANGED <<done, manifest>>
  /\ UNCHANGED <<content, settings, servers, dropin, recent, faults, origin, doubtful, harm>>

(* Whoever wrote it. *)
RemoveFile(p) ==
  /\ job.pc = "remove" /\ p \in job.left
  /\ job' = [job EXCEPT !.left = @ \ {p}]
  /\ content' = [content EXCEPT ![p] = "none"]
  /\ UNCHANGED <<settings, servers, dropin, manifest, recent, done, faults, origin, doubtful,
                 harm>>

CleanSettings ==
  /\ job.pc = "remove" /\ job.left = {} /\ Goes("clean servers")
  /\ \/ /\ manifest = "managed-settings.d" /\ dropin = "file"
        /\ dropin' = "none" /\ UNCHANGED <<settings, faults, harm>>
     \/ /\ ~(manifest = "managed-settings.d" /\ dropin = "file")
        /\ IF Exists(settings) THEN Clean(Entries(settings))
           ELSE UNCHANGED settings /\ UpToDate("settings")
        /\ UNCHANGED dropin
  /\ UNCHANGED <<content, servers, manifest, recent, done, origin, doubtful>>

(* Here no error is told to anybody. *)
CleanServers ==
  /\ job.pc = "clean servers" /\ Goes("remove manifest")
  /\ LET rest == Entries(servers) \ {"plugin server"}
     IN  \/ /\ "plugin server" \notin Entries(servers)
            /\ UNCHANGED servers /\ UpToDate("servers")
         \/ /\ "plugin server" \in Entries(servers) /\ rest = {}
            /\ \/ servers' = NoFile /\ UpToDate("servers")
               \/ Untold /\ overdue' = overdue \cup {"servers"} /\ UNCHANGED <<servers, damaged>>
         \/ /\ "plugin server" \in Entries(servers) /\ rest # {}
            /\ AtomicWrite("servers", servers, servers', rest)
  /\ UNCHANGED <<content, settings, dropin, manifest, recent, done, origin, doubtful>>

RemoveManifest ==
  /\ job.pc = "remove manifest"
  /\ manifest' = "none"
  /\ Ends("removed")
  /\ UNCHANGED <<content, settings, servers, dropin, recent, faults, origin, doubtful, harm>>

Repair ==
  /\ Invoked
  /\ job' = [pc |-> "restore", left |-> Paths]
  /\ UNCHANGED <<content, settings, servers, dropin, manifest, recent, done, faults, origin,
                 doubtful, harm>>

(* A file that is there is left as it is. *)
RestoreFile(p) ==
  /\ job.pc = "restore" /\ p \in job.left
  /\ job' = [job EXCEPT !.left = @ \ {p}]
  /\ \/ content' = content
     \/ content[p] = "none" /\ content' = [content EXCEPT ![p] = "plugin"]
  /\ UNCHANGED <<settings, servers, dropin, manifest, recent, done, faults, origin, doubtful,
                 harm>>

(* A settings.json will do, whatever it says. *)
RestoreSettings ==
  /\ job.pc = "restore" /\ job.left = {} /\ Goes("restore manifest")
  /\ IF dropin = "file" \/ Exists(settings) THEN UNCHANGED <<dropin, faults, doubtful>>
     ELSE PutDropin /\ doubtful' = TRUE
  /\ UNCHANGED <<content, settings, servers, manifest, recent, done, origin, harm>>

(* So will a manifest. *)
RestoreManifest ==
  /\ job.pc = "restore manifest"
  /\ IF manifest # "none" THEN UNCHANGED <<manifest, faults, doubtful>>
     ELSE /\ \/ /\ manifest' = IF dropin = "file" THEN "managed-settings.d"
                                                 ELSE "settings.json"
                /\ UNCHANGED faults
             \/ Untold /\ manifest' \in {"none", "torn"}
          /\ doubtful' = TRUE
  /\ Ends("repaired")
  /\ UNCHANGED <<content, settings, servers, dropin, recent, origin, harm>>

(* The directory of the drop-in is made before it and removed after it. *)
DirectoryOnly ==
  /\ job.pc \in {"copy", "remove", "restore"} /\ job.left = {}
  /\ CASE job.pc = "copy" -> SupportsDropin /\ dropin = "none"
       [] job.pc = "remove" -> manifest = "managed-settings.d" /\ dropin = "file"
       [] job.pc = "restore" -> dropin = "none" /\ ~Exists(settings)

WritesManifest == job.pc = "manifest" \/ (job.pc = "restore manifest" /\ manifest = "none")

(* The command is killed, or an error of the file system ends it.  Killed   *)
(* while it writes settings or servers in place, it leaves what a write     *)
(* that failed untold and a cut after it do.                                *)
Cut ==
  /\ job.pc # "idle" /\ faults < MaxFaults
  /\ faults' = faults + 1 /\ job' = NoJob /\ done' = done + 1
  /\ doubtful' = (doubtful \/ WritesManifest \/ job.pc \in {"copy", "migrate", "servers"})
  /\ \/ content' = content
     \/ /\ job.pc \in {"copy", "restore"}
        /\ \E p \in job.left :
             /\ content[p] = "none" \/ (job.pc = "copy" /\ job.force)
             /\ content' = [content EXCEPT ![p] = "torn"]
  /\ dropin' = dropin \/ (DirectoryOnly /\ dropin' = "dir")
  /\ manifest' = manifest \/ (WritesManifest /\ manifest' = "torn")
  /\ UNCHANGED <<settings, servers, recent, origin, harm>>

(* Claude Code is updated. *)
Update ==
  /\ ~recent /\ recent' = TRUE
  /\ UNCHANGED <<content, settings, servers, dropin, manifest, job, done, faults, origin,
                 doubtful, harm>>

InstallerInit ==
  /\ content \in [Paths -> {"none", "own"}]
  /\ settings \in {NoFile, Broken}
       \cup {Holding(es) : es \in SUBSET {"plugin permission", "own hook", "own setting"}}
  /\ servers \in {NoFile, Holding({"own server"})}
  /\ dropin = "none" /\ manifest = "none" /\ recent \in BOOLEAN
  /\ job = NoJob /\ done = 0 /\ faults = 0
  /\ origin = [content |-> content, settings |-> settings, servers |-> servers]
  /\ doubtful = FALSE /\ damaged = {} /\ overdue = {}

InstallerNext ==
  \/ \E force \in BOOLEAN : Install(force)
  \/ Uninstall \/ Repair
  \/ \E p \in Paths : CopyFile(p) \/ RemoveFile(p) \/ RestoreFile(p)
  \/ WriteDropin \/ MigrateSettings \/ WriteSettings \/ WriteServers \/ WriteManifest
  \/ CleanSettings \/ CleanServers \/ RemoveManifest
  \/ RestoreSettings \/ RestoreManifest
  \/ Cut \/ Update

InstallerSpec == InstallerInit /\ [][InstallerNext]_installerVars

-----------------------------------------------------------------------------
(* Properties. *)

(* No command, wherever it is cut, costs the user a setting or a server     *)
(* that does not look like the plugin's: what is read again by the next     *)
(* command is whole, unless the rename of that very file once failed and    *)
(* the write in place of it stopped half way (atomicWriteFileSync,          *)
(* mergeSettings, removeOcoSettings).                                       *)
OwnSettingsKept ==
  /\ "own setting" \in origin.settings.entries /\ "settings" \notin damaged
       => "own setting" \in settings.entries
  /\ "own server" \in origin.servers.entries /\ "servers" \notin damaged
       => "own server" \in servers.entries

(* After an uninstall nothing registers the plugin's hooks or its server,   *)
(* whichever way Claude Code read its settings at each install, and however *)
(* many uninstalls and repairs before it were cut short.  What it may miss  *)
(* is a file that neither a rename nor a write in place could replace, and  *)
(* what came of an install that was cut or did not write its manifest, or   *)
(* of a repair that wrote settings or a manifest itself: after those it     *)
(* takes another install (install, uninstall, repair).                      *)
NothingLeftRegistered ==
  job.pc = "idle" /\ job.last = "removed" /\ ~doubtful =>
    /\ dropin # "file"
    /\ "settings" \notin overdue => "plugin hook" \notin settings.entries
    /\ "servers" \notin overdue => "plugin server" \notin servers.entries
    /\ \A p \in Paths : content[p] = "none"

(* A command cut short harms neither what is the user's nor the removal of  *)
(* what is not, save as the two parts say.                                  *)
HarmlessWhereverCut == OwnSettingsKept /\ NothingLeftRegistered
=============================================================================
