----------------------------- MODULE Footprint -----------------------------
(***************************************************************************)
(* What V2RayDAR leaves on the machine it runs on, and what its uninstall  *)
(* command takes away again: the firewall rules the terminal UI opens when *)
(* a listener is shared on the LAN (src/tui/firewall.rs) and the files of  *)
(* the data root (the uninstall half of src/main.rs).                      *)
(*                                                                         *)
(* A firewall rule is its port.  The Linux tools are modelled: they are    *)
(* asked whether the port was open before it is opened, and only a rule    *)
(* the program created is recorded in firewall_state.json.  Two commands   *)
(* may fail apart from each other, and the program may be killed between   *)
(* them: the rule is changed and the record is not.                        *)
(***************************************************************************)
EXTENDS FiniteSets, Integers

CONSTANTS Ports,         \* the TCP ports the listeners may be given
          UserRules,       \* sets of ports the user may have opened beforehand
          Layouts,       \* "installed", "portable", "override" (--config)
          Strays         \* sets of legacy and unknown files that may lie about

VARIABLES fw,            \* the firewall and the record of owned rules
          disk,          \* the files in and around the data root
          layout,        \* how the paths were resolved
          uninst,        \* the uninstall command under way
          killed         \* history: the last run was killed

footprint == <<fw, disk, layout, uninst, killed>>

-----------------------------------------------------------------------------
(* Files.  cache_* lie in the cache directory of earlier versions; in_app, *)
(* in_root and in_cache are files the program does not know, beside the    *)
(* data root, in it, and in its cache directory.  db_log stands for the    *)
(* -wal and -shm files SQLite keeps beside an open database: closing it    *)
(* removes them, a kill does not, and the uninstall does not know them.    *)

CacheFiles == {"cache_marker", "cache_db"}
RootFiles  == {"config", "marker", "db"}
Owned      == RootFiles \cup CacheFiles \cup {"db_log"}
Unknown    == {"in_app", "in_root", "in_cache", "custom_config"}

Targets == RootFiles \cup CacheFiles \cup {"app_dir", "root_dir", "cache_dir", "firewall_state"}

ASSUME FootprintAssumption ==
  /\ UserRules \subseteq SUBSET Ports
  /\ Strays \subseteq SUBSET (RootFiles \cup CacheFiles \cup Unknown)

NotUninstalling == [step |-> "none", targets |-> {}]

FootprintTypeOK ==
  /\ fw \in [rules: SUBSET Ports, recorded: SUBSET Ports, users: SUBSET Ports, lost: SUBSET Ports]
  /\ disk \subseteq Owned \cup Unknown
  /\ layout \in Layouts
  /\ uninst \in [step: {"none", "firewall", "files", "done"}, targets: SUBSET Targets]
  /\ killed \in BOOLEAN

FootprintInit ==
  /\ layout \in Layouts
  /\ \E users \in UserRules :
       fw = [rules |-> users, recorded |-> {}, users |-> users, lost |-> {}]
  /\ disk = {"db", "db_log"} \cup IF layout = "override" THEN {"custom_config"} ELSE {"config"}
  /\ uninst = NotUninstalling
  /\ killed = FALSE

-----------------------------------------------------------------------------
(* Firewall rules *)

\* Mutant: a rule is recorded whether or not the port was open before.
OpenedAndOwned(port) == [fw EXCEPT !.rules = @ \cup {port}, !.recorded = @ \cup {port}]

Opened(port) ==
  [fw EXCEPT !.rules = @ \cup {port},
             !.recorded = IF port \in fw.rules THEN @ ELSE @ \cup {port}]

OpenedUnrecorded(port) ==
  [fw EXCEPT !.rules = @ \cup {port},
             !.lost = IF port \in fw.rules \cup fw.recorded THEN @ ELSE @ \cup {port}]

Closed(ports) == [fw EXCEPT !.rules = @ \ ports, !.recorded = @ \ ports]

\* Only a recorded rule is closed; with none, nothing is run.
apply(enabled, port) ==
  \/ UNCHANGED fw
  \/ enabled  /\ fw' \in {Opened(port), OpenedUnrecorded(port)}
  \/ ~enabled /\ port \in fw.recorded
              /\ fw' \in {Closed({port}), [fw EXCEPT !.rules = @ \ {port}]}

\* Every recorded rule is tried; the ones that could not be removed stay recorded.
remove_owned_rules(removed) == removed \subseteq fw.recorded /\ fw' = Closed(removed)

-----------------------------------------------------------------------------
(* The run ends: the database is closed, or the process is killed.         *)

Closing == disk' = disk \ {"db_log"} /\ killed' = FALSE
Killed  == disk' = disk /\ killed' = TRUE

-----------------------------------------------------------------------------
(* Uninstall *)

InRoot  == disk \ {"in_app", "custom_config"}
InCache == disk \cap (CacheFiles \cup {"in_cache"})

is_known_cache_dir == InCache \subseteq CacheFiles
RootExists         == InRoot # {} \/ fw.recorded # {}
\* Mutant: the cache directory is known by its name, whatever it holds.
KnownByName == InRoot \subseteq RootFiles \cup InCache

contains_only_known_app_artifacts == InRoot \subseteq RootFiles \cup InCache /\ is_known_cache_dir

installed_app_dir_is_target ==
  layout = "installed" /\ contains_only_known_app_artifacts /\ "in_app" \notin disk

known_app_root_targets ==
  (disk \cap RootFiles)
  \cup (IF InCache # {} /\ is_known_cache_dir THEN {"cache_dir"} ELSE disk \cap CacheFiles)
  \cup (IF fw.recorded # {} THEN {"firewall_state"} ELSE {})

uninstall_targets ==
  CASE ~RootExists                       -> {}
    [] installed_app_dir_is_target       -> {"app_dir"}
    [] contains_only_known_app_artifacts
       /\ ~installed_app_dir_is_target   -> {"root_dir"}
    [] OTHER                             -> known_app_root_targets

\* What goes with a target: a directory goes with everything in it.
Holds(target) ==
  CASE target = "app_dir"   -> disk \ {"custom_config"}
    [] target = "root_dir"  -> InRoot
    [] target = "cache_dir" -> InCache
    [] OTHER                -> {target}

\* `v2raydar --uninstall`: the targets are listed, then DELETE is asked for.
Uninstall ==
  /\ uninst.step = "none"
  /\ uninst' = [step |-> IF fw.recorded # {} THEN "firewall" ELSE "files",
                targets |-> uninstall_targets]
  /\ UNCHANGED <<fw, disk, layout, killed>>

UninstallCancelled ==
  /\ uninst.step # "none"
  /\ uninst' = NotUninstalling
  /\ UNCHANGED <<fw, disk, layout, killed>>

\* A rule that cannot be removed ends the command before any file is touched.
\* Mutant: files are removed although a rule could not be.
UninstallRegardless ==
  /\ uninst.step = "firewall"
  /\ \E removed \in SUBSET fw.recorded : remove_owned_rules(removed)
  /\ uninst' = [uninst EXCEPT !.step = "files"]
  /\ UNCHANGED <<disk, layout, killed>>

UninstallFirewall ==
  /\ uninst.step = "firewall"
  /\ \E removed \in SUBSET fw.recorded :
       /\ remove_owned_rules(removed)
       /\ uninst' = IF removed = fw.recorded THEN [uninst EXCEPT !.step = "files"]
                    ELSE NotUninstalling
  /\ UNCHANGED <<disk, layout, killed>>

\* One target after the other, firewall_state.json last.
RemoveTarget ==
  /\ uninst.step = "files"
  /\ \E target \in uninst.targets \ {"firewall_state"} :
       /\ disk' = disk \ Holds(target)
       /\ uninst' = [uninst EXCEPT !.targets = @ \ {target}]
  /\ UNCHANGED <<fw, layout, killed>>

\* That file was listed before the rules were removed, and went with the last of
\* them: inspecting it fails, and the command ends in an error.
RemoveFirewallState ==
  /\ uninst.step = "files" /\ uninst.targets = {"firewall_state"}
  /\ uninst' = NotUninstalling
  /\ UNCHANGED <<fw, disk, layout, killed>>

Uninstalled ==
  /\ uninst.step = "files" /\ uninst.targets = {}
  /\ uninst' = [uninst EXCEPT !.step = "done"]
  /\ UNCHANGED <<fw, disk, layout, killed>>

UninstallNext ==
  Uninstall \/ UninstallCancelled \/ UninstallFirewall \/ RemoveTarget
  \/ RemoveFirewallState \/ Uninstalled

-----------------------------------------------------------------------------
(* Properties *)

\* "Leaves pre-existing user-owned rules alone" (docs/guide.md): whatever is
\* toggled, on whatever port, through crashes, retries and the uninstall, a rule
\* the user had before is never removed.
UserRulesKept == fw.users \subseteq fw.rules

\* The uninstall command is finished only when every rule and file of the program
\* is gone, with two exceptions: a rule whose recording failed, and the -wal and
\* -shm files of a database that a killed run left open.  A firewall command that
\* fails must not let the record be deleted with the data root.
UninstallLeavesNothing ==
  uninst.step = "done" =>
    /\ fw.rules \subseteq fw.users \cup fw.lost
    /\ disk \cap Owned \subseteq IF killed THEN {"db_log"} ELSE {}

\* "Unrelated files found beside app data" and a custom config file are never
\* deleted, whichever directory they lie in.
UnknownFilesKept == [][disk \cap Unknown \subseteq disk']_disk
=============================================================================
