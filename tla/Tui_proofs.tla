------------------------------ MODULE Tui_proofs ------------------------------
(* What the program leaves alone on the machine it runs on, and what its     *)
(* uninstall takes away, for any ports, rules of the user, stray files,      *)
(* subscriptions and settings: the firewall and the files under everything   *)
(* the terminal UI does.  And what a save makes of the configuration file:   *)
(* each way of editing its text loads as the list on the screen.             *)
EXTENDS Tui, TLAPS, WellFoundedInduction, SequenceTheorems

(* The records keep their fields: all the steps below need to know of types. *)
Forms ==
    /\ fw = [rules |-> fw.rules, recorded |-> fw.recorded, users |-> fw.users, lost |-> fw.lost]
    /\ uninst = [step |-> uninst.step, targets |-> uninst.targets]
    /\ uninst.step \in {"none", "firewall", "files", "done"}

(* No rule of the user is in the record, which is all that is ever closed.   *)
RecordOurs == fw.recorded \cap fw.users = {} /\ fw.users \subseteq fw.rules

(* Every open rule is the user's, recorded, or one whose recording failed.   *)
EveryRuleKnown == fw.rules \subseteq fw.users \cup fw.recorded \cup fw.lost

(* The uninstall runs alone, and touches files when the record is empty.     *)
Phases ==
    /\ uninst.step # "none" => ~ui.running
    /\ uninst.step \in {"files", "done"} => fw.recorded = {}
    /\ uninst.step = "done" => disk \cap Owned \subseteq {"db_log"}

Pending == uninst.step \in {"firewall", "files"}

(* What is left to remove holds every file of ours that the uninstall knows. *)
Listed ==
    Pending => \A f \in (disk \cap Owned) \ {"db_log"} :
                   \E t \in uninst.targets \ {"firewall_state"} : f \in Holds(t)

(* A directory is a target only while nothing unknown is in it.              *)
Spared ==
    Pending => /\ uninst.targets \subseteq Targets
               /\ "app_dir" \in uninst.targets => disk \cap Unknown \subseteq {"custom_config"}
               /\ "root_dir" \in uninst.targets => disk \cap {"in_root", "in_cache"} = {}
               /\ "cache_dir" \in uninst.targets => "in_cache" \notin disk

Rules == RecordOurs /\ EveryRuleKnown
Removing == Listed /\ Spared
IInv  == Forms /\ Rules /\ Phases /\ Removing

-------------------------------------------------------------------------------
(* Firewall.                                                                 *)

(* What a step of the firewall keeps.                                        *)
RulesStep ==
    /\ fw' = [rules |-> fw'.rules, recorded |-> fw'.recorded, users |-> fw.users, lost |-> fw'.lost]
    /\ Rules'

LEMMA OpenedKeeps ==
    ASSUME Forms, Rules, NEW port, fw' \in {Opened(port), OpenedUnrecorded(port)}
    PROVE  RulesStep
<1>1. CASE fw' = Opened(port)
  <2>1. /\ fw'.rules = fw.rules \cup {port}
        /\ fw'.recorded = IF port \in fw.rules THEN fw.recorded ELSE fw.recorded \cup {port}
        /\ fw'.users = fw.users /\ fw'.lost = fw.lost
        /\ fw' = [rules |-> fw'.rules, recorded |-> fw'.recorded, users |-> fw.users,
                  lost |-> fw'.lost]
    BY <1>1 DEF Forms, Opened
  <2> QED BY <2>1 DEF Rules, RecordOurs, EveryRuleKnown, RulesStep
<1>2. CASE fw' = OpenedUnrecorded(port)
  <2>1. /\ fw'.rules = fw.rules \cup {port}
        /\ fw'.lost = IF port \in fw.rules \cup fw.recorded THEN fw.lost ELSE fw.lost \cup {port}
        /\ fw'.users = fw.users /\ fw'.recorded = fw.recorded
        /\ fw' = [rules |-> fw'.rules, recorded |-> fw'.recorded, users |-> fw.users,
                  lost |-> fw'.lost]
    BY <1>2 DEF Forms, OpenedUnrecorded
  <2> QED BY <2>1 DEF Rules, RecordOurs, EveryRuleKnown, RulesStep
<1> QED BY <1>1, <1>2

LEMMA ClosedKeeps ==
    ASSUME Forms, Rules, NEW ports, ports \subseteq fw.recorded, fw' = Closed(ports)
    PROVE  RulesStep /\ fw'.recorded = fw.recorded \ ports
<1>1. /\ fw'.rules = fw.rules \ ports /\ fw'.recorded = fw.recorded \ ports
      /\ fw'.users = fw.users /\ fw'.lost = fw.lost
      /\ fw' = [rules |-> fw'.rules, recorded |-> fw'.recorded, users |-> fw.users,
                lost |-> fw'.lost]
  BY DEF Forms, Closed
<1> QED BY <1>1 DEF Rules, RecordOurs, EveryRuleKnown, RulesStep

LEMMA UnchangedKeeps ==
    ASSUME Forms, Rules, fw' = fw
    PROVE  RulesStep
BY DEF Forms, Rules, RecordOurs, EveryRuleKnown, RulesStep

(* Closed without its record: the rule is gone, its entry stays.             *)
LEMMA ClosedUnrecordedKeeps ==
    ASSUME Forms, Rules, NEW port \in fw.recorded, fw' = [fw EXCEPT !.rules = @ \ {port}]
    PROVE  RulesStep
<1>1. /\ fw'.rules = fw.rules \ {port} /\ fw'.recorded = fw.recorded
      /\ fw'.users = fw.users /\ fw'.lost = fw.lost
      /\ fw' = [rules |-> fw'.rules, recorded |-> fw'.recorded, users |-> fw.users,
                lost |-> fw'.lost]
  BY DEF Forms
<1> QED BY <1>1 DEF Rules, RecordOurs, EveryRuleKnown, RulesStep

LEMMA ApplyKeeps ==
    ASSUME Forms, Rules, NEW enabled, NEW port, apply(enabled, port)
    PROVE  RulesStep
<1>1. CASE fw' = fw
  BY <1>1, UnchangedKeeps
<1>2. CASE fw' \in {Opened(port), OpenedUnrecorded(port)}
  BY <1>2, OpenedKeeps
<1>3. CASE port \in fw.recorded /\ fw' \in {Closed({port}), [fw EXCEPT !.rules = @ \ {port}]}
  <2>1. CASE fw' = Closed({port})
    <3>1. {port} \subseteq fw.recorded
      BY <1>3
    <3> QED BY <2>1, <3>1, ClosedKeeps
  <2>2. CASE fw' = [fw EXCEPT !.rules = @ \ {port}]
    BY <1>3, <2>2, ClosedUnrecordedKeeps
  <2> QED BY <1>3, <2>1, <2>2
<1> QED BY <1>1, <1>2, <1>3 DEF apply

-------------------------------------------------------------------------------
(* While nothing is being uninstalled only the firewall matters.             *)

LEMMA OutsideUninstall ==
    ASSUME IInv, RulesStep, uninst' = uninst, uninst.step = "none"
    PROVE  IInv'
<1>1. Forms'
  BY DEF IInv, Forms, RulesStep
<1>2. Phases' /\ Removing'
  BY DEF Phases, Removing, Listed, Spared, Pending
<1> QED BY <1>1, <1>2 DEF IInv, RulesStep

(* How the interface leaves the machine's files: it may end.                 *)
Lived == /\ UNCHANGED <<layout, uninst>>
         /\ UNCHANGED <<disk, killed>> \/ Closing \/ Killed

LEMMA LivedSpares ==
    ASSUME Lived
    PROVE  disk \cap Unknown \subseteq disk'
BY DEF Lived, Closing, Killed, Unknown

(* The steps of the running interface.                                       *)
LEMMA InterfaceKeeps ==
    ASSUME IInv, ui.running, Lived, fw' = fw
    PROVE  IInv' /\ disk \cap Unknown \subseteq disk'
<1>1. uninst.step = "none"
  BY DEF IInv, Phases
<1>2. RulesStep
  BY UnchangedKeeps DEF IInv
<1> QED BY <1>1, <1>2, OutsideUninstall, LivedSpares DEF Lived

LEMMA ToggleKeeps ==
    ASSUME IInv, NEW set, NEW enabled, NEW port, toggle(set, enabled, port)
    PROVE  IInv' /\ disk \cap Unknown \subseteq disk'
<1>1. uninst.step = "none" /\ uninst' = uninst
  BY DEF IInv, Phases, toggle, Idle
<1>2. RulesStep
  BY ApplyKeeps, UnchangedKeeps DEF IInv, toggle
<1>3. Lived
  BY DEF toggle, save_config, Lived
<1> QED BY <1>1, <1>2, <1>3, LivedSpares, OutsideUninstall

-------------------------------------------------------------------------------
(* The uninstall.                                                            *)

LEMMA CacheKnown == is_known_cache_dir => "in_cache" \notin disk
BY DEF is_known_cache_dir, InCache, CacheFiles

(* What is listed covers every file of ours, and spares what is unknown.     *)
LEMMA TargetsCover ==
    \A f \in (disk \cap Owned) \ {"db_log"} :
        \E t \in uninstall_targets \ {"firewall_state"} : f \in Holds(t)
<1> SUFFICES ASSUME NEW f \in (disk \cap Owned) \ {"db_log"}
             PROVE  \E t \in uninstall_targets \ {"firewall_state"} : f \in Holds(t)
  OBVIOUS
<1>1. f \in InRoot /\ f # "custom_config" /\ RootExists
  BY DEF Owned, RootFiles, CacheFiles, InRoot, RootExists
<1>2. CASE installed_app_dir_is_target
  <2>1. uninstall_targets = {"app_dir"} /\ f \in Holds("app_dir")
    BY <1>1, <1>2 DEF uninstall_targets, Holds
  <2> QED BY <2>1
<1>3. CASE contains_only_known_app_artifacts /\ ~installed_app_dir_is_target
  <2>1. uninstall_targets = {"root_dir"} /\ f \in Holds("root_dir")
    BY <1>1, <1>3 DEF uninstall_targets, Holds
  <2> QED BY <2>1
<1>4. CASE ~installed_app_dir_is_target /\ ~contains_only_known_app_artifacts
  <2>1. uninstall_targets = known_app_root_targets
    BY <1>1, <1>4 DEF uninstall_targets
  <2>2. f \in RootFiles \/ (f \in CacheFiles /\ f \in InCache)
    BY DEF Owned, InCache
  <2>3. CASE f \in RootFiles \/ ~(InCache # {} /\ is_known_cache_dir)
    <3>1. f \in known_app_root_targets
      BY <2>2, <2>3 DEF known_app_root_targets
    <3>2. f # "firewall_state" /\ f \in Holds(f)
      BY DEF Owned, RootFiles, CacheFiles, Holds
    <3> QED BY <2>1, <3>1, <3>2
  <2>4. CASE f \notin RootFiles /\ InCache # {} /\ is_known_cache_dir
    <3>1. "cache_dir" \in known_app_root_targets
      BY <2>4 DEF known_app_root_targets
    <3>2. f \in Holds("cache_dir")
      BY <2>2, <2>4 DEF Holds
    <3> QED BY <2>1, <3>1, <3>2
  <2> QED BY <2>3, <2>4
<1> QED BY <1>2, <1>3, <1>4

LEMMA TargetsSpare ==
    /\ uninstall_targets \subseteq Targets
    /\ "app_dir" \in uninstall_targets => disk \cap Unknown \subseteq {"custom_config"}
    /\ "root_dir" \in uninstall_targets => disk \cap {"in_root", "in_cache"} = {}
    /\ "cache_dir" \in uninstall_targets => "in_cache" \notin disk
<1>1. known_app_root_targets \subseteq RootFiles \cup CacheFiles \cup {"cache_dir", "firewall_state"}
  BY DEF known_app_root_targets
<1>2. "app_dir" \notin known_app_root_targets /\ "root_dir" \notin known_app_root_targets
  BY <1>1 DEF RootFiles, CacheFiles
<1>3. "cache_dir" \in known_app_root_targets => is_known_cache_dir
  BY DEF known_app_root_targets, RootFiles, CacheFiles
<1>4. contains_only_known_app_artifacts => disk \cap {"in_root", "in_cache"} = {}
  BY CacheKnown DEF contains_only_known_app_artifacts, InRoot, RootFiles, InCache, CacheFiles
<1>5. installed_app_dir_is_target => disk \cap Unknown \subseteq {"custom_config"}
  BY <1>4 DEF installed_app_dir_is_target, Unknown
<1>6. \/ uninstall_targets = {}
      \/ uninstall_targets = {"app_dir"} /\ installed_app_dir_is_target
      \/ uninstall_targets = {"root_dir"} /\ contains_only_known_app_artifacts
      \/ uninstall_targets = known_app_root_targets
  BY DEF uninstall_targets
<1> QED BY <1>1, <1>2, <1>3, <1>4, <1>5, <1>6, CacheKnown DEF Targets

LEMMA UninstallKeeps ==
    ASSUME IInv, ~ui.running, ui' = ui, Uninstall
    PROVE  IInv'
<1>1. /\ uninst'.targets = uninstall_targets
      /\ uninst'.step = IF fw.recorded # {} THEN "firewall" ELSE "files"
      /\ uninst' = [step |-> uninst'.step, targets |-> uninst'.targets]
  BY DEF Uninstall
<1>2. fw' = fw /\ disk' = disk
  BY DEF Uninstall
<1>3. Forms' /\ Rules' /\ Phases'
  BY <1>1, <1>2 DEF IInv, Forms, Rules, RecordOurs, EveryRuleKnown, Phases
<1>4. \A t : Holds(t)' = Holds(t)
  BY <1>2 DEF Holds, InRoot, InCache
<1>5. Listed'
  BY <1>1, <1>2, <1>4, TargetsCover DEF Listed
<1>6. Spared'
  BY <1>1, <1>2, TargetsSpare DEF Spared
<1> QED BY <1>3, <1>5, <1>6 DEF IInv, Removing

LEMMA CancelKeeps ==
    ASSUME IInv, ui' = ui, fw' = fw, disk' = disk, uninst' = NotUninstalling
    PROVE  IInv'
<1>1. uninst' = [step |-> "none", targets |-> {}]
  BY DEF NotUninstalling
<1> QED BY <1>1 DEF IInv, Forms, Rules, RecordOurs, EveryRuleKnown, Phases, Removing, Listed,
                    Spared, Pending

LEMMA UninstallFirewallKeeps ==
    ASSUME IInv, ~ui.running, ui' = ui, UninstallFirewall
    PROVE  IInv'
<1>1. PICK removed \in SUBSET fw.recorded :
        /\ fw' = Closed(removed)
        /\ uninst' = IF removed = fw.recorded THEN [uninst EXCEPT !.step = "files"]
                     ELSE NotUninstalling
  BY DEF UninstallFirewall, remove_owned_rules
<1>2. RulesStep /\ fw'.recorded = fw.recorded \ removed
  BY <1>1, ClosedKeeps DEF IInv
<1>3. uninst.step = "firewall" /\ disk' = disk
  BY DEF UninstallFirewall
<1>4. CASE removed = fw.recorded
  <2>1. /\ uninst' = [step |-> "files", targets |-> uninst.targets]
        /\ uninst'.step = "files" /\ uninst'.targets = uninst.targets
    BY <1>1, <1>4 DEF IInv, Forms
  <2>2. fw'.recorded = {}
    BY <1>2, <1>4
  <2>3. \A t : Holds(t)' = Holds(t)
    BY <1>3 DEF Holds, InRoot, InCache
  <2>4. Forms' /\ Rules'
    BY <1>2, <2>1 DEF RulesStep, Forms
  <2>5. Phases'
    BY <2>1, <2>2 DEF Phases
  <2>6. Listed'
    BY <1>3, <2>1, <2>3 DEF IInv, Removing, Listed, Pending
  <2>7. Spared'
    BY <1>3, <2>1 DEF IInv, Removing, Spared, Pending
  <2> QED BY <2>4, <2>5, <2>6, <2>7 DEF IInv, Removing
<1>5. CASE removed # fw.recorded
  <2>1. uninst' = [step |-> "none", targets |-> {}]
    BY <1>1, <1>5 DEF NotUninstalling
  <2>2. Forms' /\ Rules'
    BY <1>2, <2>1 DEF RulesStep, Forms
  <2>3. Phases' /\ Removing'
    BY <2>1 DEF Phases, Removing, Listed, Spared, Pending
  <2> QED BY <2>2, <2>3 DEF IInv
<1> QED BY <1>4, <1>5

(* A target takes nothing unknown with it.                                   *)
LEMMA HoldsKnown ==
    ASSUME Spared, Pending, NEW t \in uninst.targets
    PROVE  Holds(t) \cap Unknown \cap disk = {}
<1>1. t \in Targets
  BY DEF Spared
<1>2. CASE t = "app_dir"
  BY <1>2 DEF Spared, Holds, Unknown
<1>3. CASE t = "root_dir"
  BY <1>3 DEF Spared, Holds, Unknown, InRoot
<1>4. CASE t = "cache_dir"
  BY <1>4 DEF Spared, Holds, Unknown, InCache, CacheFiles
<1>5. CASE t \in RootFiles \cup CacheFiles \cup {"firewall_state"}
  <2>1. Holds(t) = {t} /\ t \notin Unknown
    BY <1>5 DEF RootFiles, CacheFiles, Holds, Unknown
  <2> QED BY <2>1
<1> QED BY <1>1, <1>2, <1>3, <1>4, <1>5 DEF Targets

LEMMA RemoveTargetKeeps ==
    ASSUME IInv, ~ui.running, ui' = ui, RemoveTarget
    PROVE  IInv' /\ disk \cap Unknown \subseteq disk'
<1>1. PICK target \in uninst.targets \ {"firewall_state"} :
        /\ disk' = disk \ Holds(target)
        /\ uninst' = [uninst EXCEPT !.targets = @ \ {target}]
  BY DEF RemoveTarget
<1>2. uninst.step = "files" /\ fw' = fw
  BY DEF RemoveTarget
<1>3. /\ uninst' = [step |-> "files", targets |-> uninst.targets \ {target}]
      /\ uninst'.step = "files" /\ uninst'.targets = uninst.targets \ {target}
  BY <1>1, <1>2 DEF IInv, Forms
<1>4. Forms' /\ Rules' /\ Phases'
  BY <1>2, <1>3 DEF IInv, Forms, Rules, RecordOurs, EveryRuleKnown, Phases
<1>5. Listed'
  <2> SUFFICES ASSUME NEW f \in (disk' \cap Owned) \ {"db_log"}
               PROVE  \E t \in uninst'.targets \ {"firewall_state"} : f \in Holds(t)'
    BY DEF Listed
  <2>1. PICK t \in uninst.targets \ {"firewall_state"} : f \in Holds(t)
    BY <1>1, <1>2 DEF IInv, Removing, Listed, Pending
  <2>2. t # target
    BY <1>1, <2>1
  <2>3. f \in Holds(t)'
    BY <2>1 DEF Holds, InRoot, InCache
  <2> QED BY <1>3, <2>1, <2>2, <2>3
<1>6. Spared'
  BY <1>1, <1>2, <1>3 DEF IInv, Removing, Spared, Pending
<1>7. disk \cap Unknown \subseteq disk'
  BY <1>1, <1>2, HoldsKnown DEF IInv, Removing, Pending
<1> QED BY <1>4, <1>5, <1>6, <1>7 DEF IInv, Removing

LEMMA UninstalledKeeps ==
    ASSUME IInv, ~ui.running, ui' = ui, Uninstalled
    PROVE  IInv'
<1>1. /\ uninst.step = "files" /\ uninst.targets = {}
      /\ fw' = fw /\ disk' = disk
      /\ uninst' = [step |-> "done", targets |-> uninst.targets] /\ uninst'.step = "done"
  BY DEF IInv, Forms, Uninstalled
<1>2. disk \cap Owned \subseteq {"db_log"}
  BY <1>1 DEF IInv, Removing, Listed, Pending
<1> QED BY <1>1, <1>2 DEF IInv, Forms, Rules, RecordOurs, EveryRuleKnown, Phases, Removing,
                          Listed, Spared, Pending

-------------------------------------------------------------------------------
(* Every step.                                                               *)

LEMMA InitHolds == Init => IInv
<1> SUFFICES ASSUME Init PROVE IInv
  OBVIOUS
<1>1. PICK users \in UserRules :
        fw = [rules |-> users, recorded |-> {}, users |-> users, lost |-> {}]
  BY DEF Init, FootprintInit
<1>2. uninst = [step |-> "none", targets |-> {}]
  BY DEF Init, FootprintInit, NotUninstalling
<1> QED BY <1>1, <1>2 DEF IInv, Forms, Rules, RecordOurs, EveryRuleKnown, Phases, Removing, Listed,
                          Spared, Pending

LEMMA StartKeeps ==
    ASSUME IInv, start
    PROVE  IInv' /\ disk \cap Unknown \subseteq disk'
<1>1. uninst.step = "none" /\ uninst' = uninst
  BY DEF start
<1>2. \E port : apply(TRUE, port) \/ UNCHANGED fw
  BY DEF start
<1>3. RulesStep
  BY <1>2, ApplyKeeps, UnchangedKeeps DEF IInv
<1>4. disk \subseteq disk'
  BY DEF start
<1> QED BY <1>1, <1>3, <1>4, OutsideUninstall

LEMMA UninstallStep ==
    ASSUME IInv, uninstall
    PROVE  IInv' /\ (disk' # disk => disk \cap Unknown \subseteq disk')
<1>1. ~ui.running /\ ui' = ui
  BY DEF uninstall
<1>2. CASE Uninstall
  BY <1>1, <1>2, UninstallKeeps DEF Uninstall
<1>3. CASE UninstallCancelled \/ RemoveFirewallState
  BY <1>1, <1>3, CancelKeeps DEF UninstallCancelled, RemoveFirewallState
<1>4. CASE UninstallFirewall
  BY <1>1, <1>4, UninstallFirewallKeeps DEF UninstallFirewall
<1>5. CASE RemoveTarget
  BY <1>1, <1>5, RemoveTargetKeeps
<1>6. CASE Uninstalled
  BY <1>1, <1>6, UninstalledKeeps DEF Uninstalled
<1> QED BY <1>2, <1>3, <1>4, <1>5, <1>6 DEF uninstall, UninstallNext

(* The interface at work changes nothing but itself and the file.            *)
Interface ==
    \/ handle_mouse \/ move_selection \/ go_back \/ cancel_input
    \/ activate_main \/ edit_selected_subscription \/ open_panel_row \/ start_command
    \/ start_new_subscription \/ start_edit \/ toggle_subscription \/ delete_subscription
    \/ other_command \/ save_now
    \/ commit_name \/ commit_url \/ commit_priority
    \/ commit_new_url \/ commit_new_name \/ commit_new_priority \/ commit_new_enabled
    \/ commit_config \/ commit_reset \/ quit

LEMMA InterfaceAlone ==
    ASSUME Interface
    PROVE  ui.running /\ fw' = fw /\ Lived
<1>0. UNCHANGED footprint => fw' = fw /\ Lived
  BY DEF footprint, Lived
<1>1. \A next : Shown(next) => ui.running /\ fw' = fw /\ Lived
  BY <1>0 DEF Shown, Quiet
<1>2. CASE handle_mouse
  BY <1>1, <1>2 DEF handle_mouse
<1>3. CASE move_selection
  BY <1>1, <1>3 DEF move_selection
<1>4. CASE go_back
  BY <1>1, <1>4 DEF go_back
<1>5. CASE cancel_input
  BY <1>1, <1>5 DEF cancel_input
<1>6. CASE activate_main
  BY <1>1, <1>6 DEF activate_main
<1>7. CASE edit_selected_subscription
  BY <1>1, <1>7 DEF edit_selected_subscription
<1>8. CASE open_panel_row
  BY <1>1, <1>8 DEF open_panel_row
<1>9. CASE start_command
  BY <1>1, <1>9 DEF start_command
<1>10. CASE start_new_subscription
  BY <1>1, <1>10 DEF start_new_subscription
<1>11. CASE start_edit
  BY <1>1, <1>11 DEF start_edit
<1>12. CASE other_command
  BY <1>1, <1>12 DEF other_command
<1>13. CASE toggle_subscription \/ delete_subscription
  BY <1>0, <1>13 DEF toggle_subscription, delete_subscription
<1>14. CASE save_now
  BY <1>14 DEF save_now, save_config, Lived
<1>15. CASE commit_name \/ commit_url \/ commit_priority
  BY <1>0, <1>15 DEF commit_name, commit_url, commit_priority, commit_field
<1>16. CASE commit_new_url
  BY <1>1, <1>16 DEF commit_new_url
<1>17. CASE commit_new_name
  BY <1>1, <1>17 DEF commit_new_name
<1>18. CASE commit_new_priority
  BY <1>1, <1>18 DEF commit_new_priority
<1>19. CASE commit_new_enabled
  BY <1>0, <1>19 DEF commit_new_enabled
<1>20. CASE commit_config \/ commit_reset
  BY <1>0, <1>20 DEF commit_config, commit_reset
<1>21. CASE quit
  BY <1>21 DEF quit, Lived
<1> QED BY <1>2, <1>3, <1>4, <1>5, <1>6, <1>7, <1>8, <1>9, <1>10, <1>11, <1>12, <1>13, <1>14,
           <1>15, <1>16, <1>17, <1>18, <1>19, <1>20, <1>21 DEF Interface

LEMMA NextKeeps ==
    ASSUME IInv, [Next]_vars
    PROVE  IInv' /\ (disk' # disk => disk \cap Unknown \subseteq disk')
<1>1. CASE Interface
  BY <1>1, InterfaceAlone, InterfaceKeeps
<1>2. CASE activate_sharing
  <2>1. PICK set, enabled, port : toggle(set, enabled, port)
    BY <1>2 DEF activate_sharing
  <2> QED BY <2>1, ToggleKeeps DEF toggle
<1>3. CASE activate_proxy
  <2>1. PICK set, enabled, port : toggle(set, enabled, port)
    BY <1>3 DEF activate_proxy
  <2> QED BY <2>1, ToggleKeeps DEF toggle
<1>4. CASE user_edits_file \/ persist_generated_token
  <2>1. UNCHANGED <<ui, fw, disk, uninst>>
    BY <1>4 DEF user_edits_file, persist_generated_token, footprint
  <2> QED BY <2>1 DEF IInv, Forms, Rules, RecordOurs, EveryRuleKnown, Phases, Removing, Listed,
                      Spared, Pending, Holds, InRoot, InCache
<1>5. CASE start
  BY <1>5, StartKeeps
<1>6. CASE stray_files
  <2>1. /\ uninst.step = "none" /\ uninst' = uninst /\ fw' = fw
        /\ disk \subseteq disk'
    BY <1>6 DEF stray_files
  <2>2. RulesStep
    BY <2>1, UnchangedKeeps DEF IInv
  <2> QED BY <2>1, <2>2, OutsideUninstall
<1>7. CASE uninstall
  BY <1>7, UninstallStep
<1>8. CASE UNCHANGED vars
  BY <1>8 DEF vars, IInv, Forms, Rules, RecordOurs, EveryRuleKnown, Phases, Removing, Listed,
              Spared, Pending, Holds, InRoot, InCache
<1> QED BY <1>1, <1>2, <1>3, <1>4, <1>5, <1>6, <1>7, <1>8 DEF Next, Interface

LEMMA Inductive == Spec => []IInv
<1>1. IInv /\ [Next]_vars => IInv'
  BY NextKeeps
<1> QED BY <1>1, InitHolds, PTL DEF Spec

(* A rule the user had opened is never removed, through crashes between a    *)
(* rule and its record, retries and the uninstall (firewall.rs).             *)
THEOREM UserRulesSafe == Spec => []UserRulesKept
<1>1. IInv => UserRulesKept
  BY DEF IInv, Rules, RecordOurs, UserRulesKept
<1> QED BY <1>1, Inductive, PTL

(* No step deletes a file the program does not know (main.rs:512-646).       *)
THEOREM UnknownKept == Spec => UnknownFilesKept
<1>1. IInv /\ [Next]_vars => [disk \cap Unknown \subseteq disk']_disk
  BY NextKeeps
<1> QED BY <1>1, Inductive, PTL DEF Spec, UnknownFilesKept

-------------------------------------------------------------------------------
(* Sequences with an element taken out or put in.                            *)

LEMMA Least ==
    ASSUME NEW S \in SUBSET Nat, S # {}
    PROVE  Min(S) \in S
<1>1. PICK x \in S : \A y \in S : ~ (<<y, x>> \in OpToRel(<, Nat))
  BY NatLessThanWellFounded, WFMin
<1>2. \A y \in S : ~ (y < x)
  BY <1>1 DEF OpToRel
<1>3. \A y \in S : x <= y
  BY <1>2
<1> QED BY <1>3 DEF Min

LEMMA RemoveAtIs ==
    ASSUME NEW S, NEW s \in Seq(S), NEW i \in 1 .. Len(s)
    PROVE  /\ RemoveAt(s, i) \in Seq(S)
           /\ Len(RemoveAt(s, i)) = Len(s) - 1
           /\ \A j \in 1 .. Len(s) - 1 :
                RemoveAt(s, i)[j] = IF j < i THEN s[j] ELSE s[j + 1]
<1> DEFINE a == SubSeq(s, 1, i - 1)
           b == SubSeq(s, i + 1, Len(s))
<1>1. Len(s) \in Nat /\ \A j \in 1 .. Len(s) : s[j] \in S
  BY LenProperties, ElementOfSeq
<1>2. /\ a \in Seq(S) /\ Len(a) = i - 1
      /\ \A j \in 1 .. i - 1 : a[j] = s[j]
  <2>1. \A j \in 1 .. i - 1 : s[j] \in S
    BY <1>1
  <2>2. 1 \in Int /\ i - 1 \in Int
    BY <1>1
  <2>3. /\ a \in Seq(S) /\ Len(a) = IF 1 <= i - 1 THEN (i - 1) - 1 + 1 ELSE 0
        /\ \A j \in 1 .. (i - 1) - 1 + 1 : a[j] = s[1 + j - 1]
    BY <2>1, <2>2, SubSeqProperties
  <2> QED BY <1>1, <2>3
<1>3. /\ b \in Seq(S) /\ Len(b) = Len(s) - i
      /\ \A j \in 1 .. Len(s) - i : b[j] = s[i + j]
  <2>1. \A j \in i + 1 .. Len(s) : s[j] \in S
    BY <1>1
  <2>2. i + 1 \in Int /\ Len(s) \in Int
    BY <1>1
  <2>3. /\ b \in Seq(S) /\ Len(b) = IF i + 1 <= Len(s) THEN Len(s) - (i + 1) + 1 ELSE 0
        /\ \A j \in 1 .. Len(s) - (i + 1) + 1 : b[j] = s[(i + 1) + j - 1]
    BY <2>1, <2>2, SubSeqProperties
  <2> QED BY <1>1, <2>3
<1>4. /\ a \o b \in Seq(S)
      /\ Len(a \o b) = Len(a) + Len(b)
      /\ \A j \in 1 .. Len(a) + Len(b) : (a \o b)[j] = IF j <= Len(a) THEN a[j] ELSE b[j - Len(a)]
  BY <1>2, <1>3, ConcatProperties
<1>5. RemoveAt(s, i) = a \o b
  BY DEF RemoveAt
<1> HIDE DEF a, b
<1>6. \A j \in 1 .. Len(s) - 1 : (a \o b)[j] = IF j < i THEN s[j] ELSE s[j + 1]
  <2> SUFFICES ASSUME NEW j \in 1 .. Len(s) - 1
               PROVE  (a \o b)[j] = IF j < i THEN s[j] ELSE s[j + 1]
    OBVIOUS
  <2>1. CASE j < i
    BY <1>1, <1>2, <1>3, <1>4, <2>1
  <2>2. CASE ~(j < i)
    <3>1. j - (i - 1) \in 1 .. Len(s) - i /\ i + (j - (i - 1)) = j + 1
      BY <1>1, <2>2
    <3>2. b[j - (i - 1)] = s[j + 1]
      BY <1>3, <3>1
    <3>3. (a \o b)[j] = b[j - (i - 1)]
      BY <1>1, <1>2, <1>3, <1>4, <2>2
    <3> QED BY <2>2, <3>2, <3>3
  <2> QED BY <2>1, <2>2
<1> QED BY <1>1, <1>2, <1>3, <1>4, <1>5, <1>6

LEMMA InsertAtIs ==
    ASSUME NEW S, NEW s \in Seq(S), NEW e \in S, NEW i \in 1 .. Len(s) + 1
    PROVE  /\ InsertAt(s, i, e) \in Seq(S)
           /\ Len(InsertAt(s, i, e)) = Len(s) + 1
           /\ \A j \in 1 .. Len(s) + 1 :
                InsertAt(s, i, e)[j] = IF j < i THEN s[j] ELSE IF j = i THEN e ELSE s[j - 1]
<1> DEFINE a == SubSeq(s, 1, i - 1)
           m == <<e>>
           b == SubSeq(s, i, Len(s))
<1>1. Len(s) \in Nat /\ \A j \in 1 .. Len(s) : s[j] \in S
  BY LenProperties, ElementOfSeq
<1>2. /\ a \in Seq(S) /\ Len(a) = i - 1
      /\ \A j \in 1 .. i - 1 : a[j] = s[j]
  <2>1. \A j \in 1 .. i - 1 : s[j] \in S
    BY <1>1
  <2>2. 1 \in Int /\ i - 1 \in Int
    BY <1>1
  <2>3. /\ a \in Seq(S) /\ Len(a) = IF 1 <= i - 1 THEN (i - 1) - 1 + 1 ELSE 0
        /\ \A j \in 1 .. (i - 1) - 1 + 1 : a[j] = s[1 + j - 1]
    BY <2>1, <2>2, SubSeqProperties
  <2> QED BY <1>1, <2>3
<1>3. /\ b \in Seq(S) /\ Len(b) = Len(s) - i + 1
      /\ \A j \in 1 .. Len(s) - i + 1 : b[j] = s[i + j - 1]
  <2>1. \A j \in i .. Len(s) : s[j] \in S
    BY <1>1
  <2>2. i \in Int /\ Len(s) \in Int
    BY <1>1
  <2>3. /\ b \in Seq(S) /\ Len(b) = IF i <= Len(s) THEN Len(s) - i + 1 ELSE 0
        /\ \A j \in 1 .. Len(s) - i + 1 : b[j] = s[i + j - 1]
    BY <2>1, <2>2, SubSeqProperties
  <2> QED BY <1>1, <2>3
<1>4. m \in Seq(S) /\ Len(m) = 1 /\ m[1] = e
  OBVIOUS
<1> HIDE DEF a, m, b
<1>5. /\ a \o m \in Seq(S) /\ Len(a \o m) = i
      /\ \A j \in 1 .. i : (a \o m)[j] = IF j < i THEN s[j] ELSE e
  <2>1. /\ a \o m \in Seq(S) /\ Len(a \o m) = Len(a) + Len(m)
        /\ \A j \in 1 .. Len(a) + Len(m) :
             (a \o m)[j] = IF j <= Len(a) THEN a[j] ELSE m[j - Len(a)]
    BY <1>2, <1>4, ConcatProperties
  <2>2. \A j \in 1 .. i : (a \o m)[j] = IF j < i THEN s[j] ELSE e
    <3> SUFFICES ASSUME NEW j \in 1 .. i
                 PROVE  (a \o m)[j] = IF j < i THEN s[j] ELSE e
      OBVIOUS
    <3>1. CASE j < i
      BY <1>1, <1>2, <1>4, <2>1, <3>1
    <3>2. CASE ~(j < i)
      <4>1. j = i /\ j - (i - 1) = 1
        BY <1>1, <3>2
      <4> QED BY <1>1, <1>2, <1>4, <2>1, <4>1
    <3> QED BY <3>1, <3>2
  <2> QED BY <1>1, <1>2, <1>4, <2>1, <2>2
<1>6. /\ (a \o m) \o b \in Seq(S)
      /\ Len((a \o m) \o b) = i + Len(b)
      /\ \A j \in 1 .. i + Len(b) :
           ((a \o m) \o b)[j] = IF j <= i THEN (a \o m)[j] ELSE b[j - i]
  <2> DEFINE am == a \o m
  <2>1. am \in Seq(S) /\ Len(am) = i
    BY <1>5
  <2> HIDE DEF am
  <2>2. /\ am \o b \in Seq(S) /\ Len(am \o b) = Len(am) + Len(b)
        /\ \A j \in 1 .. Len(am) + Len(b) :
             (am \o b)[j] = IF j <= Len(am) THEN am[j] ELSE b[j - Len(am)]
    BY <1>3, <2>1, ConcatProperties
  <2> QED BY <2>1, <2>2 DEF am
<1>7. InsertAt(s, i, e) = (a \o m) \o b
  BY DEF InsertAt, a, m, b
<1>8. \A j \in 1 .. Len(s) + 1 :
        ((a \o m) \o b)[j] = IF j < i THEN s[j] ELSE IF j = i THEN e ELSE s[j - 1]
  <2> SUFFICES ASSUME NEW j \in 1 .. Len(s) + 1
               PROVE  ((a \o m) \o b)[j] = IF j < i THEN s[j] ELSE IF j = i THEN e ELSE s[j - 1]
    OBVIOUS
  <2>1. CASE j <= i
    BY <1>1, <1>3, <1>5, <1>6, <2>1
  <2>2. CASE ~(j <= i)
    <3>1. j - i \in 1 .. Len(s) - i + 1 /\ i + (j - i) - 1 = j - 1
      BY <1>1, <2>2
    <3>2. b[j - i] = s[j - 1]
      BY <1>3, <3>1
    <3>3. ((a \o m) \o b)[j] = b[j - i]
      BY <1>1, <1>3, <1>6, <2>2, SMTT(60)
    <3> QED BY <1>1, <2>2, <3>2, <3>3
  <2> QED BY <2>1, <2>2
<1> QED BY <1>1, <1>3, <1>6, <1>7, <1>8

-------------------------------------------------------------------------------
(* The list in the file is the list on the screen after a save.              *)

LEMMA Loaded ==
    ASSUME NEW f \in Files
    PROVE  /\ Configuration(f) \in [subs: Seq(Subscription), set: Settings]
           /\ Configuration(f).set
                = [f.set EXCEPT !.token = IF @ = "true" THEN "word" ELSE @]
           /\ Len(f.items) \in Nat /\ DOMAIN f.items = 1 .. Len(f.items)
           /\ Len(Configuration(f).subs) = Len(f.items)
           /\ \A i \in 1 .. Len(f.items) :
                f.items[i] \in Items /\ Configuration(f).subs[i] = f.items[i].sub
<1>1. f.items \in Seq(Items) /\ f.set \in FileSettings
  BY DEF Files
<1>2. /\ Len(f.items) \in Nat /\ DOMAIN f.items = 1 .. Len(f.items)
      /\ \A i \in 1 .. Len(f.items) : f.items[i] \in Items
  BY <1>1, LenProperties, ElementOfSeq
<1> DEFINE subs == [i \in 1 .. Len(f.items) |-> f.items[i].sub]
           set == [f.set EXCEPT !.token = IF @ = "true" THEN "word" ELSE @]
<1>3. Configuration(f) = [subs |-> subs, set |-> set]
  BY <1>2 DEF Configuration
<1>4. \A i \in 1 .. Len(f.items) : f.items[i].sub \in Subscription
  BY <1>2 DEF Items
<1>5. subs \in Seq(Subscription) /\ Len(subs) = Len(f.items)
  BY <1>2, <1>4
<1>6. set \in Settings
  BY <1>1 DEF Settings, FileSettings, SettingsWith, Tokens
<1> HIDE DEF subs, set
<1>7. Configuration(f).subs = subs /\ Configuration(f).set = set
  BY <1>3
<1>8. Configuration(f) \in [subs: Seq(Subscription), set: Settings]
  BY <1>3, <1>5, <1>6
<1> QED BY <1>2, <1>5, <1>7, <1>8 DEF subs, set

(* A file of which only the list was edited.                                 *)
Listing(f, g, subs) ==
    /\ g \in Files /\ g.set = f.set /\ g.yaml = f.yaml /\ g.odd = f.odd
    /\ Configuration(g).subs = subs

LEMMA ListingIs ==
    ASSUME NEW f \in Files, NEW subs \in Seq(Subscription), NEW g \in Files,
           g.set = f.set, g.yaml = f.yaml, g.odd = f.odd, Len(g.items) = Len(subs),
           \A i \in 1 .. Len(subs) : g.items[i].sub = subs[i]
    PROVE  Listing(f, g, subs)
<1>1. /\ Configuration(g).subs \in Seq(Subscription)
      /\ Len(Configuration(g).subs) = Len(subs)
      /\ \A i \in 1 .. Len(subs) : Configuration(g).subs[i] = subs[i]
  BY Loaded
<1>2. Configuration(g).subs = subs
  BY <1>1, SeqEqual
<1> QED BY <1>2 DEF Listing

LEMMA RewrittenLists ==
    ASSUME NEW f \in Files, NEW subs \in Seq(Subscription)
    PROVE  Listing(f, Rewritten(f, subs), subs)
<1>1. /\ Len(subs) \in Nat /\ DOMAIN subs = 1 .. Len(subs)
      /\ \A i \in 1 .. Len(subs) : subs[i] \in Subscription
  BY LenProperties, ElementOfSeq
<1> DEFINE items == [i \in 1 .. Len(subs) |-> Plain(subs[i])]
           g == Rewritten(f, subs)
<1>2. \A i \in 1 .. Len(subs) : Plain(subs[i]) \in Items /\ Plain(subs[i]).sub = subs[i]
  BY <1>1 DEF Plain, Items
<1>3. items \in Seq(Items) /\ Len(items) = Len(subs)
  BY <1>1, <1>2
<1>4. /\ g = [f EXCEPT !.items = items, !.list = IF subs = <<>> THEN "inline" ELSE "block"]
  BY <1>1 DEF Rewritten
<1> HIDE DEF items, g
<1>5. g \in Files /\ g.set = f.set /\ g.yaml = f.yaml /\ g.odd = f.odd /\ g.items = items
  BY <1>3, <1>4 DEF Files
<1>6. \A i \in 1 .. Len(subs) : g.items[i].sub = subs[i]
  BY <1>2, <1>5 DEF items
<1> QED BY <1>3, <1>5, <1>6, ListingIs DEF g

LEMMA InPlaceLists ==
    ASSUME NEW f \in Files, NEW subs \in Seq(Subscription), Len(f.items) = Len(subs)
    PROVE  /\ Listing(f, update_subscription_items_in_place(f, Configuration(f).subs, subs), subs)
           /\ (\A i \in 1 .. Len(f.items) : f.items[i].keys = Keys) =>
                \A i \in 1 .. Len(f.items) :
                  update_subscription_items_in_place(f, Configuration(f).subs, subs).items[i].note
                    = f.items[i].note
<1>1. /\ Len(subs) \in Nat /\ DOMAIN subs = 1 .. Len(subs)
      /\ \A i \in 1 .. Len(subs) : subs[i] \in Subscription
  BY LenProperties, ElementOfSeq
<1>2. \A i \in 1 .. Len(subs) : f.items[i] \in Items
  BY Loaded
<1> DEFINE items == [i \in 1 .. Len(subs) |-> [f.items[i] EXCEPT !.sub = subs[i]]]
           g == [f EXCEPT !.items = items]
<1>3. \A i \in 1 .. Len(subs) : /\ [f.items[i] EXCEPT !.sub = subs[i]] \in Items
                                /\ [f.items[i] EXCEPT !.sub = subs[i]].sub = subs[i]
                                /\ [f.items[i] EXCEPT !.sub = subs[i]].note = f.items[i].note
  BY <1>1, <1>2 DEF Items
<1>4. items \in Seq(Items) /\ Len(items) = Len(subs)
  BY <1>1, <1>3
<1>5. /\ \A i \in 1 .. Len(subs) : items[i].sub = subs[i]
      /\ \A i \in 1 .. Len(subs) : items[i].note = f.items[i].note
  BY <1>3
<1> HIDE DEF items
<1>6. g \in Files /\ g.set = f.set /\ g.yaml = f.yaml /\ g.odd = f.odd /\ g.items = items
  BY <1>4 DEF Files
<1> HIDE DEF g
<1>7. Listing(f, g, subs)
  BY <1>4, <1>5, <1>6, ListingIs
<1>8. \/ update_subscription_items_in_place(f, Configuration(f).subs, subs) = g
      \/ /\ update_subscription_items_in_place(f, Configuration(f).subs, subs)
              = Rewritten(f, subs)
         /\ \E i \in 1 .. Len(subs) : f.items[i].keys # Keys
  BY <1>1 DEF update_subscription_items_in_place, g, items
<1> QED BY <1>5, <1>6, <1>7, <1>8, RewrittenLists

(* With a subscription fewer, or more, it is the items' turn.                *)
LEMMA RemovedLists ==
    ASSUME NEW f \in Files, NEW subs \in Seq(Subscription), NEW i \in 1 .. Len(f.items),
           RemoveAt(Configuration(f).subs, i) = subs
    PROVE  Listing(f, ItemRemoved(f, i), subs) /\ ItemRemoved(f, i).items = RemoveAt(f.items, i)
<1> DEFINE prev == Configuration(f).subs
           items == RemoveAt(f.items, i)
           g == ItemRemoved(f, i)
<1>1. /\ prev \in Seq(Subscription) /\ Len(prev) = Len(f.items) /\ Len(f.items) \in Nat
      /\ \A j \in 1 .. Len(f.items) : prev[j] = f.items[j].sub
  BY Loaded
<1>2. f.items \in Seq(Items)
  BY DEF Files
<1>3. /\ items \in Seq(Items) /\ Len(items) = Len(f.items) - 1
      /\ \A j \in 1 .. Len(f.items) - 1 : items[j] = IF j < i THEN f.items[j] ELSE f.items[j + 1]
  BY <1>2, RemoveAtIs
<1>4. /\ Len(subs) = Len(f.items) - 1
      /\ \A j \in 1 .. Len(f.items) - 1 : subs[j] = IF j < i THEN prev[j] ELSE prev[j + 1]
  BY <1>1, RemoveAtIs, SMTT(60)
<1>5. g = [f EXCEPT !.items = items, !.list = IF Len(f.items) = 1 THEN "bare" ELSE @]
  BY DEF ItemRemoved
<1> HIDE DEF items, g, prev
<1>6. g \in Files /\ g.set = f.set /\ g.yaml = f.yaml /\ g.odd = f.odd /\ g.items = items
  BY <1>3, <1>5 DEF Files
<1>7. \A j \in 1 .. Len(subs) : g.items[j].sub = subs[j]
  <2> SUFFICES ASSUME NEW j \in 1 .. Len(f.items) - 1
               PROVE  items[j].sub = subs[j]
    BY <1>4, <1>6
  <2>1. j \in 1 .. Len(f.items) /\ j + 1 \in 1 .. Len(f.items)
    BY <1>1
  <2> QED BY <1>1, <1>3, <1>4, <2>1
<1>8. Listing(f, g, subs)
  BY <1>3, <1>4, <1>6, <1>7, ListingIs
<1> QED BY <1>6, <1>8 DEF g, items

LEMMA InsertedLists ==
    ASSUME NEW f \in Files, NEW subs \in Seq(Subscription), NEW i \in 1 .. Len(subs),
           RemoveAt(subs, i) = Configuration(f).subs
    PROVE  /\ Listing(f, ItemInserted(f, i, subs[i]), subs)
           /\ RemoveAt(ItemInserted(f, i, subs[i]).items, i) = f.items
<1> DEFINE prev == Configuration(f).subs
           items == InsertAt(f.items, i, Plain(subs[i]))
           g == ItemInserted(f, i, subs[i])
<1>1. /\ prev \in Seq(Subscription) /\ Len(prev) = Len(f.items) /\ Len(f.items) \in Nat
      /\ \A j \in 1 .. Len(f.items) : prev[j] = f.items[j].sub
  BY Loaded
<1>2. f.items \in Seq(Items)
  BY DEF Files
<1>3. Len(subs) \in Nat /\ subs[i] \in Subscription
  BY LenProperties, ElementOfSeq
<1>4. /\ Len(prev) = Len(subs) - 1
      /\ \A j \in 1 .. Len(subs) - 1 : prev[j] = IF j < i THEN subs[j] ELSE subs[j + 1]
  BY RemoveAtIs
<1>5. Plain(subs[i]) \in Items /\ Plain(subs[i]).sub = subs[i]
  BY <1>3 DEF Plain, Items
<1>6. i \in 1 .. Len(f.items) + 1 /\ Len(subs) = Len(f.items) + 1
  BY <1>1, <1>3, <1>4
<1>7. /\ items \in Seq(Items) /\ Len(items) = Len(f.items) + 1
      /\ \A j \in 1 .. Len(f.items) + 1 :
           items[j] = IF j < i THEN f.items[j] ELSE IF j = i THEN Plain(subs[i]) ELSE f.items[j - 1]
  <2>1. ASSUME NEW its \in Seq(Items), NEW e \in Items, i \in 1 .. Len(its) + 1
        PROVE  /\ InsertAt(its, i, e) \in Seq(Items)
               /\ Len(InsertAt(its, i, e)) = Len(its) + 1
               /\ \A j \in 1 .. Len(its) + 1 :
                    InsertAt(its, i, e)[j] = IF j < i THEN its[j]
                                             ELSE IF j = i THEN e ELSE its[j - 1]
    BY <2>1, InsertAtIs, SMTT(60)
  <2> QED BY <1>2, <1>5, <1>6, <2>1
<1>8. g = [f EXCEPT !.items = items, !.list = IF @ = "inline" THEN "mixed" ELSE "block"]
  BY DEF ItemInserted
<1> HIDE DEF items, g, prev
<1>9. g \in Files /\ g.set = f.set /\ g.yaml = f.yaml /\ g.odd = f.odd /\ g.items = items
  BY <1>7, <1>8 DEF Files
<1>10. \A j \in 1 .. Len(subs) : g.items[j].sub = subs[j]
  <2> SUFFICES ASSUME NEW j \in 1 .. Len(f.items) + 1
               PROVE  items[j].sub = subs[j]
    BY <1>6, <1>9
  <2>1. CASE j < i
    <3>1. j \in 1 .. Len(f.items) /\ j \in 1 .. Len(subs) - 1
      BY <1>1, <1>6, <2>1
    <3> QED BY <1>1, <1>4, <1>7, <2>1, <3>1
  <2>2. CASE j = i
    BY <1>5, <1>7, <2>2
  <2>3. CASE j > i
    <3>1. j - 1 \in 1 .. Len(f.items) /\ j - 1 \in 1 .. Len(subs) - 1 /\ ~(j - 1 < i)
          /\ (j - 1) + 1 = j /\ ~(j < i) /\ j # i
      BY <1>1, <1>6, <2>3
    <3>2. prev[j - 1] = subs[j] /\ items[j] = f.items[j - 1] /\ prev[j - 1] = f.items[j - 1].sub
      BY <1>1, <1>4, <1>7, <3>1
    <3> QED BY <3>2
  <2> QED BY <1>1, <2>1, <2>2, <2>3
<1>11. Listing(f, g, subs)
  BY <1>6, <1>7, <1>9, <1>10, ListingIs
<1>12. RemoveAt(items, i) = f.items
  <2>1. /\ RemoveAt(items, i) \in Seq(Items) /\ Len(RemoveAt(items, i)) = Len(f.items)
        /\ \A j \in 1 .. Len(f.items) :
             RemoveAt(items, i)[j] = IF j < i THEN items[j] ELSE items[j + 1]
    <3>1. i \in 1 .. Len(items) /\ Len(items) - 1 = Len(f.items)
      BY <1>1, <1>6, <1>7
    <3> QED BY <1>7, <3>1, RemoveAtIs
  <2>2. \A j \in 1 .. Len(f.items) : RemoveAt(items, i)[j] = f.items[j]
    <3> SUFFICES ASSUME NEW j \in 1 .. Len(f.items)
                 PROVE  RemoveAt(items, i)[j] = f.items[j]
      OBVIOUS
    <3>1. j \in 1 .. Len(f.items) + 1 /\ j + 1 \in 1 .. Len(f.items) + 1 /\ (j + 1) - 1 = j
      BY <1>1
    <3>2. CASE j < i
      BY <1>7, <2>1, <3>1, <3>2
    <3>3. CASE ~(j < i)
      <4>1. ~(j + 1 < i) /\ j + 1 # i
        BY <1>1, <1>6, <3>3
      <4>2. items[j + 1] = f.items[j]
        BY <1>7, <3>1, <4>1
      <4> QED BY <2>1, <3>3, <4>2
    <3> QED BY <3>2, <3>3
  <2> QED BY <1>2, <2>1, <2>2, SeqEqual
<1> QED BY <1>9, <1>11, <1>12 DEF g

(* What an edit of a block list, all of whose keys are spelled out, keeps.   *)
Preserves(f, g, new) ==
    LET old == Configuration(f).subs
    IN  /\ Len(old) = Len(new) => \A i \in DOMAIN old : g.items[i].note = f.items[i].note
        /\ removed_subscription_index(old, new) # {} =>
             \E i \in DOMAIN old : g.items = RemoveAt(f.items, i)
        /\ inserted_subscription_index(old, new) # {} =>
             \E i \in DOMAIN new : RemoveAt(g.items, i) = f.items

Spelled(f) == f.list = "block" /\ \A i \in DOMAIN Configuration(f).subs : f.items[i].keys = Keys

LEMMA Indices ==
    ASSUME NEW prev \in Seq(Subscription), NEW subs \in Seq(Subscription)
    PROVE  /\ \A i \in removed_subscription_index(prev, subs) :
                i \in 1 .. Len(prev) /\ RemoveAt(prev, i) = subs /\ Len(subs) = Len(prev) - 1
           /\ \A i \in inserted_subscription_index(prev, subs) :
                i \in 1 .. Len(subs) /\ RemoveAt(subs, i) = prev /\ Len(prev) = Len(subs) - 1
           /\ removed_subscription_index(prev, subs) \in SUBSET Nat
           /\ inserted_subscription_index(prev, subs) \in SUBSET Nat
<1>1. /\ Len(prev) \in Nat /\ DOMAIN prev = 1 .. Len(prev)
      /\ Len(subs) \in Nat /\ DOMAIN subs = 1 .. Len(subs)
  BY LenProperties
<1>2. \A i \in removed_subscription_index(prev, subs) :
        i \in 1 .. Len(prev) /\ RemoveAt(prev, i) = subs /\ Len(subs) = Len(prev) - 1
  <2> SUFFICES ASSUME NEW i \in 1 .. Len(prev), RemoveAt(prev, i) = subs
               PROVE  Len(subs) = Len(prev) - 1
    BY <1>1 DEF removed_subscription_index
  <2> QED BY RemoveAtIs
<1>3. \A i \in inserted_subscription_index(prev, subs) :
        i \in 1 .. Len(subs) /\ RemoveAt(subs, i) = prev /\ Len(prev) = Len(subs) - 1
  <2> SUFFICES ASSUME NEW i \in 1 .. Len(subs), RemoveAt(subs, i) = prev
               PROVE  Len(prev) = Len(subs) - 1
    BY <1>1 DEF inserted_subscription_index
  <2> QED BY RemoveAtIs
<1>4. \A n \in Nat : 1 .. n \subseteq Nat
  OBVIOUS
<1>5. /\ removed_subscription_index(prev, subs) \subseteq 1 .. Len(prev)
      /\ inserted_subscription_index(prev, subs) \subseteq 1 .. Len(subs)
  BY <1>2, <1>3
<1>6. /\ removed_subscription_index(prev, subs) \subseteq Nat
      /\ inserted_subscription_index(prev, subs) \subseteq Nat
  BY <1>1, <1>4, <1>5
<1> QED BY <1>2, <1>3, <1>6

LEMMA UpdateLists ==
    ASSUME NEW f \in Files, NEW subs \in Seq(Subscription)
    PROVE  /\ Listing(f, update_subscriptions(f, subs), subs)
           /\ Spelled(f) => Preserves(f, update_subscriptions(f, subs), subs)
<1> DEFINE prev     == Configuration(f).subs
           removed  == removed_subscription_index(prev, subs)
           inserted == inserted_subscription_index(prev, subs)
           g        == update_subscriptions(f, subs)
<1>1. /\ prev \in Seq(Subscription) /\ Len(prev) = Len(f.items) /\ Len(f.items) \in Nat
      /\ DOMAIN prev = 1 .. Len(f.items)
  BY Loaded, LenProperties
<1>2. /\ Len(subs) \in Nat /\ DOMAIN subs = 1 .. Len(subs)
  BY LenProperties
<1>3. /\ \A i \in removed : /\ i \in 1 .. Len(prev) /\ RemoveAt(prev, i) = subs
                            /\ Len(subs) = Len(prev) - 1
      /\ \A i \in inserted : /\ i \in 1 .. Len(subs) /\ RemoveAt(subs, i) = prev
                             /\ Len(prev) = Len(subs) - 1
      /\ removed \in SUBSET Nat /\ inserted \in SUBSET Nat
  BY <1>1, Indices
<1>4. Spelled(f) => /\ Len(sequence_item_ranges(f)) = Len(prev)
                    /\ \A i \in 1 .. Len(f.items) : f.items[i].keys = Keys
  BY <1>1 DEF Spelled, sequence_item_ranges
<1>5. Len(prev) \in Nat /\ Len(subs) \in Nat
  BY <1>1, <1>2
<1>6. Len(prev) = Len(subs) \/ inserted # {} => removed = {}
  <2>1. \A m, n \in Nat : m = n - 1 => m # n /\ n # m - 1
    OBVIOUS
  <2> QED BY <1>3, <1>5, <2>1
<1>7. Len(prev) = Len(subs) => inserted = {}
  <2>1. \A m, n \in Nat : m = n - 1 => m # n
    OBVIOUS
  <2> QED BY <1>3, <1>5, <2>1
<1>8. /\ prev = subs => g = f
      /\ prev # subs =>
           /\ Len(sequence_item_ranges(f)) # Len(prev) => g = Rewritten(f, subs)
           /\ Len(sequence_item_ranges(f)) = Len(prev) =>
                /\ Len(prev) = Len(subs) =>
                     g = update_subscription_items_in_place(f, prev, subs)
                /\ Len(prev) # Len(subs) =>
                     /\ removed # {} => g = ItemRemoved(f, Min(removed))
                     /\ removed = {} /\ inserted # {} =>
                          g = ItemInserted(f, Min(inserted), subs[Min(inserted)])
                     /\ removed = {} /\ inserted = {} => g = Rewritten(f, subs)
  <2>1. CASE prev = subs
    BY <2>1 DEF update_subscriptions
  <2>2. CASE prev # subs /\ Len(sequence_item_ranges(f)) # Len(prev)
    BY <2>2 DEF update_subscriptions
  <2>3. CASE /\ prev # subs /\ Len(sequence_item_ranges(f)) = Len(prev)
             /\ Len(prev) = Len(subs)
    <3>1. removed = {} /\ inserted = {}
      BY <1>6, <1>7, <2>3
    <3> QED BY <2>3, <3>1 DEF update_subscriptions
  <2>4. CASE /\ prev # subs /\ Len(sequence_item_ranges(f)) = Len(prev)
             /\ Len(prev) # Len(subs) /\ removed # {}
    <3>1. inserted = {}
      BY <1>6, <1>7, <2>4
    <3> QED BY <2>4, <3>1 DEF update_subscriptions
  <2>5. CASE /\ prev # subs /\ Len(sequence_item_ranges(f)) = Len(prev)
             /\ Len(prev) # Len(subs) /\ removed = {}
    BY <2>5 DEF update_subscriptions
  <2> QED BY <2>1, <2>2, <2>3, <2>4, <2>5
<1> HIDE DEF removed, inserted, prev, g
<1>9. CASE prev = subs
  <2>1. g = f
    BY <1>9, <1>8
  <2>2. removed = {} /\ inserted = {}
    BY <1>1, <1>3, <1>9
  <2> QED BY <1>9, <2>1, <2>2 DEF Listing, Preserves, removed, inserted, prev, g
<1>10. CASE prev # subs /\ Len(sequence_item_ranges(f)) # Len(prev)
  <2>1. g = Rewritten(f, subs)
    BY <1>10, <1>8
  <2> QED BY <1>4, <1>10, <2>1, RewrittenLists DEF g, prev
<1>11. CASE prev # subs /\ Len(sequence_item_ranges(f)) = Len(prev) /\ Len(prev) = Len(subs)
  <2>1. g = update_subscription_items_in_place(f, prev, subs)
    BY <1>11, <1>8
  <2>2. removed = {} /\ inserted = {}
    BY <1>6, <1>7, <1>11
  <2>3. /\ Listing(f, g, subs)
        /\ Spelled(f) => \A i \in 1 .. Len(f.items) : g.items[i].note = f.items[i].note
    BY <1>1, <1>4, <1>11, <2>1, InPlaceLists DEF prev
  <2> QED BY <1>1, <2>2, <2>3 DEF Preserves, removed, inserted, prev, g
<1>12. CASE /\ prev # subs /\ Len(sequence_item_ranges(f)) = Len(prev)
           /\ Len(prev) # Len(subs) /\ removed # {}
  <2>1. g = ItemRemoved(f, Min(removed)) /\ Min(removed) \in removed
    BY <1>3, <1>12, <1>8, Least
  <2>2. Listing(f, g, subs) /\ g.items = RemoveAt(f.items, Min(removed))
    BY <1>1, <1>3, <2>1, RemovedLists DEF prev
  <2>3. inserted = {}
    BY <1>6, <1>7, <1>12
  <2> QED BY <1>1, <1>3, <1>12, <2>1, <2>2, <2>3 DEF Preserves, removed, inserted, prev, g
<1>13. CASE /\ prev # subs /\ Len(sequence_item_ranges(f)) = Len(prev)
           /\ Len(prev) # Len(subs) /\ removed = {} /\ inserted # {}
  <2>1. /\ g = ItemInserted(f, Min(inserted), subs[Min(inserted)])
        /\ Min(inserted) \in inserted
    BY <1>3, <1>13, <1>8, Least
  <2>2. Listing(f, g, subs) /\ RemoveAt(g.items, Min(inserted)) = f.items
    BY <1>3, <2>1, InsertedLists DEF prev
  <2> QED BY <1>2, <1>3, <1>13, <2>1, <2>2 DEF Preserves, removed, inserted, prev, g
<1>14. CASE /\ prev # subs /\ Len(sequence_item_ranges(f)) = Len(prev)
            /\ Len(prev) # Len(subs) /\ removed = {} /\ inserted = {}
  <2>1. g = Rewritten(f, subs)
    BY <1>14, <1>8
  <2> QED BY <1>14, <2>1, RewrittenLists DEF Preserves, removed, inserted, prev, g
<1> QED BY <1>9, <1>10, <1>11, <1>12, <1>13, <1>14 DEF g

(* A file of which only the scalars were edited.                             *)
Scalars(f, g, new) ==
    /\ g \in Files /\ g.items = f.items /\ g.list = f.list /\ g.yaml = f.yaml
    /\ \E token \in {new.token, token_read(new.token)} :
         g.set = [new EXCEPT !.days = f.set.days, !.token = token]
    /\ g.odd => f.odd \/ Unquoted(new)

LEMMA ScalarsWritten ==
    ASSUME NEW f \in Files, NEW new \in Settings
    PROVE  Scalars(f, update_proxy_section(update_sharing_section(
                        update_top_level_scalars(f, new), new), new), new)
<1> DEFINE top == update_top_level_scalars(f, new)
           sharing == update_sharing_section(top, new)
           proxy == update_proxy_section(sharing, new)
<1>0. \A section \in SectionLayouts, written \in BOOLEAN :
        set_nested_scalar(section, written) \in SectionLayouts
  BY DEF SectionLayouts, set_nested_scalar
<1>1. f.set \in FileSettings
  BY DEF Files
<1>2. /\ top \in Files /\ top.items = f.items /\ top.list = f.list /\ top.yaml = f.yaml
      /\ top.set = [f.set EXCEPT !.bind = new.bind]
      /\ top.odd => f.odd \/ new.bind.v6
  <2>1. [f.set EXCEPT !.bind = new.bind] \in FileSettings
    BY <1>1 DEF FileSettings, Settings, SettingsWith
  <2>2. (f.odd \/ (f.set.bind # new.bind /\ new.bind.v6)) \in BOOLEAN
    OBVIOUS
  <2> QED BY <2>1, <2>2 DEF Files, update_top_level_scalars
<1> HIDE DEF top
<1>3. \E token \in {new.token, token_read(new.token)} :
        /\ sharing \in Files /\ sharing.items = f.items /\ sharing.list = f.list
        /\ sharing.yaml = f.yaml
        /\ sharing.set = [top.set EXCEPT !.sharing = new.sharing,
                              !.require_token = new.require_token, !.token = token]
        /\ sharing.odd => top.odd \/ new.token = "number"
  <2> DEFINE differs == top.set.token = "true" \/ top.set.token # new.token
             written == differs \/ top.set.sharing # new.sharing
                          \/ top.set.require_token # new.require_token
             token == IF differs THEN token_read(new.token) ELSE top.set.token
             set == [top.set EXCEPT !.sharing = new.sharing,
                                    !.require_token = new.require_token, !.token = token]
             odd == top.odd \/ (differs /\ new.token = "number")
             layout2 == set_nested_scalar(top.sharing, written)
  <2>1. token \in {new.token, token_read(new.token)}
    OBVIOUS
  <2>2. token_read(new.token) \in Tokens /\ new.token \in Tokens
    BY DEF Settings, SettingsWith, Tokens, token_read
  <2>3. top.set \in FileSettings /\ top.sharing \in SectionLayouts
    BY <1>2 DEF Files
  <2>4. token \in Tokens
    BY <2>1, <2>2
  <2>5. sharing = [top EXCEPT !.set = set, !.odd = odd, !.sharing = layout2]
    BY DEF update_sharing_section
  <2>6. layout2 \in SectionLayouts
    BY <1>0, <2>3
  <2>7. odd \in BOOLEAN /\ (odd => top.odd \/ new.token = "number")
    OBVIOUS
  <2> HIDE DEF token, odd, layout2
  <2>8. set \in FileSettings
    BY <2>3, <2>4 DEF FileSettings, Settings, SettingsWith
  <2>9. set = [top.set EXCEPT !.sharing = new.sharing,
                              !.require_token = new.require_token, !.token = token]
    OBVIOUS
  <2> HIDE DEF set, sharing
  <2>10. /\ sharing \in Files /\ sharing.items = f.items /\ sharing.list = f.list
         /\ sharing.yaml = f.yaml /\ sharing.set = set /\ sharing.odd = odd
    BY <1>2, <2>5, <2>6, <2>7, <2>8 DEF Files
  <2> QED BY <2>1, <2>7, <2>9, <2>10
<1> HIDE DEF sharing
<1>4. /\ proxy \in Files /\ proxy.items = f.items /\ proxy.list = f.list
      /\ proxy.yaml = f.yaml
      /\ proxy.set = [sharing.set EXCEPT !.proxy = new.proxy, !.port = new.port,
                           !.discoverable = new.discoverable, !.health = new.health]
      /\ proxy.odd => sharing.odd \/ new.health = "odd"
  <2> DEFINE differs == sharing.set.health # new.health
             written == differs \/ <<sharing.set.proxy, sharing.set.port, sharing.set.discoverable>>
                                     # <<new.proxy, new.port, new.discoverable>>
             set == [sharing.set EXCEPT !.proxy = new.proxy, !.port = new.port,
                           !.discoverable = new.discoverable, !.health = new.health]
             odd == sharing.odd \/ (differs /\ new.health = "odd")
             layout2 == set_nested_scalar(sharing.proxy, written)
  <2>1. sharing.set \in FileSettings /\ sharing.proxy \in SectionLayouts
    BY <1>3 DEF Files
  <2>2. set \in FileSettings
    BY <2>1 DEF FileSettings, Settings, SettingsWith
  <2>3. layout2 \in SectionLayouts
    BY <1>0, <2>1
  <2>4. odd \in BOOLEAN /\ (odd => sharing.odd \/ new.health = "odd")
    OBVIOUS
  <2>5. proxy = [sharing EXCEPT !.set = set, !.odd = odd, !.proxy = layout2]
    BY DEF update_proxy_section
  <2>6. set = [sharing.set EXCEPT !.proxy = new.proxy, !.port = new.port,
                           !.discoverable = new.discoverable, !.health = new.health]
    OBVIOUS
  <2> HIDE DEF set, odd, layout2, proxy
  <2>7. /\ proxy \in Files /\ proxy.items = f.items /\ proxy.list = f.list
        /\ proxy.yaml = f.yaml /\ proxy.set = set /\ proxy.odd = odd
    BY <1>3, <2>2, <2>3, <2>4, <2>5 DEF Files
  <2> QED BY <2>4, <2>6, <2>7
<1> HIDE DEF proxy
<1>5. PICK token \in {new.token, token_read(new.token)} :
        sharing.set = [top.set EXCEPT !.sharing = new.sharing,
                              !.require_token = new.require_token, !.token = token]
  BY <1>3
<1>6. proxy.set = [new EXCEPT !.days = f.set.days, !.token = token]
  <2> DEFINE a == f.set
             b == top.set
             d == sharing.set
             e == proxy.set
             n == [new EXCEPT !.days = f.set.days, !.token = token]
  <2>1. a \in FileSettings /\ new \in Settings
    BY <1>1
  <2>2. b = [a EXCEPT !.bind = new.bind]
    BY <1>2
  <2>3. d = [b EXCEPT !.sharing = new.sharing, !.require_token = new.require_token,
                      !.token = token]
    BY <1>5
  <2>4. e = [d EXCEPT !.proxy = new.proxy, !.port = new.port,
                      !.discoverable = new.discoverable, !.health = new.health]
    BY <1>4
  <2>5. n = [new EXCEPT !.days = a.days, !.token = token]
    OBVIOUS
  <2> HIDE DEF a, b, d, e, n
  <2> DEFINE fields == {"bind", "sharing", "require_token", "token", "proxy", "port",
                        "discoverable", "health", "days"}
  <2>6. /\ b = [x \in fields |-> IF x = "bind" THEN new.bind ELSE a[x]]
        /\ n = [x \in fields |-> CASE x = "days" -> a.days [] x = "token" -> token
                                      [] OTHER -> new[x]]
    BY <2>1, <2>2, <2>5 DEF Settings, FileSettings, SettingsWith
  <2>7. d = [x \in fields |-> CASE x = "bind" -> new.bind [] x = "token" -> token
                                 [] x \in {"sharing", "require_token"} -> new[x]
                                 [] OTHER -> a[x]]
    BY <2>3, <2>6
  <2>8. e = [x \in fields |-> CASE x = "days" -> a.days [] x = "token" -> token
                                 [] OTHER -> new[x]]
    BY <2>4, <2>7
  <2> QED BY <2>6, <2>8 DEF e, n
<1>7. proxy.odd => f.odd \/ Unquoted(new)
  BY <1>2, <1>3, <1>4 DEF Unquoted
<1> QED BY <1>4, <1>6, <1>7 DEF Scalars, proxy, sharing, top

(* What a save makes of a file that loads: the property, of any file and any *)
(* configuration.                                                            *)
Agreed(f, c) ==
    /\ Configuration(f).subs = c.subs
    /\ \E token \in {c.set.token, token_read(c.set.token)} :
         f.set = [c.set EXCEPT !.days = f.set.days, !.token = token]
    /\ \/ Loads(f) /\ f.set.token = c.set.token
       \/ ~validate(c)
       \/ Unquoted(c.set)
       \/ "mixed" \in {f.list, f.sharing, f.proxy}

LEMMA Agrees ==
    ASSUME NEW f \in Files, NEW c \in [subs: Seq(Subscription), set: Settings],
           f.yaml, f.odd => Unquoted(c.set), Configuration(f).subs = c.subs,
           \E token \in {c.set.token, token_read(c.set.token)} :
             f.set = [c.set EXCEPT !.days = f.set.days, !.token = token]
    PROVE  Agreed(f, c)
<1> SUFFICES ASSUME validate(c), ~Unquoted(c.set), "mixed" \notin {f.list, f.sharing, f.proxy}
             PROVE  Loads(f) /\ f.set.token = c.set.token
  BY DEF Agreed
<1>1. c.set \in Settings /\ c.set.token \in Tokens /\ c.set.token # "tilde"
  BY DEF Settings, SettingsWith, Unquoted
<1>2. PICK token \in {c.set.token, token_read(c.set.token)} :
        f.set = [c.set EXCEPT !.days = f.set.days, !.token = token]
  OBVIOUS
<1>7. token = c.set.token /\ token # "true"
  BY <1>1, <1>2 DEF token_read, Tokens
<1>3. /\ f.set.token = c.set.token /\ f.set.require_token = c.set.require_token
      /\ f.set.proxy = c.set.proxy /\ f.set.port = c.set.port /\ f.set.bind = c.set.bind
  BY <1>1, <1>2, <1>7 DEF Settings, SettingsWith
<1>4. Configuration(f).set = f.set
  BY <1>3, <1>7, Loaded DEF Files, FileSettings, SettingsWith
<1>5. validate(Configuration(f))
  BY <1>3, <1>4 DEF validate
<1>6. Parses(f)
  BY DEF Parses
<1> QED BY <1>3, <1>5, <1>6 DEF Loads

(* A save: the settings but one, and the list.                               *)
LEMMA SaveIs ==
    ASSUME NEW f \in Files, Loads(f), NEW c \in [subs: Seq(Subscription), set: Settings]
    PROVE  /\ save_yaml_config(f, c) \in Files
           /\ Agreed(save_yaml_config(f, c), c)
           /\ Spelled(f) => Preserves(f, save_yaml_config(f, c), c.subs)
<1> DEFINE e == update_proxy_section(update_sharing_section(
                  update_top_level_scalars(f, c.set), c.set), c.set)
           g == update_subscriptions(e, c.subs)
           h == save_yaml_config(f, c)
<1>1. Scalars(f, e, c.set)
  BY ScalarsWritten
<1>2. h = [g EXCEPT !.by = "tui"]
  BY DEF save_yaml_config
<1> HIDE DEF e, h
<1>3. e \in Files /\ e.items = f.items /\ e.list = f.list
  BY <1>1 DEF Scalars
<1>4. /\ g \in Files /\ Configuration(g).subs = c.subs /\ g.set = e.set
      /\ g.yaml = e.yaml /\ g.odd = e.odd
      /\ Spelled(e) => Preserves(e, g, c.subs)
  BY <1>3, UpdateLists DEF Listing
<1> HIDE DEF g
<1>5. /\ h \in Files /\ h.items = g.items /\ h.set = e.set /\ h.yaml = e.yaml
      /\ h.odd = e.odd
  BY <1>2, <1>4 DEF Files
<1>6. Configuration(h).subs = c.subs
  BY <1>4, <1>5 DEF Configuration
<1>7. f.yaml /\ ~f.odd
  BY DEF Loads, Parses
<1>8. Agreed(h, c)
  <2>1. PICK token \in {c.set.token, token_read(c.set.token)} :
          e.set = [c.set EXCEPT !.days = f.set.days, !.token = token]
    BY <1>1 DEF Scalars
  <2>2. e.set.days = f.set.days
    BY <2>1 DEF Settings, SettingsWith
  <2>3. h.set = [c.set EXCEPT !.days = h.set.days, !.token = token]
    BY <1>5, <2>1, <2>2
  <2>4. h.yaml /\ (h.odd => Unquoted(c.set))
    BY <1>1, <1>5, <1>7 DEF Scalars
  <2>5. \E t \in {c.set.token, token_read(c.set.token)} :
          h.set = [c.set EXCEPT !.days = h.set.days, !.token = t]
    BY <2>3
  <2>6. h \in Files /\ Configuration(h).subs = c.subs
    BY <1>5, <1>6
  <2> HIDE DEF h
  <2> QED BY <2>4, <2>5, <2>6, Agrees
<1>9. Configuration(e).subs = Configuration(f).subs
  BY <1>3 DEF Configuration
<1>10. Spelled(f) => Preserves(f, h, c.subs)
  BY <1>3, <1>4, <1>5, <1>9 DEF Spelled, Preserves
<1> QED BY <1>5, <1>8, <1>10 DEF h

(* A token that a load made up is written at once.                           *)
LEMMA PersistedIs ==
    ASSUME NEW f \in Files, Loads(f)
    PROVE  /\ persisted(f) \in Files /\ persisted(f).by = f.by
           /\ Len(persisted(f).items) = Len(f.items)
           /\ Agreed(persisted(f), Configuration(f))
           /\ f.set.token # "true" => persisted(f) = f
           /\ persisted(f) # f /\ Spelled(f) =>
                Preserves(f, persisted(f), Configuration(persisted(f)).subs)
<1> DEFINE c == Configuration(f)
<1>1. /\ c \in [subs: Seq(Subscription), set: Settings] /\ Len(c.subs) = Len(f.items)
      /\ c.set = [f.set EXCEPT !.token = IF @ = "true" THEN "word" ELSE @]
  BY Loaded
<1> HIDE DEF c
<1>2. CASE f.set.token # "true"
  <2>1. persisted(f) = f
    BY <1>2 DEF persisted
  <2>2. f.set \in FileSettings
    BY DEF Files
  <2>3. c.set = f.set
    BY <1>1, <1>2, <2>2 DEF FileSettings, SettingsWith
  <2>4. f.set = [c.set EXCEPT !.days = f.set.days, !.token = c.set.token]
    BY <2>2, <2>3 DEF FileSettings, SettingsWith
  <2> QED BY <1>2, <2>1, <2>3, <2>4 DEF Agreed, c
<1>3. CASE f.set.token = "true"
  <2> DEFINE g == save_yaml_config(f, c)
  <2>1. /\ g \in Files /\ Agreed(g, c)
        /\ Spelled(f) => Preserves(f, g, c.subs)
    BY <1>1, SaveIs
  <2>2. persisted(f) = [g EXCEPT !.by = f.by]
    BY <1>3 DEF persisted, c
  <2> HIDE DEF g
  <2> DEFINE h == persisted(f)
  <2> HIDE DEF h
  <2>3. /\ h \in Files /\ h.by = f.by /\ h.items = g.items /\ h.set = g.set
        /\ h.yaml = g.yaml /\ h.odd = g.odd /\ h.list = g.list
        /\ h.sharing = g.sharing /\ h.proxy = g.proxy
    BY <2>1, <2>2 DEF Files, h
  <2>4. Configuration(h) = Configuration(g)
    BY <2>3 DEF Configuration
  <2>5. Agreed(h, c)
    BY <2>1, <2>3, <2>4 DEF Agreed, Loads, Parses
  <2>6. Configuration(h).subs = c.subs
    BY <2>5 DEF Agreed
  <2>7. Len(h.items) = Len(f.items)
    BY <1>1, <2>3, <2>6, Loaded
  <2>8. Spelled(f) => Preserves(f, h, Configuration(h).subs)
    BY <2>1, <2>3, <2>6 DEF Preserves
  <2> QED BY <1>3, <2>3, <2>5, <2>7, <2>8 DEF h, c
<1> QED BY <1>2, <1>3

-------------------------------------------------------------------------------
(* Types, and what a screen with nothing unsaved shows.                      *)

Screen == /\ editable \in [subs: Seq(Subscription), set: Settings] /\ Len(Subs) <= MaxSubs
          /\ file \in Files /\ Len(file.items) <= MaxSubs

UiTyped ==
    /\ ui = [running |-> ui.running, view |-> ui.view, mode |-> ui.mode, selected |-> ui.selected,
             draft |-> ui.draft, dirty |-> ui.dirty]
    /\ ui.running \in BOOLEAN /\ ui.dirty \in BOOLEAN
    /\ ui.view \in Views /\ ui.mode \in Modes /\ ui.selected \in 0 .. MaxSubs
    /\ DraftOK

SavedInv == TypeOK /\ CleanMeansSaved

LEMMA TypeParts ==
    TypeOK <=> FootprintTypeOK /\ Screen /\ UiTyped /\ events \in 0 .. MaxEvents
BY DEF TypeOK, Screen, UiTyped

(* Steps of the interface that change neither the list nor the file.         *)
ShownWell(next) ==
    /\ next = [running |-> ui.running, view |-> next.view, mode |-> next.mode,
               selected |-> next.selected, draft |-> next.draft, dirty |-> ui.dirty]
    /\ next.view \in Views /\ next.mode \in Modes /\ next.selected \in 0 .. MaxSubs
    /\ next.draft = [name |-> next.draft.name, url |-> next.draft.url,
                     priority |-> next.draft.priority]
    /\ next.mode \in Steps => Len(Subs) < MaxSubs
    /\ next.mode \in Steps \ {"new_url"} => next.draft.url \in Urls
    /\ next.mode \in {"new_priority", "new_enabled"} => next.draft.name \in Names
    /\ next.mode = "new_enabled" => next.draft.priority \in Priorities

(* The run goes on, and its files with it.                                   *)
Lasting == ui'.running = ui.running /\ UNCHANGED <<disk, killed>>

LEMMA ShownKeeps ==
    ASSUME SavedInv, NEW next, Shown(next), ShownWell(next)
    PROVE  SavedInv' /\ Lasting
<1>1. /\ ui' = next /\ file' = file /\ editable' = editable /\ events' = events
      /\ UNCHANGED footprint
  BY DEF Shown, Quiet
<1>2. FootprintTypeOK'
  BY <1>1, TypeParts DEF SavedInv, footprint, FootprintTypeOK
<1>3. Screen' /\ (events \in 0 .. MaxEvents)'
  BY <1>1, TypeParts DEF SavedInv, Screen, Subs
<1>4. UiTyped'
  BY <1>1, TypeParts DEF SavedInv, ShownWell, UiTyped, DraftOK, Subs
<1>5. CleanMeansSaved'
  <2>1. ui'.running = ui.running /\ ui'.dirty = ui.dirty
    BY <1>1 DEF ShownWell
  <2>2. Configuration(file)' = Configuration(file) /\ Subs' = Subs
    BY <1>1 DEF Configuration, Subs
  <2>3. file' = file /\ editable' = editable /\ CleanMeansSaved
    BY <1>1 DEF SavedInv
  <2> QED BY <2>1, <2>2, <2>3 DEF CleanMeansSaved
<1>6. Lasting
  BY <1>1 DEF Lasting, ShownWell, footprint
<1> QED BY <1>2, <1>3, <1>4, <1>5, <1>6 DEF SavedInv, TypeOK, Screen, UiTyped

LEMMA Between ==
    ASSUME NEW a \in Int, NEW b \in Int
    PROVE  Max({a, b}) \in {a, b} /\ Max({a, b}) >= a /\ Max({a, b}) >= b
           /\ Min({a, b}) \in {a, b} /\ Min({a, b}) <= a /\ Min({a, b}) <= b
<1>1. \E x \in {a, b} : \A y \in {a, b} : x >= y
  OBVIOUS
<1>2. \E x \in {a, b} : \A y \in {a, b} : x =< y
  OBVIOUS
<1> QED BY <1>1, <1>2 DEF Max, Min

(* Everything that is shown and changes nothing.                             *)
Showing ==
    \/ handle_mouse \/ move_selection \/ go_back \/ cancel_input
    \/ activate_main \/ edit_selected_subscription \/ open_panel_row \/ start_command
    \/ start_new_subscription \/ start_edit \/ other_command
    \/ commit_new_url \/ commit_new_name \/ commit_new_priority

LEMMA UiForm ==
    ASSUME UiTyped
    PROVE  /\ ui = [running |-> ui.running, view |-> ui.view, mode |-> ui.mode,
                    selected |-> ui.selected, draft |-> ui.draft, dirty |-> ui.dirty]
           /\ ui.draft = [name |-> ui.draft.name, url |-> ui.draft.url,
                          priority |-> ui.draft.priority]
BY DEF UiTyped, DraftOK

(* A screen with its fields changed keeps its form.                          *)
Formed(u) == u = [running |-> u.running, view |-> u.view, mode |-> u.mode,
                  selected |-> u.selected, draft |-> u.draft, dirty |-> u.dirty]

LEMMA ShowingKeeps ==
    ASSUME SavedInv, Showing
    PROVE  SavedInv' /\ Lasting
<1>0. UiTyped /\ Len(Subs) \in Nat /\ Len(Subs) <= MaxSubs /\ MaxSubs \in Nat
  BY TypeParts, LenProperties, TuiAssumption DEF SavedInv, Screen, Subs
<1>11. /\ Formed(ui)
       /\ ui.draft = [name |-> ui.draft.name, url |-> ui.draft.url,
                      priority |-> ui.draft.priority]
  BY <1>0, UiForm DEF Formed
<1>1. CASE handle_mouse
  <2>1. PICK row \in 0 .. MaxSubs : Shown([ui EXCEPT !.selected = row])
    BY <1>1 DEF handle_mouse
  <2>2. ShownWell([ui EXCEPT !.selected = row])
    BY <1>0, <2>1 DEF UiTyped, DraftOK, ShownWell
  <2> QED BY <2>1, <2>2, ShownKeeps
<1>2. CASE move_selection
  <2>1. PICK row \in {Max({ui.selected - 1, 0}), Min({ui.selected + 1, Len(Subs)})} :
          Shown([ui EXCEPT !.selected = row])
    BY <1>2 DEF move_selection
  <2>2. ui.selected \in 0 .. MaxSubs
    BY <1>0 DEF UiTyped
  <2>3. /\ Max({ui.selected - 1, 0}) \in {ui.selected - 1, 0}
        /\ Max({ui.selected - 1, 0}) >= 0
        /\ Min({ui.selected + 1, Len(Subs)}) \in {ui.selected + 1, Len(Subs)}
        /\ Min({ui.selected + 1, Len(Subs)}) <= Len(Subs)
    <3>1. ui.selected - 1 \in Int /\ ui.selected + 1 \in Int /\ 0 \in Int /\ Len(Subs) \in Int
      BY <1>0, <2>2
    <3> QED BY <3>1, Between
  <2>4. row \in 0 .. MaxSubs
    BY <1>0, <2>1, <2>2, <2>3
  <2>5. ShownWell([ui EXCEPT !.selected = row])
    BY <1>0, <2>4 DEF UiTyped, DraftOK, ShownWell
  <2> QED BY <2>1, <2>5, ShownKeeps
<1>3. CASE go_back
  <2> DEFINE next == IF ui.view = "new"
                     THEN [ui EXCEPT !.view = "subscriptions", !.mode = "none", !.draft = NoDraft]
                     ELSE [ui EXCEPT !.view = IF @ = "actions" THEN "subscriptions" ELSE "main"]
  <2>1. Shown(next)
    BY <1>3 DEF go_back
  <2>2. CASE ui.view = "new"
    <3>1. next = [ui EXCEPT !.view = "subscriptions", !.mode = "none", !.draft = NoDraft]
      BY <2>2
    <3>2. ShownWell(next)
      BY <1>0, <3>1 DEF UiTyped, ShownWell, Views, Modes, Steps, NoDraft
    <3> QED BY <2>1, <3>2, ShownKeeps
  <2>3. CASE ui.view # "new"
    <3>1. next = [ui EXCEPT !.view = IF @ = "actions" THEN "subscriptions" ELSE "main"]
      BY <2>3
    <3>2. ShownWell(next)
      BY <1>0, <3>1 DEF UiTyped, DraftOK, ShownWell, Views
    <3> QED BY <2>1, <3>2, ShownKeeps
  <2> QED BY <2>2, <2>3
<1>4. CASE cancel_input
  <2>1. \/ Shown([ui EXCEPT !.mode = "none", !.view = "subscriptions", !.draft = NoDraft])
        \/ Shown([ui EXCEPT !.mode = "none"])
    BY <1>4 DEF cancel_input
  <2>2. ShownWell([ui EXCEPT !.mode = "none", !.view = "subscriptions", !.draft = NoDraft])
    <3> SUFFICES ASSUME NEW next, next = [ui EXCEPT !.mode = "none", !.view = "subscriptions",
                                                    !.draft = NoDraft]
                 PROVE  ShownWell(next)
      OBVIOUS
    <3>1. /\ Formed(next) /\ next.view = "subscriptions" /\ next.mode = "none"
          /\ next.draft = NoDraft /\ next.selected = ui.selected
          /\ next.running = ui.running /\ next.dirty = ui.dirty
      BY <1>11 DEF Formed
    <3> QED BY <1>0, <3>1 DEF UiTyped, Formed, ShownWell, Views, Modes, Steps, NoDraft
  <2>3. ShownWell([ui EXCEPT !.mode = "none"])
    BY <1>0 DEF UiTyped, DraftOK, ShownWell, Modes, Steps
  <2> QED BY <2>1, <2>2, <2>3, ShownKeeps
<1>5. CASE activate_main \/ edit_selected_subscription
  <2>1. \/ \E view \in {"subscriptions", "panel", "actions"} : Shown([ui EXCEPT !.view = view])
        \/ Shown([ui EXCEPT !.mode = "clean"])
    BY <1>5 DEF activate_main, edit_selected_subscription
  <2>2. \A view \in {"subscriptions", "panel", "actions"} : ShownWell([ui EXCEPT !.view = view])
    BY <1>0 DEF UiTyped, DraftOK, ShownWell, Views
  <2>3. ShownWell([ui EXCEPT !.mode = "clean"])
    BY <1>0 DEF UiTyped, DraftOK, ShownWell, Modes, Steps
  <2> QED BY <2>1, <2>2, <2>3, ShownKeeps
<1>6. CASE open_panel_row \/ start_command \/ start_edit \/ other_command
  <2>1. PICK mode \in {"panel", "reset", "command", "name", "url", "priority", "none"} :
          Shown([ui EXCEPT !.mode = mode])
    BY <1>6 DEF open_panel_row, start_command, start_edit, other_command, Done
  <2>2. ShownWell([ui EXCEPT !.mode = mode])
    BY <1>0, <2>1 DEF UiTyped, DraftOK, ShownWell, Modes, Steps
  <2> QED BY <2>1, <2>2, ShownKeeps
<1>7. CASE start_new_subscription
  <2>1. PICK priority :
          /\ Len(Subs) < MaxSubs
          /\ Shown([ui EXCEPT !.view = "new", !.mode = "new_url",
                              !.draft = [NoDraft EXCEPT !.priority = priority]])
    BY <1>7 DEF start_new_subscription
  <2>2. [NoDraft EXCEPT !.priority = priority] = [name |-> Blank, url |-> Blank, priority |-> priority]
    BY DEF NoDraft
  <2>3. PICK next : /\ next = [ui EXCEPT !.view = "new", !.mode = "new_url",
                                          !.draft = [NoDraft EXCEPT !.priority = priority]]
                    /\ Shown(next)
    BY <2>1
  <2>4. /\ Formed(next) /\ next.view = "new" /\ next.mode = "new_url"
        /\ next.draft = [name |-> Blank, url |-> Blank, priority |-> priority]
        /\ next.selected = ui.selected
        /\ next.running = ui.running /\ next.dirty = ui.dirty
    BY <1>11, <2>2, <2>3 DEF Formed
  <2>5. ShownWell(next)
    BY <1>0, <2>1, <2>4 DEF UiTyped, Formed, ShownWell, Views, Modes, Steps
  <2> QED BY <2>3, <2>5, ShownKeeps
<1>8. CASE commit_new_url
  <2>0. PICK v \in Urls : Shown([ui EXCEPT !.mode = "new_name", !.draft.url = v]) /\ ui.mode = "new_url"
    BY <1>8 DEF commit_new_url
  <2>1. PICK next : /\ next = [ui EXCEPT !.mode = "new_name", !.draft.url = v]
                    /\ Shown(next) /\ ui.mode = "new_url"
    BY <2>0
  <2>2. next.draft = [name |-> ui.draft.name, url |-> v, priority |-> ui.draft.priority]
    <3>1. next.draft = [ui.draft EXCEPT !.url = v]
      BY <1>11, <2>1 DEF Formed
    <3> QED BY <1>11, <3>1
  <2>3. /\ Formed(next) /\ next.mode = "new_name" /\ next.view = ui.view
        /\ next.selected = ui.selected
        /\ next.running = ui.running /\ next.dirty = ui.dirty
    BY <1>11, <2>1 DEF Formed
  <2>4. ShownWell(next)
    BY <1>0, <2>1, <2>2, <2>3 DEF UiTyped, DraftOK, Formed, ShownWell, Modes, Steps
  <2> QED BY <2>1, <2>4, ShownKeeps
<1>9. CASE commit_new_name
  <2>0. PICK v \in Names : Shown([ui EXCEPT !.mode = "new_priority", !.draft.name = v]) /\ ui.mode = "new_name"
    BY <1>9 DEF commit_new_name
  <2>1. PICK next : /\ next = [ui EXCEPT !.mode = "new_priority", !.draft.name = v]
                    /\ Shown(next) /\ ui.mode = "new_name"
    BY <2>0
  <2>2. next.draft = [name |-> v, url |-> ui.draft.url, priority |-> ui.draft.priority]
    <3>1. next.draft = [ui.draft EXCEPT !.name = v]
      BY <1>11, <2>1 DEF Formed
    <3> QED BY <1>11, <3>1
  <2>3. /\ Formed(next) /\ next.mode = "new_priority" /\ next.view = ui.view
        /\ next.selected = ui.selected
        /\ next.running = ui.running /\ next.dirty = ui.dirty
    BY <1>11, <2>1 DEF Formed
  <2>4. ShownWell(next)
    BY <1>0, <2>1, <2>2, <2>3 DEF UiTyped, DraftOK, Formed, ShownWell, Modes, Steps
  <2> QED BY <2>1, <2>4, ShownKeeps
<1>10. CASE commit_new_priority
  <2>0. PICK v \in Priorities : Shown([ui EXCEPT !.mode = "new_enabled", !.draft.priority = v]) /\ ui.mode = "new_priority"
    BY <1>10 DEF commit_new_priority
  <2>1. PICK next : /\ next = [ui EXCEPT !.mode = "new_enabled", !.draft.priority = v]
                    /\ Shown(next) /\ ui.mode = "new_priority"
    BY <2>0
  <2>2. next.draft = [name |-> ui.draft.name, url |-> ui.draft.url, priority |-> v]
    <3>1. next.draft = [ui.draft EXCEPT !.priority = v]
      BY <1>11, <2>1 DEF Formed
    <3> QED BY <1>11, <3>1
  <2>3. /\ Formed(next) /\ next.mode = "new_enabled" /\ next.view = ui.view
        /\ next.selected = ui.selected
        /\ next.running = ui.running /\ next.dirty = ui.dirty
    BY <1>11, <2>1 DEF Formed
  <2>4. ShownWell(next)
    BY <1>0, <2>1, <2>2, <2>3 DEF UiTyped, DraftOK, Formed, ShownWell, Modes, Steps
  <2> QED BY <2>1, <2>4, ShownKeeps
<1> QED BY <1>1, <1>2, <1>3, <1>4, <1>5, <1>6, <1>7, <1>8, <1>9, <1>10 DEF Showing

(* An edit marks the configuration unsaved.                                  *)
LEMMA MarkedKeeps ==
    ASSUME SavedInv, Counted, file' = file, UNCHANGED footprint,
           (editable \in [subs: Seq(Subscription), set: Settings])', (Len(Subs) <= MaxSubs)',
           Formed(ui'), ui'.running \in BOOLEAN, ui'.running = ui.running, ui'.dirty = TRUE,
           ui'.view \in Views, ui'.mode = "none", ui'.selected \in 0 .. MaxSubs,
           ui'.draft = [name |-> ui'.draft.name, url |-> ui'.draft.url,
                        priority |-> ui'.draft.priority]
    PROVE  SavedInv' /\ Lasting
<1>1. FootprintTypeOK'
  BY TypeParts DEF SavedInv, footprint, FootprintTypeOK
<1>2. Screen'
  BY TypeParts DEF SavedInv, Screen
<1>3. (events \in 0 .. MaxEvents)'
  BY TypeParts, TuiAssumption DEF SavedInv, Counted
<1>4. UiTyped'
  BY DEF UiTyped, DraftOK, Formed, Modes, Steps
<1>5. CleanMeansSaved'
  BY DEF CleanMeansSaved
<1>6. Lasting
  BY DEF Lasting, footprint
<1> QED BY <1>1, <1>2, <1>3, <1>4, <1>5, <1>6 DEF SavedInv, TypeOK, Screen, UiTyped

(* The list with one subscription replaced.                                  *)
LEMMA Replaced ==
    ASSUME NEW subs \in Seq(Subscription), NEW i \in 1 .. Len(subs), NEW sub \in Subscription
    PROVE  [subs EXCEPT ![i] = sub] \in Seq(Subscription) /\ Len([subs EXCEPT ![i] = sub]) = Len(subs)
BY ExceptSeq

LEMMA EditedIs ==
    ASSUME SavedInv, NEW subs, Edited(subs)
    PROVE  /\ Subs' = subs
           /\ subs \in Seq(Subscription) =>
                (editable \in [subs: Seq(Subscription), set: Settings])'
BY TypeParts DEF SavedInv, Screen, Edited, Subs

LEMMA ListTyped ==
    ASSUME SavedInv
    PROVE  /\ Subs \in Seq(Subscription) /\ Len(Subs) \in Nat /\ Len(Subs) <= MaxSubs
           /\ DOMAIN Subs = 1 .. Len(Subs)
           /\ \A i \in 1 .. Len(Subs) : Subs[i] \in Subscription
           /\ editable.set \in Settings
           /\ UiTyped /\ MaxSubs \in Nat
<1>1. Subs \in Seq(Subscription) /\ Len(Subs) <= MaxSubs /\ editable.set \in Settings
  BY TypeParts DEF SavedInv, Screen, Subs
<1> QED BY <1>1, TypeParts, LenProperties, ElementOfSeq, TuiAssumption DEF SavedInv

Editing ==
    \/ toggle_subscription \/ delete_subscription
    \/ commit_name \/ commit_url \/ commit_priority \/ commit_new_enabled
    \/ commit_config \/ commit_reset

LEMMA CommitFieldKeeps ==
    ASSUME SavedInv, NEW key \in {"name", "url", "priority"}, NEW values,
           values \ {Blank} \subseteq IF key = "name" THEN Names
                                      ELSE IF key = "url" THEN Urls ELSE Priorities,
           commit_field(key, values)
    PROVE  SavedInv' /\ Lasting
<1>0. UiTyped
  BY ListTyped
<1>1. PICK v \in values \ {Blank}, i \in selected_subscription :
        /\ Edited([Subs EXCEPT ![i][key] = v])
        /\ ui' = [finish_edit(ui) EXCEPT !.dirty = TRUE]
  BY DEF commit_field
<1>2. i \in 1 .. Len(Subs) /\ Subs[i] \in Subscription
  BY ListTyped DEF selected_subscription
<1>3. [Subs[i] EXCEPT ![key] = v] \in Subscription
  <2>1. CASE key = "name"
    BY <1>1, <1>2, <2>1 DEF Subscription
  <2>2. CASE key = "url"
    BY <1>1, <1>2, <2>2 DEF Subscription
  <2>3. CASE key = "priority"
    BY <1>1, <1>2, <2>3 DEF Subscription
  <2> QED BY <2>1, <2>2, <2>3
<1>4. [Subs EXCEPT ![i][key] = v] = [Subs EXCEPT ![i] = [Subs[i] EXCEPT ![key] = v]]
  OBVIOUS
<1>5. /\ [Subs EXCEPT ![i][key] = v] \in Seq(Subscription)
      /\ Len([Subs EXCEPT ![i][key] = v]) = Len(Subs)
  BY <1>2, <1>3, <1>4, Replaced, ListTyped
<1>6. /\ Formed(ui') /\ ui'.running = ui.running /\ ui'.dirty = TRUE /\ ui'.view = ui.view
      /\ ui'.mode = "none" /\ ui'.selected = ui.selected /\ ui'.draft = ui.draft
  BY <1>0, <1>1 DEF UiTyped, Formed, finish_edit
<1>7. /\ ui'.running \in BOOLEAN /\ ui'.view \in Views /\ ui'.selected \in 0 .. MaxSubs
      /\ ui'.draft = [name |-> ui'.draft.name, url |-> ui'.draft.url,
                      priority |-> ui'.draft.priority]
  BY <1>0, <1>6 DEF UiTyped, DraftOK
<1>8. Counted /\ file' = file /\ UNCHANGED footprint
  BY DEF commit_field
<1>9. (editable \in [subs: Seq(Subscription), set: Settings])' /\ (Len(Subs) <= MaxSubs)'
  BY <1>1, <1>5, EditedIs, ListTyped
<1> QED BY <1>6, <1>7, <1>8, <1>9, MarkedKeeps

LEMMA EditingKeeps ==
    ASSUME SavedInv, Editing
    PROVE  SavedInv' /\ Lasting
<1>0. /\ UiTyped /\ Formed(ui)
      /\ ui.draft = [name |-> ui.draft.name, url |-> ui.draft.url, priority |-> ui.draft.priority]
  BY ListTyped DEF UiTyped, DraftOK, Formed
<1>1. CASE toggle_subscription
  <2>1. PICK i \in selected_subscription :
          Edited([Subs EXCEPT ![i].enabled = ~@]) /\ ui' = [Done EXCEPT !.dirty = TRUE]
    BY <1>1 DEF toggle_subscription
  <2>2. i \in 1 .. Len(Subs) /\ Subs[i] \in Subscription
    BY ListTyped DEF selected_subscription
  <2>3. [Subs[i] EXCEPT !.enabled = ~@] \in Subscription
    BY <2>2 DEF Subscription
  <2>4. [Subs EXCEPT ![i].enabled = ~@] = [Subs EXCEPT ![i] = [Subs[i] EXCEPT !.enabled = ~@]]
    OBVIOUS
  <2>5. /\ [Subs EXCEPT ![i].enabled = ~@] \in Seq(Subscription)
        /\ Len([Subs EXCEPT ![i].enabled = ~@]) = Len(Subs)
    BY <2>2, <2>3, <2>4, Replaced, ListTyped
  <2>6. /\ Formed(ui') /\ ui'.running = ui.running /\ ui'.dirty = TRUE /\ ui'.view = ui.view
        /\ ui'.mode = "none" /\ ui'.selected = ui.selected /\ ui'.draft = ui.draft
    BY <1>0, <2>1 DEF Formed, Done
  <2>7. Counted /\ file' = file /\ UNCHANGED footprint
    BY <1>1 DEF toggle_subscription
  <2> DEFINE new == [Subs EXCEPT ![i].enabled = ~@]
  <2>10. new \in Seq(Subscription) /\ Len(new) = Len(Subs) /\ Edited(new)
    BY <2>1, <2>5
  <2> HIDE DEF new
  <2>8. (editable \in [subs: Seq(Subscription), set: Settings])' /\ (Len(Subs) <= MaxSubs)'
    BY <2>10, EditedIs, ListTyped
  <2>9. /\ ui'.running \in BOOLEAN /\ ui'.view \in Views /\ ui'.selected \in 0 .. MaxSubs
        /\ ui'.draft = [name |-> ui'.draft.name, url |-> ui'.draft.url,
                        priority |-> ui'.draft.priority]
    BY <1>0, <2>6 DEF UiTyped
  <2> QED BY <2>6, <2>7, <2>8, <2>9, MarkedKeeps
<1>2. CASE delete_subscription
  <2>1. PICK i \in selected_subscription :
          /\ Edited(RemoveAt(Subs, i))
          /\ ui' = [Done EXCEPT !.dirty = TRUE, !.selected = Min({@, Len(Subs) - 1}),
                                !.view = IF ByMenu THEN "subscriptions" ELSE @]
    BY <1>2 DEF delete_subscription
  <2>2. i \in 1 .. Len(Subs) /\ i = ui.selected
    BY ListTyped DEF selected_subscription
  <2>3. RemoveAt(Subs, i) \in Seq(Subscription) /\ Len(RemoveAt(Subs, i)) = Len(Subs) - 1
    BY <2>2, ListTyped, RemoveAtIs
  <2>4. /\ Formed(ui') /\ ui'.running = ui.running /\ ui'.dirty = TRUE
        /\ ui'.view \in {ui.view, "subscriptions"} /\ ui'.mode = "none" /\ ui'.draft = ui.draft
        /\ ui'.selected = Min({ui.selected, Len(Subs) - 1})
    BY <1>0, <2>1 DEF Formed, Done
  <2>5. Min({ui.selected, Len(Subs) - 1}) \in 0 .. MaxSubs
    <3>1. /\ Min({ui.selected, Len(Subs) - 1}) \in {ui.selected, Len(Subs) - 1}
          /\ Min({ui.selected, Len(Subs) - 1}) <= Len(Subs) - 1
      <4>1. ui.selected \in Int /\ Len(Subs) - 1 \in Int
        BY <2>2, ListTyped
      <4> QED BY <4>1, Between
    <3>2. Len(Subs) \in Nat /\ Len(Subs) <= MaxSubs /\ MaxSubs \in Nat
      BY ListTyped
    <3> QED BY <2>2, <3>1, <3>2
  <2>6. Counted /\ file' = file /\ UNCHANGED footprint
    BY <1>2 DEF delete_subscription
  <2>7. (editable \in [subs: Seq(Subscription), set: Settings])'
    BY <2>1, <2>3, EditedIs
  <2>8. (Len(Subs) <= MaxSubs)'
    <3>1. Len(Subs)' = Len(Subs) - 1
      BY <2>1, <2>3, EditedIs
    <3>2. Len(Subs) \in Nat /\ Len(Subs) <= MaxSubs /\ MaxSubs \in Nat
      BY ListTyped
    <3> QED BY <3>1, <3>2
  <2>9. /\ ui'.running \in BOOLEAN /\ ui'.view \in Views /\ ui'.selected \in 0 .. MaxSubs
        /\ ui'.draft = [name |-> ui'.draft.name, url |-> ui'.draft.url,
                        priority |-> ui'.draft.priority]
    BY <1>0, <2>4, <2>5 DEF UiTyped, Views
  <2> QED BY <2>4, <2>6, <2>7, <2>8, <2>9, MarkedKeeps
<1>3. CASE commit_name \/ commit_url \/ commit_priority
  BY <1>3, CommitFieldKeeps DEF commit_name, commit_url, commit_priority
<1>4. CASE commit_new_enabled
  <2>1. PICK enabled \in BOOLEAN :
          Edited(Append(Subs, [name |-> ui.draft.name, url |-> ui.draft.url,
                               enabled |-> enabled, priority |-> ui.draft.priority]))
    BY <1>4 DEF commit_new_enabled
  <2>2. /\ ui.mode = "new_enabled"
        /\ ui' = [finish_edit(ui) EXCEPT !.draft = NoDraft, !.selected = Len(Subs) + 1,
                                         !.view = "subscriptions", !.dirty = TRUE]
        /\ Counted /\ file' = file /\ UNCHANGED footprint
    BY <1>4 DEF commit_new_enabled
  <2>3. [name |-> ui.draft.name, url |-> ui.draft.url, enabled |-> enabled,
         priority |-> ui.draft.priority] \in Subscription /\ Len(Subs) < MaxSubs
    BY <1>0, <2>2 DEF UiTyped, DraftOK, Steps, Subscription
  <2> DEFINE new == Append(Subs, [name |-> ui.draft.name, url |-> ui.draft.url,
                                  enabled |-> enabled, priority |-> ui.draft.priority])
  <2>4. new \in Seq(Subscription) /\ Len(new) = Len(Subs) + 1
    BY <2>3, ListTyped, AppendProperties
  <2>5. /\ Formed(ui') /\ ui'.running = ui.running /\ ui'.dirty = TRUE
        /\ ui'.view = "subscriptions" /\ ui'.mode = "none" /\ ui'.draft = NoDraft
        /\ ui'.selected = Len(Subs) + 1
    BY <1>0, <2>2 DEF Formed, finish_edit
  <2>6. (editable \in [subs: Seq(Subscription), set: Settings])' /\ Len(Subs)' = Len(Subs) + 1
    BY <2>1, <2>4, EditedIs
  <2>7. Len(Subs) + 1 \in 0 .. MaxSubs
    <3>1. Len(Subs) \in Nat /\ MaxSubs \in Nat
      BY ListTyped
    <3> QED BY <2>3, <3>1
  <2>8. /\ ui'.running \in BOOLEAN /\ ui'.view \in Views /\ ui'.selected \in 0 .. MaxSubs
        /\ ui'.draft = [name |-> ui'.draft.name, url |-> ui'.draft.url,
                        priority |-> ui'.draft.priority]
    BY <1>0, <2>5, <2>7 DEF UiTyped, Views, NoDraft
  <2>9. (Len(Subs) <= MaxSubs)'
    BY <2>6, <2>7
  <2> QED BY <2>2, <2>5, <2>6, <2>8, <2>9, MarkedKeeps
<1>5. CASE commit_config \/ commit_reset
  <2>1. editable' \in [subs: Seq(Subscription), set: Settings] /\ editable'.subs = editable.subs
    <3>1. editable \in [subs: Seq(Subscription), set: Settings]
      BY TypeParts DEF SavedInv, Screen
    <3>2. CASE commit_config
      <4>1. PICK e \in PanelEdits : editable' = [editable EXCEPT !.set[e.key] = e.value]
        BY <3>2 DEF commit_config
      <4>2. [editable.set EXCEPT ![e.key] = e.value] \in Settings
        BY ListTyped, TuiAssumption
      <4> QED BY <3>1, <4>1, <4>2
    <3>3. CASE commit_reset
      BY <3>1, <3>3, TuiAssumption DEF commit_reset, Subs
    <3> QED BY <1>5, <3>2, <3>3
  <2>2. /\ ui' = [finish_edit(ui) EXCEPT !.dirty = TRUE]
        /\ Counted /\ file' = file /\ UNCHANGED footprint
    BY <1>5 DEF commit_config, commit_reset
  <2>3. /\ Formed(ui') /\ ui'.running = ui.running /\ ui'.dirty = TRUE /\ ui'.view = ui.view
        /\ ui'.mode = "none" /\ ui'.selected = ui.selected /\ ui'.draft = ui.draft
    BY <1>0, <2>2 DEF Formed, finish_edit
  <2>4. /\ ui'.running \in BOOLEAN /\ ui'.view \in Views /\ ui'.selected \in 0 .. MaxSubs
        /\ ui'.draft = [name |-> ui'.draft.name, url |-> ui'.draft.url,
                        priority |-> ui'.draft.priority]
    BY <1>0, <2>3 DEF UiTyped
  <2>5. (Len(Subs) <= MaxSubs)'
    BY <2>1, ListTyped DEF Subs
  <2> QED BY <2>1, <2>2, <2>3, <2>4, <2>5, MarkedKeeps
<1> QED BY <1>1, <1>2, <1>3, <1>4, <1>5 DEF Editing

-------------------------------------------------------------------------------
(* Saves, starts and all that happens beside the interface.                  *)

FwTyped == fw \in [rules: SUBSET Ports, recorded: SUBSET Ports, users: SUBSET Ports,
                   lost: SUBSET Ports]

LEMMA ApplyTyped ==
    ASSUME FwTyped, NEW enabled, NEW port \in Ports, apply(enabled, port)
    PROVE  FwTyped'
<1>1. Opened(port) \in [rules: SUBSET Ports, recorded: SUBSET Ports, users: SUBSET Ports,
                        lost: SUBSET Ports]
  BY DEF FwTyped, Opened
<1>2. OpenedUnrecorded(port) \in [rules: SUBSET Ports, recorded: SUBSET Ports,
                                  users: SUBSET Ports, lost: SUBSET Ports]
  BY DEF FwTyped, OpenedUnrecorded
<1>3. Closed({port}) \in [rules: SUBSET Ports, recorded: SUBSET Ports, users: SUBSET Ports,
                          lost: SUBSET Ports]
  BY DEF FwTyped, Closed
<1>4. [fw EXCEPT !.rules = @ \ {port}] \in [rules: SUBSET Ports, recorded: SUBSET Ports,
                                            users: SUBSET Ports, lost: SUBSET Ports]
  BY DEF FwTyped
<1> QED BY <1>1, <1>2, <1>3, <1>4 DEF FwTyped, apply

LEMMA EndedTyped ==
    ASSUME ui' = Ended
    PROVE  UiTyped' /\ ~ui'.running
<1>1. /\ Formed(Fresh) /\ Fresh.view = "main" /\ Fresh.mode = "none" /\ Fresh.selected = 0
      /\ Fresh.draft = NoDraft /\ Fresh.dirty = FALSE
  BY DEF Formed, Fresh
<1>2. ui' = [Fresh EXCEPT !.running = FALSE]
  BY DEF Ended
<1>3. /\ Formed(ui') /\ ui'.running = FALSE
      /\ ui'.view = "main" /\ ui'.mode = "none" /\ ui'.selected = 0
      /\ ui'.draft = NoDraft /\ ui'.dirty = FALSE
  BY <1>1, <1>2 DEF Formed
<1>4. NoDraft = [name |-> NoDraft.name, url |-> NoDraft.url, priority |-> NoDraft.priority]
  BY DEF NoDraft
<1>5. ui'.mode \notin Steps /\ "none" \in Modes /\ "main" \in Views /\ 0 \in 0 .. MaxSubs
  BY <1>3, TuiAssumption DEF Views, Modes, Steps
<1>6. DraftOK'
  BY <1>3, <1>4, <1>5 DEF DraftOK, Steps
<1> QED BY <1>3, <1>5, <1>6 DEF Formed, UiTyped

(* What a save keeps of the comments.                                        *)
SaveKept == file'.by = "tui" /\ Spelled(file) => Preserves(file, file', Configuration(file').subs)

LEMMA SaveKeeps ==
    ASSUME SavedInv, NEW c \in [subs: Seq(Subscription), set: Settings], Len(c.subs) <= MaxSubs,
           NEW next \in {ui, Done}, next.mode = "none", save_config(c, next),
           FootprintTypeOK', Counted
    PROVE  SavedInv' /\ (file' # file => SaveKept)
<1>1. (events \in 0 .. MaxEvents)'
  BY TypeParts, TuiAssumption DEF SavedInv, Counted
<1>2. UiTyped /\ Formed(ui) /\ file \in Files /\ Len(file.items) <= MaxSubs
  BY ListTyped, TypeParts DEF SavedInv, Screen, UiTyped, Formed
<1>3. CASE Loads(file)
  <2>1. /\ file' = save_yaml_config(file, c) /\ editable' = c
        /\ ui' = [next EXCEPT !.dirty = FALSE]
    BY <1>3 DEF save_config
  <2>2. /\ file' \in Files /\ Agreed(file', c)
        /\ Spelled(file) => Preserves(file, file', c.subs)
    BY <1>2, <1>3, <2>1, SaveIs
  <2>9. Configuration(file').subs = c.subs
    BY <2>2 DEF Agreed
  <2>3. Len(file'.items) = Len(c.subs)
    BY <2>2, <2>9, Loaded
  <2>4. Screen'
    BY <2>1, <2>2, <2>3 DEF Screen, Subs
  <2>5. Formed(next) /\ next.draft = ui.draft /\ next.view = ui.view
        /\ next.selected = ui.selected /\ next.running = ui.running
    BY <1>2 DEF Formed, Done
  <2>6. /\ Formed(ui') /\ ui'.draft = ui.draft /\ ui'.view = ui.view /\ ui'.mode = "none"
        /\ ui'.selected = ui.selected /\ ui'.running = ui.running /\ ui'.dirty = FALSE
    BY <2>1, <2>5 DEF Formed
  <2>7. UiTyped'
    BY <1>2, <2>6 DEF UiTyped, DraftOK, Formed, Modes, Steps
  <2>8. CleanMeansSaved'
    BY <2>1, <2>2 DEF CleanMeansSaved, Agreed, Subs
  <2> QED BY <1>1, <2>2, <2>4, <2>7, <2>8, <2>9 DEF SavedInv, TypeOK, Screen, UiTyped, SaveKept
<1>4. CASE ~Loads(file)
  <2>1. file' = file /\ editable' = Unloaded /\ ui' = Ended
    BY <1>4 DEF save_config
  <2>2. Screen'
    BY <1>2, <2>1, TuiAssumption, EmptySeq DEF Screen, Subs, Unloaded
  <2>3. UiTyped' /\ ~ui'.running
    BY <2>1, EndedTyped
  <2>4. CleanMeansSaved'
    BY <2>3 DEF CleanMeansSaved
  <2> QED BY <1>1, <2>1, <2>2, <2>3, <2>4 DEF SavedInv, TypeOK, Screen, UiTyped
<1> QED BY <1>3, <1>4

LEMMA SavedFiles ==
    ASSUME FootprintTypeOK, NEW c, NEW next, save_config(c, next)
    PROVE  disk' \subseteq Owned \cup Unknown /\ killed' \in BOOLEAN
BY DEF save_config, Closing, FootprintTypeOK

LEMMA SaveNowKeeps ==
    ASSUME SavedInv, save_now
    PROVE  SavedInv' /\ (file' # file => SaveKept)
<1>1. save_config(editable, Done) /\ Counted /\ UNCHANGED <<fw, layout, uninst>>
  BY DEF save_now
<1>2. FootprintTypeOK'
  BY <1>1, SavedFiles, TypeParts DEF SavedInv, FootprintTypeOK
<1>3. editable \in [subs: Seq(Subscription), set: Settings] /\ Len(editable.subs) <= MaxSubs
  BY TypeParts DEF SavedInv, Screen, Subs
<1>4. Done.mode = "none"
  BY ListTyped DEF UiTyped, Done
<1> QED BY <1>1, <1>2, <1>3, <1>4, SaveKeeps

LEMMA ToggleSaves ==
    ASSUME SavedInv, NEW set \in Settings, NEW enabled, NEW port \in Ports,
           toggle(set, enabled, port)
    PROVE  SavedInv' /\ (file' # file => SaveKept)
<1>1. /\ save_config([editable EXCEPT !.set = set], ui) /\ Counted /\ ui.mode = "none"
      /\ apply(enabled, port) \/ UNCHANGED fw
      /\ UNCHANGED <<layout, uninst>>
  BY DEF toggle, Idle
<1>2. FwTyped'
  BY <1>1, ApplyTyped, TypeParts DEF SavedInv, FootprintTypeOK, FwTyped
<1>3. FootprintTypeOK'
  BY <1>1, <1>2, SavedFiles, TypeParts DEF SavedInv, FootprintTypeOK, FwTyped
<1> DEFINE c == [editable EXCEPT !.set = set]
<1>4. c \in [subs: Seq(Subscription), set: Settings] /\ Len(c.subs) <= MaxSubs
  BY TypeParts DEF SavedInv, Screen, Subs
<1> HIDE DEF c
<1>5. save_config(c, ui)
  BY <1>1 DEF c
<1> QED BY <1>1, <1>3, <1>4, <1>5, SaveKeeps

LEMMA TogglesKeep ==
    ASSUME SavedInv, activate_sharing \/ activate_proxy
    PROVE  SavedInv' /\ (file' # file => SaveKept)
<1>1. editable.set \in Settings
  BY ListTyped
<1>2. CASE activate_sharing
  <2> DEFINE set == [editable.set EXCEPT !.sharing = ~@]
  <2>1. set \in Settings /\ set.bind.port \in Ports
    BY <1>1 DEF Settings, SettingsWith, Binds
  <2>2. toggle(set, set.sharing, set.bind.port)
    BY <1>2 DEF activate_sharing
  <2> HIDE DEF set
  <2> QED BY <2>1, <2>2, ToggleSaves
<1>3. CASE activate_proxy
  <2> DEFINE old == editable.set
             set == [old EXCEPT !.proxy = ~(old.proxy /\ old.discoverable),
                                !.discoverable = old.proxy /\ ~old.discoverable]
  <2>1. set \in Settings /\ set.port \in Ports
    BY <1>1 DEF Settings, SettingsWith
  <2>2. toggle(set, set.discoverable, set.port)
    BY <1>3 DEF activate_proxy
  <2> HIDE DEF set
  <2> QED BY <2>1, <2>2, ToggleSaves
<1> QED BY <1>2, <1>3

(* The file that a start writes when there is none.                          *)
LEMMA FirstRunIs ==
    ASSUME NEW f \in Files, NEW g,
           g = Rewritten([f EXCEPT !.set = Default.set, !.yaml = TRUE, !.odd = FALSE,
                                   !.sharing = "block", !.proxy = "block",
                                   !.by = "default"], Default.subs)
    PROVE  g \in Files /\ Len(g.items) <= MaxSubs /\ g.by = "default"
<1> DEFINE blank == [f EXCEPT !.set = Default.set, !.yaml = TRUE, !.odd = FALSE,
                              !.sharing = "block", !.proxy = "block", !.by = "default"]
<1>1. Default.set \in FileSettings
  BY TuiAssumption DEF Settings, FileSettings, SettingsWith
<1>2. blank \in Files /\ blank.by = "default"
  BY <1>1 DEF Files, SectionLayouts
<1>3. g = Rewritten(blank, Default.subs)
  OBVIOUS
<1> HIDE DEF blank
<1>4. Default.subs \in Seq(Subscription) /\ Len(Default.subs) <= MaxSubs
  BY TuiAssumption
<1>5. g \in Files /\ Configuration(g).subs = Default.subs
  BY <1>2, <1>3, <1>4, RewrittenLists DEF Listing
<1>6. g.by = "default"
  BY <1>2, <1>3 DEF Files, Rewritten
<1>7. Len(g.items) = Len(Default.subs)
  BY <1>5, Loaded
<1> QED BY <1>4, <1>5, <1>6, <1>7

LEMMA StartSaves ==
    ASSUME SavedInv, start
    PROVE  SavedInv' /\ (file' # file => SaveKept)
<1>1. PICK found : /\ found = IF Present THEN file
                              ELSE Rewritten([file EXCEPT !.set = Default.set, !.yaml = TRUE,
                                                          !.odd = FALSE, !.sharing = "block",
                                                          !.proxy = "block", !.by = "default"],
                                             Default.subs)
                   /\ Loads(found)
                   /\ file' = persisted(found) /\ editable' = Configuration(found) /\ ui' = Fresh
                   /\ disk' = disk \cup {"db", "db_log"}
                                   \cup (IF Present THEN {} ELSE {"config"})
                   /\ \/ /\ Configuration(found).set.proxy /\ Configuration(found).set.discoverable
                         /\ apply(TRUE, Configuration(found).set.port)
                      \/ UNCHANGED fw
                   /\ killed' = FALSE
                   /\ Counted /\ UNCHANGED <<layout, uninst>>
  BY DEF start
<1>2. file \in Files /\ Len(file.items) <= MaxSubs
  BY TypeParts DEF SavedInv, Screen
<1>3. /\ found \in Files /\ Len(found.items) <= MaxSubs
      /\ found # file => found.by = "default"
  BY <1>1, <1>2, FirstRunIs
<1>4. /\ Configuration(found) \in [subs: Seq(Subscription), set: Settings]
      /\ Len(Configuration(found).subs) = Len(found.items)
  BY <1>3, Loaded
<1>5. /\ file' \in Files /\ file'.by = found.by /\ Len(file'.items) = Len(found.items)
      /\ Agreed(file', Configuration(found))
      /\ file' # found /\ Spelled(found) => Preserves(found, file', Configuration(file').subs)
  BY <1>1, <1>3, PersistedIs
<1>6. Screen'
  BY <1>1, <1>3, <1>4, <1>5 DEF Screen, Subs
<1>7. UiTyped'
  BY <1>1, TuiAssumption DEF Fresh, NoDraft, UiTyped, DraftOK, Views, Modes, Steps
<1>8. FwTyped'
  <2>1. Configuration(found).set.port \in Ports
    BY <1>4 DEF Settings, SettingsWith
  <2> QED BY <1>1, <2>1, ApplyTyped, TypeParts DEF SavedInv, FootprintTypeOK, FwTyped
<1>9. FootprintTypeOK'
  BY <1>1, <1>8, TypeParts DEF SavedInv, FootprintTypeOK, FwTyped, Owned, RootFiles
<1>10. (events \in 0 .. MaxEvents)'
  BY <1>1, TypeParts, TuiAssumption DEF SavedInv, Counted
<1>11. CleanMeansSaved'
  BY <1>1, <1>5 DEF CleanMeansSaved, Agreed, Subs
<1>12. file' # file => SaveKept
  <2>1. CASE found = file
    BY <1>5, <2>1 DEF SaveKept
  <2>2. CASE found # file
    BY <1>3, <1>5, <2>2 DEF SaveKept
  <2> QED BY <2>1, <2>2
<1> QED BY <1>6, <1>7, <1>9, <1>10, <1>11, <1>12 DEF SavedInv, TypeOK, Screen, UiTyped

LEMMA UninstallTyped ==
    ASSUME FootprintTypeOK, UninstallNext
    PROVE  FootprintTypeOK'
<1>1. CASE Uninstall
  <2>1. uninstall_targets \subseteq Targets
    BY TargetsSpare
  <2> QED BY <1>1, <2>1 DEF Uninstall, FootprintTypeOK
<1>2. CASE UninstallCancelled \/ RemoveFirewallState
  BY <1>2 DEF UninstallCancelled, RemoveFirewallState, NotUninstalling, FootprintTypeOK
<1>3. CASE UninstallFirewall
  <2>1. PICK removed \in SUBSET fw.recorded :
          /\ fw' = Closed(removed)
          /\ uninst' = IF removed = fw.recorded THEN [uninst EXCEPT !.step = "files"]
                       ELSE NotUninstalling
    BY <1>3 DEF UninstallFirewall, remove_owned_rules
  <2>2. FwTyped'
    BY <2>1 DEF Closed, FootprintTypeOK, FwTyped
  <2>3. UNCHANGED <<disk, layout, killed>>
    BY <1>3 DEF UninstallFirewall
  <2>4. [uninst EXCEPT !.step = "files"] \in
          [step: {"none", "firewall", "files", "done"}, targets: SUBSET Targets]
    BY DEF FootprintTypeOK
  <2>5. NotUninstalling \in [step: {"none", "firewall", "files", "done"}, targets: SUBSET Targets]
    BY DEF NotUninstalling
  <2> QED BY <2>1, <2>2, <2>3, <2>4, <2>5 DEF FootprintTypeOK, FwTyped
<1>4. CASE RemoveTarget
  BY <1>4 DEF RemoveTarget, FootprintTypeOK
<1>5. CASE Uninstalled
  BY <1>5 DEF Uninstalled, FootprintTypeOK
<1> QED BY <1>1, <1>2, <1>3, <1>4, <1>5 DEF UninstallNext

(* Nothing of the screen, the file or the interface changes.                 *)
LEMMA AsideKeeps ==
    ASSUME SavedInv, FootprintTypeOK', UNCHANGED <<file, editable, ui, events>>
    PROVE  SavedInv'
<1>1. Screen' /\ UiTyped' /\ (events \in 0 .. MaxEvents)'
  BY TypeParts DEF SavedInv, Screen, UiTyped, DraftOK, Subs
<1>2. CleanMeansSaved'
  BY DEF SavedInv, CleanMeansSaved, Configuration, Subs
<1> QED BY <1>1, <1>2 DEF SavedInv, TypeOK, Screen, UiTyped

LEMMA OutsideKeeps ==
    ASSUME SavedInv,
           user_edits_file \/ persist_generated_token \/ quit \/ stray_files \/ uninstall
    PROVE  SavedInv' /\ (file' # file => SaveKept)
<1>0. Screen /\ UiTyped /\ FootprintTypeOK
  BY TypeParts DEF SavedInv
<1>1. CASE user_edits_file
  <2>1. PICK f \in UserFiles : file' = f
    BY <1>1 DEF user_edits_file
  <2>2. f \in Files /\ f.by = "user" /\ Len(f.items) <= MaxSubs
    BY TuiAssumption
  <2>3. /\ UNCHANGED <<editable, ui>> /\ UNCHANGED footprint /\ Counted
    BY <1>1 DEF user_edits_file
  <2>4. Screen'
    BY <1>0, <2>1, <2>2, <2>3 DEF Screen, Subs
  <2>5. UiTyped' /\ FootprintTypeOK'
    BY <1>0, <2>3 DEF UiTyped, DraftOK, Subs, FootprintTypeOK, footprint
  <2>6. (events \in 0 .. MaxEvents)'
    BY <2>3, TypeParts, TuiAssumption DEF SavedInv, Counted
  <2>7. CleanMeansSaved' /\ SaveKept
    BY <2>1, <2>2 DEF CleanMeansSaved, SaveKept
  <2> QED BY <2>1, <2>2, <2>4, <2>5, <2>6, <2>7 DEF SavedInv, TypeOK, Screen, UiTyped
<1>2. CASE quit
  <2>1. /\ ui' = Ended /\ editable' = Unloaded /\ file' = file /\ events' = events
        /\ Closing \/ Killed
        /\ UNCHANGED <<fw, layout, uninst>>
    BY <1>2 DEF quit
  <2>2. Screen'
    BY <1>0, <2>1, TuiAssumption, EmptySeq DEF Screen, Subs, Unloaded
  <2>3. UiTyped' /\ ~ui'.running
    BY <2>1, EndedTyped
  <2>4. FootprintTypeOK' /\ (events \in 0 .. MaxEvents)'
    BY <1>0, <2>1, TypeParts DEF SavedInv, FootprintTypeOK, Closing, Killed
  <2>5. CleanMeansSaved'
    BY <2>3 DEF CleanMeansSaved
  <2> QED BY <2>1, <2>2, <2>3, <2>4, <2>5 DEF SavedInv, TypeOK, Screen, UiTyped
<1>5. CASE persist_generated_token
  <2>1. /\ file' = persisted(file) /\ Loads(file) /\ file.set.token = "true"
        /\ UNCHANGED <<editable, ui, events>> /\ UNCHANGED footprint
    BY <1>5 DEF persist_generated_token
  <2>2. file \in Files /\ Len(file.items) <= MaxSubs
    BY <1>0 DEF Screen
  <2>3. /\ file' \in Files /\ file'.by = file.by /\ Len(file'.items) = Len(file.items)
        /\ file' # file /\ Spelled(file) => Preserves(file, file', Configuration(file').subs)
    BY <2>1, <2>2, PersistedIs
  <2>4. Screen'
    BY <1>0, <2>1, <2>3 DEF Screen, Subs
  <2>5. UiTyped' /\ FootprintTypeOK' /\ (events \in 0 .. MaxEvents)'
    BY <1>0, <2>1, TypeParts DEF SavedInv, UiTyped, DraftOK, Subs, FootprintTypeOK, footprint
  <2>6. ~ (ui.running /\ ~ui.dirty /\ file.by = "tui")
    <3> SUFFICES ASSUME ui.running /\ ~ui.dirty /\ file.by = "tui" PROVE FALSE
      OBVIOUS
    <3>1. PICK token \in {editable.set.token, token_read(editable.set.token)} :
            file.set = [editable.set EXCEPT !.days = file.set.days, !.token = token]
      BY DEF SavedInv, CleanMeansSaved
    <3>2. editable.set \in Settings
      BY ListTyped
    <3>3. token \in Tokens /\ file.set.token = token
      BY <3>1, <3>2 DEF Settings, SettingsWith, Tokens, token_read
    <3> QED BY <2>1, <3>3 DEF Tokens
  <2>7. CleanMeansSaved'
    BY <2>1, <2>3, <2>6 DEF CleanMeansSaved
  <2>8. file' # file => SaveKept
    BY <2>3 DEF SaveKept
  <2> QED BY <2>3, <2>4, <2>5, <2>7, <2>8 DEF SavedInv, TypeOK, Screen, UiTyped
<1>3. CASE stray_files
  <2>1. FootprintTypeOK'
    BY <1>0, <1>3, FootprintAssumption DEF stray_files, FootprintTypeOK, Owned
  <2> QED BY <1>3, <2>1, AsideKeeps DEF stray_files
<1>4. CASE uninstall
  <2>1. FootprintTypeOK'
    BY <1>0, <1>4, UninstallTyped DEF uninstall
  <2> QED BY <1>4, <2>1, AsideKeeps DEF uninstall
<1> QED BY <1>1, <1>2, <1>3, <1>4, <1>5

-------------------------------------------------------------------------------
(* Every step, again.                                                        *)

LEMMA SavedInitially == Init => SavedInv
<1> SUFFICES ASSUME Init PROVE SavedInv
  OBVIOUS
<1>1. /\ file \in UserFiles /\ editable = Configuration(file) /\ ui = Fresh /\ events = 0
  BY DEF Init
<1>2. file \in Files /\ Len(file.items) <= MaxSubs /\ file.by = "user"
  BY <1>1, TuiAssumption
<1>3. Screen
  BY <1>1, <1>2, Loaded DEF Screen, Subs
<1>4. UiTyped
  BY <1>1, TuiAssumption DEF Fresh, NoDraft, UiTyped, DraftOK, Views, Modes, Steps
<1>5. FootprintTypeOK
  <2>1. FwTyped
    BY FootprintAssumption DEF Init, FootprintInit, FwTyped
  <2>2. disk \subseteq Owned \cup Unknown
    BY DEF Init, FootprintInit, Owned, RootFiles, Unknown
  <2>3. uninst \in [step: {"none", "firewall", "files", "done"}, targets: SUBSET Targets]
    BY DEF Init, FootprintInit, NotUninstalling
  <2> QED BY <2>1, <2>2, <2>3 DEF Init, FootprintInit, FootprintTypeOK, FwTyped
<1>6. events \in 0 .. MaxEvents
  BY <1>1, TuiAssumption
<1>7. CleanMeansSaved
  BY <1>2 DEF CleanMeansSaved
<1> QED BY <1>3, <1>4, <1>5, <1>6, <1>7 DEF SavedInv, TypeOK, Screen, UiTyped

LEMMA SavedStep ==
    ASSUME SavedInv, [Next]_vars
    PROVE  SavedInv' /\ (file' # file => SaveKept)
<1>1. CASE Showing
  <2>1. file' = file
    BY <1>1 DEF Showing, Shown, Quiet, handle_mouse, move_selection, go_back, cancel_input,
                activate_main, edit_selected_subscription, open_panel_row, start_command,
                start_new_subscription, start_edit, other_command, commit_new_url,
                commit_new_name, commit_new_priority
  <2> QED BY <1>1, <2>1, ShowingKeeps
<1>2. CASE Editing
  <2>1. file' = file
    BY <1>2 DEF Editing, toggle_subscription, delete_subscription, commit_name, commit_url,
                commit_priority, commit_field, commit_new_enabled, commit_config, commit_reset
  <2> QED BY <1>2, <2>1, EditingKeeps
<1>3. CASE save_now
  BY <1>3, SaveNowKeeps
<1>4. CASE activate_sharing \/ activate_proxy
  BY <1>4, TogglesKeep
<1>5. CASE start
  BY <1>5, StartSaves
<1>6. CASE user_edits_file \/ persist_generated_token \/ quit \/ stray_files \/ uninstall
  BY <1>6, OutsideKeeps
<1>7. CASE UNCHANGED vars
  <2>1. FootprintTypeOK' /\ UNCHANGED <<file, editable, ui, events>>
    BY <1>7, TypeParts DEF SavedInv, FootprintTypeOK, vars
  <2> QED BY <2>1, AsideKeeps
<1> QED BY <1>1, <1>2, <1>3, <1>4, <1>5, <1>6, <1>7 DEF Next, Showing, Editing

LEMMA SavedAlways == Spec => []SavedInv
<1>1. SavedInv /\ [Next]_vars => SavedInv'
  BY SavedStep
<1> QED BY <1>1, SavedInitially, PTL DEF Spec

-------------------------------------------------------------------------------
(* The files of an open database are there while the program runs, and after *)
(* a run that was killed.                                                    *)

Journal == "db_log" \in disk => ui.running \/ killed

LEMMA LastingKeeps ==
    ASSUME Journal, Lasting
    PROVE  Journal'
BY DEF Journal, Lasting

LEMMA SavingKeeps ==
    ASSUME Journal, UiTyped, NEW c, NEW next \in {ui, Done}, save_config(c, next)
    PROVE  Journal'
<1>1. CASE Loads(file)
  <2>1. ui' = [next EXCEPT !.dirty = FALSE] /\ UNCHANGED <<disk, killed>>
    BY <1>1 DEF save_config
  <2>2. ui'.running = ui.running
    <3>1. CASE next = ui
      BY <2>1, <3>1 DEF UiTyped
    <3>2. CASE next = Done
      BY <2>1, <3>2 DEF UiTyped, Done
    <3> QED BY <3>1, <3>2
  <2> QED BY <2>1, <2>2, LastingKeeps DEF Lasting
<1>2. CASE ~Loads(file)
  BY <1>2 DEF save_config, Closing, Journal
<1> QED BY <1>1, <1>2

LEMMA JournalKept ==
    ASSUME SavedInv, IInv, Journal, [Next]_vars
    PROVE  Journal'
<1>0. UiTyped
  BY ListTyped
<1>1. CASE Showing
  BY <1>1, ShowingKeeps, LastingKeeps
<1>2. CASE Editing
  BY <1>2, EditingKeeps, LastingKeeps
<1>3. CASE save_now
  BY <1>0, <1>3, SavingKeeps DEF save_now
<1>4. CASE activate_sharing \/ activate_proxy
  <2>1. PICK set, enabled, port : toggle(set, enabled, port)
    BY <1>4 DEF activate_sharing, activate_proxy
  <2>2. save_config([editable EXCEPT !.set = set], ui)
    BY <2>1 DEF toggle
  <2> QED BY <1>0, <2>2, SavingKeeps
<1>5. CASE start
  BY <1>5 DEF start, Fresh, Journal
<1>6. CASE user_edits_file \/ persist_generated_token
  BY <1>6 DEF user_edits_file, persist_generated_token, footprint, Journal
<1>7. CASE quit
  BY <1>7 DEF quit, Closing, Killed, Journal
<1>8. CASE stray_files
  <2>1. PICK files \in Strays : disk' = disk \cup files
    BY <1>8 DEF stray_files
  <2>2. "db_log" \notin files
    BY FootprintAssumption DEF RootFiles, CacheFiles, Unknown
  <2> QED BY <1>8, <2>1, <2>2 DEF stray_files, Journal
<1>9. CASE uninstall
  <2>1. UNCHANGED <<ui, killed>> /\ disk' \subseteq disk
    BY <1>9 DEF uninstall, UninstallNext, Uninstall, UninstallCancelled, UninstallFirewall,
                RemoveTarget, RemoveFirewallState, Uninstalled
  <2> QED BY <2>1 DEF Journal
<1>10. CASE UNCHANGED vars
  BY <1>10 DEF vars, Journal
<1> QED BY <1>1, <1>2, <1>3, <1>4, <1>5, <1>6, <1>7, <1>8, <1>9, <1>10 DEF Next, Showing, Editing

LEMMA JournalAlways == Spec => []Journal
<1>1. Init => Journal
  BY DEF Init, Fresh, Journal
<1>2. SavedInv /\ IInv /\ Journal /\ [Next]_vars => Journal'
  BY JournalKept
<1> QED BY <1>1, <1>2, SavedAlways, Inductive, PTL DEF Spec

(* A finished uninstall leaves no rule and no file of the program, but for   *)
(* rules that could not be recorded and the -wal and -shm files of a run     *)
(* that was killed (main.rs:uninstall).                                      *)
THEOREM NothingLeft == Spec => []UninstallLeavesNothing
<1>1. IInv /\ Journal => UninstallLeavesNothing
  BY DEF IInv, Rules, EveryRuleKnown, Phases, Journal, UninstallLeavesNothing
<1> QED BY <1>1, Inductive, JournalAlways, PTL

(* State is well typed, the draft of the four-step flow included: a commit   *)
(* of the last step always finds a complete draft and room in the list.      *)
THEOREM TypeCorrect == Spec => []TypeOK
<1>1. SavedInv => TypeOK
  BY DEF SavedInv
<1> QED BY <1>1, SavedAlways, PTL

(* With nothing marked unsaved, the file the UI wrote holds what is on the   *)
(* screen and loads as it, however its list was edited; the four ways in     *)
(* which it may not load are named (tui/util.rs:save_yaml_config).           *)
THEOREM CleanIsSaved == Spec => []CleanMeansSaved
<1>1. SavedInv => CleanMeansSaved
  BY DEF SavedInv
<1> QED BY <1>1, SavedAlways, PTL

(* A save keeps the comments of a list whose items spell out their keys      *)
(* (tui/util.rs:update_subscriptions).                                       *)
THEOREM CommentsStay == Spec => CommentsKept
<1> DEFINE old == Configuration(file).subs
           new == Configuration(file').subs
           Kept ==
             file' # file /\ file'.by = "tui" /\ file.list = "block"
             /\ (\A i \in DOMAIN old : file.items[i].keys = Keys) =>
               /\ Len(old) = Len(new) => \A i \in DOMAIN old : file'.items[i].note = file.items[i].note
               /\ removed_subscription_index(old, new) # {} =>
                    \E i \in DOMAIN old : file'.items = RemoveAt(file.items, i)
               /\ inserted_subscription_index(old, new) # {} =>
                    \E i \in DOMAIN new : RemoveAt(file'.items, i) = file.items
<1>1. SavedInv /\ [Next]_vars => Kept
  BY SavedStep DEF SaveKept, Spelled, Preserves
<1>2. SavedInv /\ [Next]_vars => [Kept]_file
  BY <1>1
<1>3. CommentsKept <=> [][Kept]_file
  BY DEF CommentsKept
<1> QED BY <1>2, <1>3, SavedAlways, PTL DEF Spec

===============================================================================
