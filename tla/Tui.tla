-------------------------------- MODULE Tui --------------------------------
(***************************************************************************)
(* The terminal UI of V2RayDAR and the configuration file it edits.        *)
(*                                                                         *)
(* The UI edits its own copy of the configuration, `editable`, loaded once *)
(* when the program starts.  A save reads the file again, compares what it *)
(* loads with `editable` field by field, and edits the YAML text in place, *)
(* so that the user's layout and comments survive.  The user edits the     *)
(* same file with a text editor while the program runs.  The text of the   *)
(* file is its layout: where the editor inserts a line that YAML does not  *)
(* allow there, the layout is "mixed" and the file no longer parses.       *)
(*                                                                         *)
(* Abstracted: the text being typed (a commit takes any value that could   *)
(* have been typed), the row under the cursor of every menu but the list   *)
(* of subscriptions (activating takes any row), and the settings that are  *)
(* written like the ones kept here.  MaxEvents bounds edits, saves,        *)
(* outside edits and starts together.  The watcher and the settings the    *)
(* servers run with are in RefreshLoop.                                    *)
(***************************************************************************)
EXTENDS Footprint, Sequences, FiniteSetsExt, SequencesExt

CONSTANTS Names, Urls, Priorities,   \* what subscriptions are made of
          Blank,                     \* what an empty input is trimmed to
          MaxSubs,                   \* bound on the list of subscriptions
          Default,                   \* the configuration of a first run
          UserFiles,                 \* what the user may write into the file
          PanelEdits,                \* settings as typed in the panel
          Days,                      \* values of clean_offlines_after_days
          MaxEvents

VARIABLES file, editable, ui, events

vars == <<file, editable, ui, events, fw, disk, layout, uninst, killed>>

Keys == {"name", "url", "enabled", "priority"}

Subscription == [name: Names, url: Urls, enabled: BOOLEAN, priority: Priorities]

\* The listener's address, with its port.
Binds == [port: Ports, v6: BOOLEAN]

\* The token: none (null, false, nothing), one that is written as it is read, and two
\* that the writer leaves unquoted and the reader takes for something else: null (~)
\* or a number (0x10).  In a file, true asks for a new token at every load.
Tokens == {"none", "word", "tilde", "number"}

\* health_check_url: one that is a plain YAML string, or one that needs quotes.
HealthUrls == {"plain", "odd"}

SettingsWith(tokens) ==
  [bind: Binds, sharing: BOOLEAN, require_token: BOOLEAN, token: tokens, proxy: BOOLEAN,
   port: Ports, discoverable: BOOLEAN, health: HealthUrls, days: Days]

Settings     == SettingsWith(Tokens)
FileSettings == SettingsWith(Tokens \cup {"true"})

\* Items of the file's list, and files as they may be found on disk.
Items == [sub: Subscription, keys: SUBSET Keys, note: BOOLEAN]

\* A section's keys stand two columns in, it is absent, or it is laid out in
\* another way (other indent, a flow mapping, a quoted name).
SectionLayouts == {"block", "absent", "other", "mixed"}

Files == [yaml: BOOLEAN, list: {"block", "flush", "bare", "inline", "mixed"}, items: Seq(Items),
          sharing: SectionLayouts, proxy: SectionLayouts, set: FileSettings, odd: BOOLEAN,
          by: {"user", "default", "tui"}]

ASSUME TuiAssumption ==
  /\ MaxSubs \in Nat /\ MaxEvents \in Nat
  /\ Default \in [subs: Seq(Subscription), set: Settings] /\ Len(Default.subs) <= MaxSubs
  /\ \A f \in UserFiles : f \in Files /\ f.by = "user" /\ Len(f.items) <= MaxSubs
  /\ \A e \in PanelEdits, set \in Settings : [set EXCEPT ![e.key] = e.value] \in Settings

NoDraft == [name |-> Blank, url |-> Blank, priority |-> 0]

Steps == {"new_url", "new_name", "new_priority", "new_enabled"}
Modes == {"none", "command", "name", "url", "priority", "panel", "reset", "clean"} \cup Steps
Views == {"main", "subscriptions", "new", "actions", "panel"}

Fresh == [running |-> TRUE, view |-> "main", mode |-> "none", selected |-> 0,
          draft |-> NoDraft, dirty |-> FALSE]
Ended == [Fresh EXCEPT !.running = FALSE]
Unloaded == [subs |-> <<>>, set |-> Default.set]

-----------------------------------------------------------------------------
(* The file.  An item of its list is a subscription, the keys its text     *)
(* spells out, and the comments that stand in it; its text ends where the  *)
(* next item begins, so a comment above an item belongs to the one before. *)
(* `list` is how the list is laid out: indented items, items flush with    *)
(* their key, nothing after the key, or an inline [].  `set` is what the   *)
(* scalars are read as; `odd` says that one was written which cannot be.   *)

Configuration(f) ==
  [subs |-> [i \in DOMAIN f.items |-> f.items[i].sub],
   set  |-> [f.set EXCEPT !.token = IF @ = "true" THEN "word" ELSE @]]

Parses(f) == f.yaml /\ ~f.odd /\ "mixed" \notin {f.list, f.sharing, f.proxy}

Plain(sub) == [sub |-> sub, keys |-> Keys, note |-> FALSE]

validate(c) ==
  /\ \A i \in DOMAIN c.subs : c.subs[i].name # Blank /\ c.subs[i].url # Blank
  /\ c.set.require_token => c.set.token # "none"
  /\ c.set.proxy => c.set.port # c.set.bind.port

Loads(f) == Parses(f) /\ validate(Configuration(f))

\* format_subscriptions_section: the whole list is written anew.
Rewritten(f, subs) ==
  [f EXCEPT !.items = [i \in DOMAIN subs |-> Plain(subs[i])],
            !.list = IF subs = <<>> THEN "inline" ELSE "block"]

\* The items the editor recognises: those two columns in from their key.
sequence_item_ranges(f) == IF f.list \in {"flush", "inline"} THEN <<>> ELSE f.items

\* A field is edited where its key stands; a key that is not there is not added.
\* Mutant: an edited list is always written anew.
AlwaysRewritten(f, prev, subs) == Rewritten(f, subs)

update_subscription_items_in_place(f, prev, subs) ==
  IF \A i \in DOMAIN subs : \A k \in Keys : prev[i][k] # subs[i][k] => k \in f.items[i].keys
  THEN [f EXCEPT !.items = [i \in DOMAIN subs |-> [f.items[i] EXCEPT !.sub = subs[i]]]]
  ELSE Rewritten(f, subs)

removed_subscription_index(prev, subs) == {i \in DOMAIN prev : RemoveAt(prev, i) = subs}

inserted_subscription_index(prev, subs) == {i \in DOMAIN subs : RemoveAt(subs, i) = prev}

\* The lines of one item go; with the last item only the key is left.
ItemRemoved(f, i) ==
  [f EXCEPT !.items = RemoveAt(@, i), !.list = IF Len(f.items) = 1 THEN "bare" ELSE @]

\* An item's lines under an inline [] are not YAML.
ItemInserted(f, i, sub) ==
  [f EXCEPT !.items = InsertAt(@, i, Plain(sub)),
            !.list = IF @ = "inline" THEN "mixed" ELSE "block"]

update_subscriptions(f, subs) ==
  LET prev     == Configuration(f).subs
      removed  == removed_subscription_index(prev, subs)
      inserted == inserted_subscription_index(prev, subs)
  IN  CASE prev = subs                           -> f
        [] prev # subs /\ Len(sequence_item_ranges(f)) # Len(prev) -> Rewritten(f, subs)
        [] OTHER ->
             CASE Len(prev) = Len(subs) -> update_subscription_items_in_place(f, prev, subs)
               [] removed # {}          -> ItemRemoved(f, Min(removed))
               [] inserted # {}         -> ItemInserted(f, Min(inserted), subs[Min(inserted)])
               [] OTHER                 -> Rewritten(f, subs)

\* Each section's writer names the settings it writes, and writes those that differ
\* from what the file loads as.  clean_offlines_after_days, which the panel offers,
\* is named by none of them.  Everything is written as it is but the token, which is
\* quoted where the writer sees the need; bind and health_check_url never are, and
\* an IPv6 address in its brackets is a YAML list.

update_top_level_scalars(f, new) ==
  [f EXCEPT !.set = [@ EXCEPT !.bind = new.bind],
            !.odd = @ \/ (f.set.bind # new.bind /\ new.bind.v6)]

\* set_nested_scalar: a key is replaced or inserted two columns in, and a section
\* that is not found is appended.  A key put into a section that is laid out in
\* another way stands where YAML allows none.
set_nested_scalar(section, written) ==
  CASE ~written                                     -> section
    [] written /\ section \in {"block", "absent"}    -> "block"
    [] written /\ section \notin {"block", "absent"} -> "mixed"

\* nullable_string, and what a load makes of it.
token_read(token) == IF token = "tilde" THEN "none" ELSE token

update_sharing_section(f, new) ==
  LET old     == f.set
      token   == old.token = "true" \/ old.token # new.token
      written == token \/ old.sharing # new.sharing \/ old.require_token # new.require_token
  IN  [f EXCEPT !.set = [old EXCEPT !.sharing = new.sharing, !.require_token = new.require_token,
                                    !.token = IF token THEN token_read(new.token) ELSE @],
                !.odd = @ \/ (token /\ new.token = "number"),
                !.sharing = set_nested_scalar(@, written)]

update_proxy_section(f, new) ==
  LET old     == f.set
      health  == old.health # new.health
      written == health \/ <<old.proxy, old.port, old.discoverable>>
                            # <<new.proxy, new.port, new.discoverable>>
  IN  [f EXCEPT !.set = [@ EXCEPT !.proxy = new.proxy, !.port = new.port,
                                  !.discoverable = new.discoverable, !.health = new.health],
                !.odd = @ \/ (health /\ new.health = "odd"),
                !.proxy = set_nested_scalar(@, written)]

save_yaml_config(f, c) ==
  LET top     == update_top_level_scalars(f, c.set)
      sharing == update_sharing_section(top, c.set)
      proxy   == update_proxy_section(sharing, c.set)
  IN  [update_subscriptions(proxy, c.subs) EXCEPT !.by = "tui"]

\* A file that does not load cannot be saved over: the error ends the program.
save_config(c, next) ==
  IF Loads(file)
  THEN /\ file' = save_yaml_config(file, c) /\ editable' = c
       /\ ui' = [next EXCEPT !.dirty = FALSE]
       /\ UNCHANGED <<disk, killed>>
  ELSE /\ UNCHANGED file /\ editable' = Unloaded /\ ui' = Ended
       /\ Closing

\* load_config_and_persist_generated_token: a token that a load makes up is written
\* at once, by the start and by the watcher.
persisted(f) ==
  IF f.set.token = "true" THEN [save_yaml_config(f, Configuration(f)) EXCEPT !.by = f.by] ELSE f

-----------------------------------------------------------------------------
(* Selection and views *)

Subs == editable.subs
selected_subscription == IF ui.selected \in DOMAIN Subs THEN {ui.selected} ELSE {}

Counted == events < MaxEvents /\ events' = events + 1
Edited(subs) == editable' = [editable EXCEPT !.subs = subs]
Idle == ui.running /\ ui.mode = "none"
finish_edit(u) == [u EXCEPT !.mode = "none"]

Quiet == UNCHANGED <<file, editable, events, footprint>>
Shown(next) == ui.running /\ ui' = next /\ Quiet

\* Clicks are looked up in the rows of the last frame, and several events are
\* handled between two frames: the row may be one that has just been deleted.
handle_mouse ==
  /\ ui.view = "subscriptions"
  /\ \E row \in 0 .. MaxSubs : Shown([ui EXCEPT !.selected = row])

move_selection ==
  /\ ui.mode = "none" /\ ui.view = "subscriptions"
  /\ \E row \in {Max({ui.selected - 1, 0}), Min({ui.selected + 1, Len(Subs)})} :
       Shown([ui EXCEPT !.selected = row])

\* Ctrl+H in every mode, Esc in none: only the new-subscription flow is left.
go_back ==
  Shown(IF ui.view = "new"
        THEN [ui EXCEPT !.view = "subscriptions", !.mode = "none", !.draft = NoDraft]
        ELSE [ui EXCEPT !.view = IF @ = "actions" THEN "subscriptions" ELSE "main"])

\* Esc while something is typed.
cancel_input ==
  /\ ui.mode # "none"
  /\ Shown(IF ui.view = "new" /\ ui.mode \notin {"command", "clean"}
           THEN [ui EXCEPT !.mode = "none", !.view = "subscriptions", !.draft = NoDraft]
           ELSE [ui EXCEPT !.mode = "none"])

activate_main ==
  /\ Idle /\ ui.view = "main"
  /\ \/ \E view \in {"subscriptions", "panel"} : Shown([ui EXCEPT !.view = view])
     \/ Shown([ui EXCEPT !.mode = "clean"])

edit_selected_subscription ==
  /\ Idle /\ ui.view = "subscriptions" /\ ui.selected # 0
  /\ Shown([ui EXCEPT !.view = "actions"])

open_panel_row ==
  /\ Idle /\ ui.view = "panel"
  /\ \E mode \in {"panel", "reset"} : Shown([ui EXCEPT !.mode = mode])

start_command == Idle /\ Shown([ui EXCEPT !.mode = "command"])

-----------------------------------------------------------------------------
(* Actions on subscriptions: by key, by command, from the action menu      *)

\* Where each is offered; the mode afterwards is none.
ByCommand == ui.mode = "command"
ByMenu    == ui.mode = "none" /\ ui.view = "actions"
Done      == [ui EXCEPT !.mode = "none"]

start_new_subscription ==
  /\ ui.running
  /\ \/ ByCommand
     \/ ui.mode = "none" /\ ui.view = "subscriptions" /\ ui.selected = 0
  /\ Len(Subs) < MaxSubs
  /\ Shown([ui EXCEPT !.view = "new", !.mode = "new_url", !.draft = [NoDraft EXCEPT !.priority =
              Min({Max({0} \cup {Subs[i].priority : i \in DOMAIN Subs}) + 1, Max(Priorities)})]])

start_edit ==
  /\ ByCommand \/ ByMenu
  /\ \E mode \in {"name", "url", "priority"} : Shown([ui EXCEPT !.mode = mode])

\* Mutant: the switch of a subscription does not mark the configuration unsaved.
ToggledUnmarked ==
  /\ ui.running /\ ui.mode \in {"none", "command"} /\ Counted
  /\ \E i \in selected_subscription : Edited([Subs EXCEPT ![i].enabled = ~@])
  /\ ui' = Done
  /\ UNCHANGED <<file, footprint>>

toggle_subscription ==
  /\ ui.running /\ ui.mode \in {"none", "command"} /\ Counted
  /\ \E i \in selected_subscription :
       /\ Edited([Subs EXCEPT ![i].enabled = ~@])
       /\ ui' = [Done EXCEPT !.dirty = TRUE]
  /\ UNCHANGED <<file, footprint>>

\* The selection is clamped to the shorter list; the menu goes back to the list.
delete_subscription ==
  /\ ui.running /\ (ByCommand \/ ByMenu) /\ Counted
  /\ \E i \in selected_subscription :
       /\ Edited(RemoveAt(Subs, i))
       /\ ui' = [Done EXCEPT !.dirty = TRUE, !.selected = Min({@, Len(Subs) - 1}),
                             !.view = IF ByMenu THEN "subscriptions" ELSE @]
  /\ UNCHANGED <<file, footprint>>

\* Any other command, or one with nothing selected, only ends the mode.
other_command == ByCommand /\ Shown(Done)

save_now ==
  /\ ui.running /\ ui.mode \in {"none", "command"} /\ Counted
  /\ save_config(editable, Done)
  /\ UNCHANGED <<fw, layout, uninst>>

-----------------------------------------------------------------------------
(* Commits: what was typed is trimmed; nothing, or no number, is refused   *)

commit_field(key, values) ==
  /\ ui.running /\ ui.mode = key /\ Counted
  /\ \E v \in values \ {Blank} : \E i \in selected_subscription :
       /\ Edited([Subs EXCEPT ![i][key] = v])
       /\ ui' = [finish_edit(ui) EXCEPT !.dirty = TRUE]
  /\ UNCHANGED <<file, footprint>>

commit_name == commit_field("name", Names \cup {Blank})
commit_url == commit_field("url", Urls \cup {Blank})
commit_priority == commit_field("priority", Priorities)

commit_new_url ==
  /\ ui.mode = "new_url" /\ ui.draft # NoDraft
  /\ \E v \in Urls \cup {Blank} : v # Blank /\
       Shown([ui EXCEPT !.mode = "new_name", !.draft.url = v])

commit_new_name ==
  /\ ui.mode = "new_name" /\ ui.draft # NoDraft
  /\ \E v \in Names \cup {Blank} : v # Blank /\
       Shown([ui EXCEPT !.mode = "new_priority", !.draft.name = v])

commit_new_priority ==
  /\ ui.mode = "new_priority" /\ ui.draft # NoDraft
  /\ \E v \in Priorities : Shown([ui EXCEPT !.mode = "new_enabled", !.draft.priority = v])

commit_new_enabled ==
  /\ ui.running /\ ui.mode = "new_enabled" /\ ui.draft # NoDraft /\ Counted
  /\ \E enabled \in BOOLEAN :
       Edited(Append(Subs, [name |-> ui.draft.name, url |-> ui.draft.url,
                            enabled |-> enabled, priority |-> ui.draft.priority]))
  /\ ui' = [finish_edit(ui) EXCEPT !.draft = NoDraft, !.selected = Len(Subs) + 1,
                                   !.view = "subscriptions", !.dirty = TRUE]
  /\ UNCHANGED <<file, footprint>>

\* config_editor::apply checks one value at a time; values that must agree with
\* each other are only checked when a file is loaded.  A token is made up here for
\* what would ask for one in a file.
commit_config ==
  /\ ui.running /\ ui.mode = "panel" /\ Counted
  /\ \E e \in PanelEdits :
       editable' = [editable EXCEPT !.set[e.key] = e.value]
  /\ ui' = [finish_edit(ui) EXCEPT !.dirty = TRUE]
  /\ UNCHANGED <<file, footprint>>

commit_reset ==
  /\ ui.running /\ ui.mode = "reset" /\ Counted
  /\ editable' = [subs |-> Subs, set |-> Default.set]
  /\ ui' = [finish_edit(ui) EXCEPT !.dirty = TRUE]
  /\ UNCHANGED <<file, footprint>>

-----------------------------------------------------------------------------
(* The main menu's toggles save everything there is, then turn to the      *)
(* firewall; a failed save ends the program before that.                   *)

toggle(set, enabled, port) ==
  /\ Idle /\ ui.view = "main" /\ Counted
  /\ save_config([editable EXCEPT !.set = set], ui)
  /\ IF Loads(file) THEN apply(enabled, port) ELSE UNCHANGED fw
  /\ UNCHANGED <<layout, uninst>>

activate_sharing ==
  LET set == [editable.set EXCEPT !.sharing = ~@]
  IN  toggle(set, set.sharing, set.bind.port)

\* disabled, enabled on this machine, enabled on the LAN, disabled
activate_proxy ==
  LET old == editable.set
      set == [old EXCEPT !.proxy = ~(old.proxy /\ old.discoverable),
                         !.discoverable = old.proxy /\ ~old.discoverable]
  IN  toggle(set, set.discoverable, set.port)

-----------------------------------------------------------------------------
(* The user, the program's starts, the uninstall                           *)

Present == disk \cap {"config", "custom_config"} # {}

user_edits_file ==
  /\ Present /\ Counted
  /\ \E f \in UserFiles : file' = f
  /\ UNCHANGED <<editable, ui, footprint>>

\* The watcher of the configuration file loads what the user saved.
persist_generated_token ==
  /\ ui.running /\ file.set.token = "true" /\ Loads(file)
  /\ file' = persisted(file)
  /\ UNCHANGED <<editable, ui, events, footprint>>

\* Ctrl+C, q, :q: unsaved changes are gone.  Or the process is killed.
quit ==
  /\ ui.running /\ ui' = Ended /\ editable' = Unloaded
  /\ Closing \/ Killed
  /\ UNCHANGED <<file, events, fw, layout, uninst>>

\* A missing config is created, a database opened, and the rule of a proxy that
\* is shared on the LAN is opened; a file that does not load ends the start.
start ==
  /\ ~ui.running /\ uninst.step = "none" /\ Counted
  /\ LET found == IF Present THEN file
                  ELSE Rewritten([file EXCEPT !.set = Default.set, !.yaml = TRUE, !.odd = FALSE,
                                              !.sharing = "block", !.proxy = "block",
                                              !.by = "default"], Default.subs)
         c     == Configuration(found)
     IN  /\ Loads(found)
         /\ file' = persisted(found) /\ editable' = c /\ ui' = Fresh
         /\ disk' = disk \cup {"db", "db_log"} \cup (IF Present THEN {} ELSE {"config"})
         /\ IF c.set.proxy /\ c.set.discoverable THEN apply(TRUE, c.set.port) ELSE UNCHANGED fw
  /\ killed' = FALSE
  /\ UNCHANGED <<layout, uninst>>

\* Files the program does not know, or left by an earlier version of it.
stray_files ==
  /\ ~ui.running /\ uninst.step = "none" /\ disk \subseteq RootFiles \cup {"db_log", "custom_config"}
  /\ \E files \in Strays : disk' = disk \cup files
  /\ UNCHANGED <<file, editable, ui, events, fw, layout, uninst, killed>>

uninstall ==
  /\ ~ui.running /\ UninstallNext
  /\ UNCHANGED <<file, editable, ui, events>>

-----------------------------------------------------------------------------
Init ==
  /\ FootprintInit
  /\ file \in {f \in UserFiles : Loads(f)}
  /\ editable = Configuration(file)
  /\ ui = Fresh
  /\ events = 0

Next ==
  \/ handle_mouse \/ move_selection \/ go_back \/ cancel_input
  \/ activate_main \/ edit_selected_subscription \/ open_panel_row \/ start_command
  \/ start_new_subscription \/ start_edit \/ toggle_subscription \/ delete_subscription
  \/ other_command \/ save_now
  \/ commit_name \/ commit_url \/ commit_priority
  \/ commit_new_url \/ commit_new_name \/ commit_new_priority \/ commit_new_enabled
  \/ commit_config \/ commit_reset
  \/ activate_sharing \/ activate_proxy
  \/ user_edits_file \/ persist_generated_token \/ quit \/ start \/ stray_files \/ uninstall

Spec == Init /\ [][Next]_vars

-----------------------------------------------------------------------------
(* Properties *)

\* A draft is complete when the last of the four steps is reached, and the list
\* has room for it.
DraftOK ==
  /\ ui.draft = [name |-> ui.draft.name, url |-> ui.draft.url, priority |-> ui.draft.priority]
  /\ ui.mode \in Steps => Len(Subs) < MaxSubs
  /\ ui.mode \in Steps \ {"new_url"} => ui.draft.url \in Urls
  /\ ui.mode \in {"new_priority", "new_enabled"} => ui.draft.name \in Names
  /\ ui.mode = "new_enabled" => ui.draft.priority \in Priorities

TypeOK ==
  /\ FootprintTypeOK
  /\ editable \in [subs: Seq(Subscription), set: Settings] /\ Len(Subs) <= MaxSubs
  /\ file \in Files /\ Len(file.items) <= MaxSubs
  /\ ui = [running |-> ui.running, view |-> ui.view, mode |-> ui.mode, selected |-> ui.selected,
           draft |-> ui.draft, dirty |-> ui.dirty]
  /\ ui.running \in BOOLEAN /\ ui.dirty \in BOOLEAN
  /\ ui.view \in Views /\ ui.mode \in Modes /\ ui.selected \in 0 .. MaxSubs
  /\ DraftOK
  /\ events \in 0 .. MaxEvents

\* Values that the writer leaves unquoted and YAML does not read as they are.
Unquoted(set) == set.bind.v6 \/ set.health = "odd" \/ set.token \in {"tilde", "number"}

\* With nothing marked unsaved, the file the UI wrote holds the configuration on the
\* screen, save for clean_offlines_after_days, and loads as it: whichever way its list
\* was edited in place, cut, extended or rewritten, whatever its layout was, and
\* whatever the user had made of the file since it was loaded.  It does not load in
\* four cases: settings that do not agree with each other, which the panel accepts
\* and a load refuses; a value that needs quotes and is written without; a first
\* subscription put under an inline []; a setting put into a section that is not laid
\* out in two columns.
CleanMeansSaved ==
  ui.running /\ ~ui.dirty /\ file.by = "tui" =>
    /\ Configuration(file).subs = Subs
    /\ \E token \in {editable.set.token, token_read(editable.set.token)} :
         file.set = [editable.set EXCEPT !.days = file.set.days, !.token = token]
    /\ \/ Loads(file) /\ file.set.token = editable.set.token
       \/ ~validate(editable)
       \/ Unquoted(editable.set)
       \/ "mixed" \in {file.list, file.sharing, file.proxy}

\* "TUI saves try to preserve the shape and comments": when the items stand where
\* the editor looks for them and spell out their keys, a save that changes fields
\* keeps every comment, and one that removes or adds a single subscription leaves
\* the other items as they were.
CommentsKept ==
  [][ LET old == Configuration(file).subs
          new == Configuration(file').subs
      IN  file' # file /\ file'.by = "tui" /\ file.list = "block"
          /\ (\A i \in DOMAIN old : file.items[i].keys = Keys) =>
            /\ Len(old) = Len(new) => \A i \in DOMAIN old : file'.items[i].note = file.items[i].note
            /\ removed_subscription_index(old, new) # {} =>
                 \E i \in DOMAIN old : file'.items = RemoveAt(file.items, i)
            /\ inserted_subscription_index(old, new) # {} =>
                 \E i \in DOMAIN new : RemoveAt(file'.items, i) = file.items ]_file

\* A test of the save expects "saved config reloads": what the UI has written is
\* a file the program can load again.
SavedReloads == file.by = "tui" => Loads(file)

=============================================================================
