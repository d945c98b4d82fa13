------------------------------- MODULE MCTui -------------------------------
(* A small configuration of the terminal UI: two subscriptions, two ports. *)
EXTENDS Tui

Sub(n, on) == [name |-> n, url |-> "u", enabled |-> on, priority |-> 1]

Base == [bind |-> [port |-> 1, v6 |-> FALSE], sharing |-> FALSE, require_token |-> FALSE,
         token |-> "none", proxy |-> FALSE, port |-> 2, discoverable |-> FALSE,
         health |-> "plain", days |-> 7]

FirstRun == [subs |-> <<Sub("a", TRUE)>>, set |-> Base]

File(list, items) ==
  [yaml |-> TRUE, list |-> list, items |-> items, sharing |-> "block", proxy |-> "absent",
   set |-> Base, odd |-> FALSE, by |-> "user"]

Item(n, keys, note) == [sub |-> Sub(n, TRUE), keys |-> keys, note |-> note]

\* Two commented items, the proxy section in one line; an item flush with its key,
\* without its optional keys, a token to be made up; and a file that is no YAML.
Written == { [File("block", <<Item("a", Keys, TRUE), Item("b", Keys, TRUE)>>)
                 EXCEPT !.proxy = "other"],
             [File("flush", <<Item("a", {"name", "url"}, TRUE)>>) EXCEPT !.set.token = "true"],
             [File("block", <<Item("a", Keys, FALSE)>>) EXCEPT !.yaml = FALSE] }

Typed(key, value) == [key |-> key, value |-> value]

\* An IPv6 address, a token that is read as null, and a token asked for.
Panel == { Typed("bind", [port |-> 1, v6 |-> TRUE]), Typed("token", "tilde"),
           Typed("require_token", TRUE) }

Rules == {{1}}
Litter == {{"marker", "cache_marker", "cache_db", "in_app"}, {"in_cache"}, {"in_root"}}
=============================================================================
