--------------------------- MODULE MCConfigStore ---------------------------
(* Small instances of the config storage for TLC. *)
EXTENDS ConfigStore, TLC

CONSTANTS a1, a2, MaxVersion

TwoAdmins == {a1, a2}
KeyOf(name, mult, mand, temp, default) ==
  [name |-> name, mult |-> mult, mand |-> mand, temp |-> temp, default |-> default]
E(op, key, val) == [op |-> op, key |-> key, val |-> val]
R(key, val) == [key |-> key, val |-> val]

\* The mailing lists have no default, the hosts of the administrator have one.
MainKeys == { KeyOf("web_hosts", TRUE, TRUE, FALSE, "local"), KeyOf("level", FALSE, TRUE, FALSE, "3"),
              KeyOf("lists", TRUE, FALSE, FALSE, ""), KeyOf("test", FALSE, FALSE, TRUE, ""),
              KeyOf("server_config", FALSE, TRUE, FALSE, "limez.config") }
ListKeys == { KeyOf("list_name", FALSE, TRUE, FALSE, ""), KeyOf("subscribe", FALSE, TRUE, FALSE, "open"),
              KeyOf("descr", FALSE, FALSE, FALSE, ""), KeyOf("list_config", FALSE, TRUE, FALSE, "database") }
TheKeys  == [k \in AllKinds |-> IF k = "main" THEN MainKeys ELSE ListKeys]

Guards == [k \in AllKinds |-> CASE k = "main"       -> <<R("level", "9"), R("test", "on")>>
                                [] k = "list table" -> <<R("list_name", "news")>>
                                [] OTHER            -> <<>>]
ThisRun == [k \in AllKinds |-> IF k = "main" THEN {"level", "test"} ELSE {}]
Homes   == [k \in AllKinds |-> CASE k = "main"      -> R("server_config", "limez.config")
                                 [] k = "list file" -> R("list_config", "news.config")
                                 [] OTHER           -> R("list_config", "database")]

Firsts == [k \in AllKinds |->
  CASE k = "main"       -> {<<>>, <<R("level", "3"), R("web_hosts", "far"), R("lists", "news")>>}
    [] k = "list table" -> {<<>>, <<R("list_name", "news"), R("subscribe", "closed")>>}
    [] OTHER            -> {<<R("list_name", "news"), R("subscribe", "closed")>>}]

\* One edit writes elsewhere, one deletes what says where, one adds what is cut at a
\* quote, one what is too long, and one deletes the name of a list.
TheEdits == [k \in AllKinds |->
  IF k = "main" THEN {E("add", "lists", "talk"), E("del", "lists", "news"), E("add", "web_hosts", "near"),
                      E("del", "web_hosts", "local"), E("add", "level", "5"), E("del", "level", "9"),
                      E("add", "server_config", "else"), E("del", "server_config", "limez.config")}
  ELSE {E("add", "subscribe", "approve"), E("del", "subscribe", "approve"), E("add", "list_name", "all"),
        E("add", "descr", "all\"s"), E("add", "descr", "long"), E("del", "list_name", "news")}]

\* In a file a value ends at a quote, and a long one is refused; of the table a long one
\* is skipped.
TheReads == [k \in AllKinds |-> [x \in Texts |->
  IF x = "long" THEN NoValue ELSE IF x = "all\"s" /\ k # "list table" THEN "all" ELSE x]]

\* Bound: writes.  Nothing is claimed any more when a write was spoilt.
Bounded == version <= MaxVersion /\ ~spoilt

Alike == Permutations(TwoAdmins)
=============================================================================
