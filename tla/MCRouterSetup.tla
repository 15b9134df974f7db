--------------------------- MODULE MCRouterSetup ---------------------------
(* Small instances of RouterSetup. *)
EXTENDS RouterSetup, TLC

CONSTANTS d1, d2

TwoDBs == {d1, d2}
RetentionValues == {1, 30, 365}
Rule == [from |-> "gpt-a", to |-> "gpt-b"]
RenameValues == {<<>>, <<Rule>>}
AProxy == [scheme |-> "socks5", host |-> "h"]
ProxyValues == {NoProxy, AProxy}

Plugins == [id \in PluginIDs |-> "false"]
Account == [name |-> "first", provider |-> "openai", key |-> 256, base |-> "none"]
Runtime == [k \in RuntimeKeys |->
              CASE k = "log_retention_days" -> 365 [] k = "log_level" -> "warn"
                [] OTHER -> "true"]

Seeded(d) == [decode |-> "ok", plugins |-> Plugins, driver |-> "sqlite3", url |-> 9,
              db |-> d, account |-> Account, runtime |-> <<>>]
Skipped == [Seeded(d1) EXCEPT !.account = NoAccount, !.runtime = Runtime]
\* A valid body for each database, one without account, and some that each fail
\* a different check, two of them behind the lock.
SomeBodies ==
  {Seeded(d1), Seeded(d2), Skipped,
   [Seeded(d1) EXCEPT !.decode = "too_large"],
   [Seeded(d1) EXCEPT !.plugins = [id \in {"admin_auth"} |-> "true"]],
   [Seeded(d1) EXCEPT !.account.key = 257],
   [Skipped EXCEPT !.runtime = [@ EXCEPT !["log_retention_days"] = 366]]}

Item(b, k, v) == [block |-> b, key |-> k, value |-> v]
SomePatches ==
  {{Item("runtime", "log_retention_days", 1)},
   {Item("runtime", "model_renames", <<Rule>>)},
   {Item("network", "proxy_url", AProxy), Item("runtime", "log_retention_days", 365)},
   {Item("runtime", "log_retention_days", 0), Item("network", "proxy_url", AProxy)},
   {Item("runtime", "model_renames", <<Rule, Rule>>)},
   {Item("db", "url", 0), Item("runtime", "log_level", "loud")}}

=============================================================================
