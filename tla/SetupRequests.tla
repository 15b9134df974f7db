--------------------------- MODULE SetupRequests ---------------------------
(***************************************************************************)
(* What the wizard and the settings page may store: the checks of          *)
(* internal/setup/validator.go, of the wizard's handler, and of the        *)
(* settings patch.  Strings are reduced to their length or to the class    *)
(* the checks tell apart; an error is its symbol in errcode.               *)
(***************************************************************************)
EXTENDS Naturals, Sequences, FiniteSets, FiniteSetsExt

DSNMaxLen == 4096
APIKeyMaxLen == 256
RetentionMin == 1
RetentionMax == 365
MaxModelRenameRules == 32

SupportedDrivers == {"sqlite3", "postgres", "mysql"}
SupportedLogLevels == {"debug", "info", "warn", "error"}
RuntimeFlags == {"log_client_request_body", "log_upstream_request_body",
                 "log_upstream_response_body"}
RuntimeKeys == RuntimeFlags \cup {"log_retention_days", "log_level"}
PluginIDs == {"admin_auth", "client_keys"}
Schemes == {"http", "https", "socks5", "socks5h"}

\* The error of the first check that fails; each is <<passes, error>>.
FirstError(checks) ==
  LET failed == {i \in DOMAIN checks : ~ checks[i][1]}
  IN  IF failed = {} THEN "ok" ELSE checks[Min(failed)][2]

ValidRetention(days) == days \in RetentionMin .. RetentionMax

\* AccountRequestBlock.IsEmpty: the operator skips the first account.
NoAccount == [name |-> "", provider |-> "", key |-> 0, base |-> "none"]

\* name: "" (or blank), "bad" (too long, control characters), or a valid name;
\* base: "none", "ok", "bad"; key and url are lengths.
AccountChecks(acct) ==
  << <<acct.name \notin {"", "bad"}, "invalid_account_name">>,
     <<acct.provider = "openai", "invalid_account_provider">>,
     <<acct.key \in 1 .. APIKeyMaxLen, "invalid_api_key">>,
     <<acct.base # "bad", "invalid_base_url">> >>

\* RuntimeRequired and RuntimeFields; rt is a function on the keys sent.
RuntimeChecks(rt) ==
  << <<RuntimeKeys \subseteq DOMAIN rt, "malformed_body">>,
     <<"log_retention_days" \in DOMAIN rt => ValidRetention(rt["log_retention_days"]),
       "invalid_retention">>,
     <<"log_level" \in DOMAIN rt => rt["log_level"] \in SupportedLogLevels,
       "invalid_log_level">> >>

\* Validator.Commit.
CommitError(body) ==
  FirstError(
    << <<body.driver \in SupportedDrivers, "invalid_driver">>,
       <<body.url \in 1 .. DSNMaxLen, "invalid_dsn">> >>
    \o (IF body.account = NoAccount THEN <<>> ELSE AccountChecks(body.account))
    \o (IF body.runtime = <<>> THEN <<>> ELSE RuntimeChecks(body.runtime)))

\* validatePluginBlock: both plugins, each with a boolean `enabled`, and no other.
\* plugins is a function on the identifiers sent.
PluginChecks(plugins) ==
  << <<DOMAIN plugins \subseteq PluginIDs, "invalid_plugin_flag">>,
     <<PluginIDs \subseteq DOMAIN plugins, "invalid_plugin_flag">>,
     <<\A id \in DOMAIN plugins : plugins[id] \in {"true", "false"},
       "invalid_plugin_flag">> >>

\* decodeJSON, then the plugins object, which must be there.
BodyError(body) ==
  FirstError(
    << <<body.decode # "too_large", "request_body_too_large">>,
       <<body.decode = "ok", "malformed_body">>,
       <<DOMAIN body.plugins # {}, "malformed_body">> >>
    \o PluginChecks(body.plugins))

\* ApplyRuntimeDefaults.
RetentionOf(body) ==
  IF body.runtime = <<>> THEN 30 ELSE body.runtime["log_retention_days"]

-----------------------------------------------------------------------------
\* decodeModelRenameRules: a rule is [from, to], model names after trimming;
\* "" is empty, "long" exceeds the limit.
RuleError(rules, i) ==
  FirstError(
    << <<rules[i].from # "", "invalid_model_rename">>,
       <<rules[i].to # "", "invalid_model_rename">>,
       <<rules[i].from # "long" /\ rules[i].to # "long", "invalid_model_rename">>,
       <<rules[i].from # rules[i].to, "invalid_model_rename">>,
       <<\A j \in 1 .. i - 1 : rules[j].from # rules[i].from, "invalid_model_rename">> >>)

RenamesError(rules) ==
  FirstError(<< <<Len(rules) <= MaxModelRenameRules, "invalid_model_rename">> >>
             \o [i \in 1 .. Len(rules) |->
                   <<RuleError(rules, i) = "ok", "invalid_model_rename">>])

\* ParseAndValidate: blank clears the proxy; otherwise a supported scheme and a host.
NoProxy == [scheme |-> "", host |-> ""]
ProxyOK(url) == url = NoProxy \/ (url.scheme \in Schemes /\ url.host # "")

\* One member of the patch: its block, key and value.  JSON booleans are written
\* as text, since null counts as false here; a null proxy has the scheme "null".
RuntimeItem(key, value) ==
  CASE key \in RuntimeFlags ->
         IF value \in {"true", "false", "null"} THEN "ok" ELSE "malformed_body"
    [] key = "log_retention_days" ->
         IF ValidRetention(value) THEN "ok" ELSE "invalid_retention"
    [] key = "log_level" ->
         IF value \in SupportedLogLevels THEN "ok" ELSE "invalid_log_level"
    [] key = "model_renames" -> RenamesError(value)
    [] OTHER -> "unknown_config_key"

PluginItem(id, value) ==
  CASE value \notin {"true", "false", "null"} -> "invalid_plugin_flag"
    [] id \notin PluginIDs -> "unknown_config_key"
    [] OTHER -> "ok"

NetworkItem(key, value) ==
  CASE key # "proxy_url" -> "unknown_config_key"
    [] value.scheme = "null" -> "malformed_body"
    [] ~ ProxyOK(value) -> "invalid_proxy_url"
    [] OTHER -> "ok"

ItemError(item) ==
  CASE item.block = "runtime" -> RuntimeItem(item.key, item.value)
    [] item.block = "plugins" -> PluginItem(item.key, item.value)
    [] item.block = "network" -> NetworkItem(item.key, item.value)
    [] OTHER -> "unknown_config_key"

BlockOrder(block) == CASE block = "runtime" -> 1 [] block = "plugins" -> 2
                       [] block = "network" -> 3 [] OTHER -> 0

\* parseAndValidatePatch: the blocks in order, the members of one in any order.
PatchErrors(patch) ==
  LET bad == {i \in patch : ItemError(i) # "ok"}
      first == {i \in bad : \A j \in bad : BlockOrder(i.block) <= BlockOrder(j.block)}
  IN  {ItemError(i) : i \in first}

\* applyPatch on the settings that are modelled.
applyPatch(set, patch) ==
  [k \in DOMAIN set |->
     LET key == [retention |-> "log_retention_days", renames |-> "model_renames",
                 proxy |-> "proxy_url"][k]
         hit == {i \in patch : i.key = key}
     IN  IF hit = {} THEN set[k] ELSE (CHOOSE i \in hit : TRUE).value]
=============================================================================
