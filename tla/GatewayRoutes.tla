---------------------------- MODULE GatewayRoutes -----------------------------
(***************************************************************************)
(* What the data plane does with a method and a path: classifyGatewayRoute *)
(* of internal/api, the bridges registered by internal/provider, and the   *)
(* accounts an operation may use.  A WebSocket upgrade is the method "WS"; *)
(* a path is written with {id} where the code takes any segment.           *)
(***************************************************************************)
EXTENDS Naturals

\* The switch of classifySupportedGatewayRoute.
StaticRoutes ==
  { <<"WS",   "/v1/responses",                        "responses.websocket">>,
    <<"WS",   "/backend-api/codex/responses",         "native.websocket">>,
    <<"POST", "/v1/systemone",                        "systemone.create">>,
    <<"POST", "/v1/responses",                        "responses.create">>,
    <<"POST", "/v1/responses/input_tokens",           "responses.input_tokens">>,
    <<"POST", "/v1/responses/compact",                "responses.compact">>,
    <<"POST", "/v1/conversations",                    "conversations.create">>,
    <<"POST", "/v1/chat/completions",                 "chat.create">>,
    <<"GET",  "/v1/chat/completions",                 "chat.list">>,
    <<"GET",  "/v1/models",                           "models.list">>,
    <<"POST", "/backend-api/codex/responses",         "native.responses">>,
    <<"POST", "/backend-api/codex/responses/compact", "native.compact">>,
    <<"GET",  "/backend-api/codex/models",            "native.models">>,
    <<"POST", "/backend-api/transcribe",              "native.transcribe">> }

\* platformOnlyDynamicPattern.
DynamicRoutes ==
  { <<"GET",    "/v1/responses/{id}",                "responses.retrieve">>,
    <<"DELETE", "/v1/responses/{id}",                "responses.delete">>,
    <<"POST",   "/v1/responses/{id}/cancel",         "responses.cancel">>,
    <<"GET",    "/v1/responses/{id}/input_items",    "responses.input_items">>,
    <<"GET",    "/v1/conversations/{id}",            "conversations.retrieve">>,
    <<"POST",   "/v1/conversations/{id}",            "conversations.update">>,
    <<"DELETE", "/v1/conversations/{id}",            "conversations.delete">>,
    <<"POST",   "/v1/conversations/{id}/items",      "conversations.items.create">>,
    <<"GET",    "/v1/conversations/{id}/items",      "conversations.items.list">>,
    <<"GET",    "/v1/conversations/{id}/items/{id}", "conversations.items.retrieve">>,
    <<"DELETE", "/v1/conversations/{id}/items/{id}", "conversations.items.delete">>,
    <<"GET",    "/v1/chat/completions/{id}",         "chat.retrieve">>,
    <<"POST",   "/v1/chat/completions/{id}",         "chat.update">>,
    <<"DELETE", "/v1/chat/completions/{id}",         "chat.delete">>,
    <<"GET",    "/v1/chat/completions/{id}/messages", "chat.messages">>,
    <<"GET",    "/v1/models/{id}",                   "models.retrieve">> }

\* The segments of a literal path also match {id}: a GET of the compact
\* endpoint is the retrieval of a response called "compact".
Shape(path) ==
  IF path \in {"/v1/responses/input_tokens", "/v1/responses/compact"}
  THEN "/v1/responses/{id}" ELSE path

isBlockedGatewayPath(path) ==
  path \in {"/v1/organization", "/v1/organizations", "/v1/projects/{id}"}

Found(table, method, path) == {r \in table : r[1] = method /\ r[2] = path}

classifyGatewayRoute(method, path) ==
  LET static == Found(StaticRoutes, method, path)
      dynamic == IF method = "WS" THEN {}
                 ELSE Found(DynamicRoutes, method, Shape(path))
  IN CASE isBlockedGatewayPath(path) -> "blocked"
       [] ~isBlockedGatewayPath(path) /\ static # {} ->
            (CHOOSE r \in static : TRUE)[3]
       [] ~isBlockedGatewayPath(path) /\ static = {} /\ dynamic # {} ->
            (CHOOSE r \in dynamic : TRUE)[3]
       [] OTHER -> "unsupported"

NoOps == {"blocked", "unsupported"}
Ops == {r[3] : r \in StaticRoutes \cup DynamicRoutes}
WebSocketOps == {"responses.websocket", "native.websocket"}

-----------------------------------------------------------------------------
(* Which credentials a route admits, and which bridges are registered.     *)

\* platformDirectRoute, platformAndOAuthCodexRoute, oauthCodexRoute.
NativeOps == {"native.websocket", "native.responses", "native.compact",
              "native.models", "native.transcribe"}
OAuthEligible == NativeOps \cup
  {"responses.websocket", "responses.create", "responses.compact",
   "chat.create", "models.list"}
APIKeyEligible == Ops \ (NativeOps \cup {"responses.websocket"})

CredentialEligible(op, credential) ==
  op \in (IF credential = "oauth" THEN OAuthEligible ELSE APIKeyEligible)

\* defaultOperationBridges, and systemone.Bridge.
ResponsesDirect == {"responses.create", "responses.retrieve",
  "responses.delete", "responses.cancel", "responses.input_items",
  "responses.input_tokens", "responses.compact"}
ConversationsDirect == {"conversations.create", "conversations.retrieve",
  "conversations.update", "conversations.delete",
  "conversations.items.create", "conversations.items.list",
  "conversations.items.retrieve", "conversations.items.delete"}
ChatDirect == {"chat.create", "chat.list", "chat.retrieve", "chat.update",
  "chat.delete", "chat.messages"}
CodexBridges == {"responses.create", "responses.websocket",
  "responses.compact", "chat.create", "models.list", "native.responses",
  "native.websocket", "native.compact", "native.models", "native.transcribe"}

Bridges ==
  ((ResponsesDirect \cup ConversationsDirect \cup ChatDirect
      \cup {"models.list", "models.retrieve", "systemone.create"})
     \X {"api_key"})
  \cup (CodexBridges \X {"oauth"})

\* selectGatewayBridgeFromRegistry and BridgeRegistry.Resolve.
selectGatewayBridge(op, credential) ==
  CredentialEligible(op, credential) /\ <<op, credential>> \in Bridges

\* upstreamBodyAndAdapter: how the upstream's answer becomes the client's.
Adapter(op, credential, stream) ==
  CASE credential = "oauth" /\ op = "responses.create" /\ ~stream -> "collect"
    [] credential = "oauth" /\ op = "responses.compact" -> "collect"
    [] credential = "oauth" /\ op = "chat.create" /\ stream -> "chat_sse"
    [] credential = "oauth" /\ op = "chat.create" /\ ~stream -> "chat_json"
    [] OTHER -> "passthrough"

-----------------------------------------------------------------------------
(* Capabilities of API-key accounts.                                       *)

AccountKinds == [credential : {"oauth", "api_key"},
                 capabilities : SUBSET {"chat", "responses", "systemone"}]

\* The governed prefix an operation belongs to, or "free".
Group(op) ==
  CASE op \in ResponsesDirect \cup {"responses.websocket"} -> "responses"
    [] op \in ChatDirect -> "chat"
    [] op = "systemone.create" -> "systemone"
    [] OTHER -> "free"

HasCapabilityFor(account, op) ==
  \/ account.credential = "oauth"
  \/ Group(op) = "free"
  \/ Group(op) \in account.capabilities

SystemOneOnly(account) ==
  account.credential = "api_key" /\ account.capabilities = {"systemone"}

\* proxyAccountEligible without its model filter.
proxyAccountEligible(account, op) ==
  /\ op # "systemone.create" => ~SystemOneOnly(account)
  /\ CredentialEligible(op, account.credential)
  /\ HasCapabilityFor(account, op)
=============================================================================
