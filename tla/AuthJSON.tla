------------------------------ MODULE AuthJSON ------------------------------
(***************************************************************************)
(* Accounts in and out of the admin API: the auth.json document that       *)
(* carries an OAuth account from one place to another, the creation of an  *)
(* api_key account, and what the account list shows of a row.              *)
(*                                                                         *)
(* A document is [form, access, refresh, idToken, account, last]: form     *)
(* tells whether it is an object with an object "tokens", a token is a     *)
(* natural number and 0 is an empty or missing one, account is the field   *)
(* account_id ("": missing), last the field last_refresh.                  *)
(***************************************************************************)
EXTENDS ProviderAnswers

CONSTANT ImportLifetime \* the five minutes an imported token is given without an exp

\* No time, no number.
Null == -7

OAuthMethods == {"oauth_browser", "oauth_device", "oauth_import"}
NoWindow == [used |-> Null, reset |-> Null, period |-> Null]
WindowNames == {"primary", "secondary"}
NoUsage == [w \in WindowNames |-> NoWindow]

-----------------------------------------------------------------------------
(* The import *)

\* The envelope of an import: readRequestAuthJSON and what it calls.  size is the part
\* that is too large, body whether the document can be taken out of it.
readRequestAuthJSON(req) ==
  CASE req.size = "content_length"                         -> "request_body_too_large"
    [] req.size # "content_length" /\ req.type = "other"   -> "invalid_auth_json_structure"
    [] req.type # "other" /\ req.size = "envelope"         -> "request_body_too_large"
    [] req.type # "other" /\ req.size \in {"fits", "part"} /\ ~req.body ->
         "invalid_auth_json_structure"
    [] req.type # "other" /\ req.size = "part" /\ req.body -> "request_body_too_large"
    [] OTHER                                               -> "ok"

parseImportAuthJSONPayload(doc) ==
  CASE doc.form \in {"not_object", "tokens_not_object"} -> "invalid_auth_json_structure"
    [] doc.form = "no_tokens" \/ 0 \in {doc.access, doc.refresh} \/ doc.idToken.id = 0 ->
         "invalid_auth_json"
    [] OTHER -> "ok"

\* Bug: the field is not read.
deriveImportLastRefreshNow(last, now) == now
deriveImportLastRefresh(last, now) ==
  IF last \in {Absent, Unparseable} \/ last > now THEN now ELSE last

deriveImportAccessExpiresAt(exp, now) == IF exp = Absent THEN now + ImportLifetime ELSE exp

importedAccountID(doc) == firstNonEmpty(doc.idToken.account, doc.account)
importedName(doc) == firstNonEmpty(doc.idToken.email, importedAccountID(doc))

Import(doc) ==
  CASE parseImportAuthJSONPayload(doc) # "ok" -> parseImportAuthJSONPayload(doc)
    [] parseImportAuthJSONPayload(doc) = "ok" /\ (~doc.idToken.jwt \/ importedName(doc) = "") ->
         "invalid_auth_json"
    [] OTHER -> "ok"

Imported(doc, now) ==
  [method |-> "oauth_import", status |-> "active", name |-> importedName(doc),
   access |-> doc.access, refresh |-> doc.refresh, idToken |-> doc.idToken,
   email |-> doc.idToken.email, account |-> importedAccountID(doc),
   last |-> deriveImportLastRefresh(doc.last, now),
   expires |-> deriveImportAccessExpiresAt(doc.idToken.exp, now), usage |-> NoUsage]

-----------------------------------------------------------------------------
(* The export *)

buildCodexAuthJSONDocument(row) ==
  [form |-> "ok", access |-> row.access, refresh |-> row.refresh, idToken |-> row.idToken,
   account |-> row.account, last |-> row.last]

\* GetForExport: why a row cannot be exported.
GetForExport(row) ==
  CASE row.status = "deleted"                                     -> "account_not_found"
    [] row.status # "deleted" /\ row.method \notin OAuthMethods    -> "invalid_shape"
    [] row.status # "deleted" /\ row.method \in OAuthMethods
         /\ (0 \in {row.access, row.refresh} \/ row.idToken.id = 0
             \/ Null \in {row.last, row.expires})                  -> "invalid_shape"
    [] OTHER                                                      -> "ok"

\* writeExportLookupError for an invalid shape: the row as it is by then.
exportShapeError(row) ==
  CASE row.status = "deleted"                              -> "account_not_found"
    [] row.status # "deleted" /\ row.method = "api_key"     -> "not_oauth_account"
    [] OTHER                                               -> "oauth_export_read_failed"

-----------------------------------------------------------------------------
(* The admin account handlers *)

\* CreateAccount: [body, method, key, valid]; valid stands for what AccountService.Create
\* checks of the name, the provider, the base URL and the capabilities.
normaliseRequestedAuthMethod(raw) == IF raw = "" THEN "api_key" ELSE raw
CreateCode(req) ==
  LET method == normaliseRequestedAuthMethod(req.method) IN
  CASE ~req.body                                  -> 400
    [] req.body /\ method # "api_key"             -> 400
    [] req.body /\ method = "api_key" /\ ~(req.key /\ req.valid) -> 400
    [] OTHER                                      -> 201

NoToken == [id |-> 0, jwt |-> FALSE, email |-> "", account |-> "", exp |-> Absent]
Created(name) ==
  [method |-> "api_key", status |-> "active", name |-> name, access |-> 0, refresh |-> 0,
   idToken |-> NoToken, email |-> "", account |-> "",
   last |-> Null, expires |-> Null, usage |-> NoUsage]

usedPercent(v) == CASE v = Null -> Null [] v < 0 /\ v # Null -> 0 [] v > 100 -> 100 [] OTHER -> v

\* newAccountListItemResponse: an api_key row shows nothing of OAuth.
newAccountListItemResponse(row) ==
  LET oauth == row.method # "api_key" IN
  [name |-> row.name, method |-> row.method, status |-> row.status,
   email |-> IF oauth THEN row.email ELSE "", account |-> IF oauth THEN row.account ELSE "",
   last |-> IF oauth THEN row.last ELSE Null,
   usage |-> IF oauth THEN [w \in DOMAIN row.usage |-> [row.usage[w] EXCEPT !.used = usedPercent(@)]]
             ELSE NoUsage]
=============================================================================
