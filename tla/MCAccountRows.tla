--------------------------- MODULE MCAccountRows ---------------------------
(* Model-checking instance of AccountRows.                               *)
EXTENDS AccountRows

Id(n, jwt, email, account, exp) ==
  [id |-> n, jwt |-> jwt, email |-> email, account |-> account, exp |-> exp]
Doc(form, access, idToken, account, last) ==
  [form |-> form, access |-> access, refresh |-> 1, idToken |-> idToken, account |-> account,
   last |-> last]
Request(size, type, body, doc) == [size |-> size, type |-> type, body |-> body, doc |-> doc]

\* Its last refresh lies in the future until time 2.
Whole == Doc("ok", 1, Id(1, TRUE, "ann", "org", 9), "org", 2)
Bare == Doc("ok", 1, Id(1, TRUE, "", "", Absent), "org", 99)

\* A document that is taken, and what is refused, for the envelope and for the document.
OneImport ==
  { Request("fits", "json", TRUE, Whole), Request("part", "multipart", TRUE, Whole),
    Request("fits", "other", TRUE, Whole),
    Request("fits", "json", TRUE, Doc("no_tokens", 0, Id(0, FALSE, "", "", Absent), "", Absent)) }
\* One more is taken, whose identity is only account_id; the other refusals.
MCImports ==
  OneImport \cup
  { Request("fits", "multipart", TRUE, Bare),
    Request("content_length", "json", TRUE, Whole), Request("envelope", "json", TRUE, Whole),
    Request("fits", "json", FALSE, Whole),
    Request("fits", "json", TRUE, Doc("ok", 0, Id(1, TRUE, "ann", "", Absent), "", Absent)),
    Request("fits", "json", TRUE, Doc("not_object", 0, Id(0, FALSE, "", "", Absent), "", Absent)) }

MCCreates ==
  { [body |-> TRUE, method |-> "", key |-> TRUE, valid |-> TRUE, name |-> "key"],
    [body |-> TRUE, method |-> "oauth_import", key |-> TRUE, valid |-> TRUE, name |-> "key"],
    [body |-> FALSE, method |-> "", key |-> FALSE, valid |-> FALSE, name |-> ""] }

\* Two states are told apart by what their futures and the properties depend on.  Nothing
\* depends on the last answer of the admin API; of what is only shown (the exported document,
\* the usage of the rows) and of the history the verdicts of the properties matter, and the
\* answer that is being judged; a deleted row shows nothing, and an anchor that is over, or
\* of an account the refresher will not ask about again, is none.  Whether the first account
\* has a primary window is kept, for what a partial write would do to it.
Seen(id) ==
  IF rows[id].status = "deleted" THEN "deleted"
  ELSE [rows[id] EXCEPT !.usage = id = 1 /\ @["primary"] # NoWindow,
                        !.last = IF @ < now THEN "past" ELSE "now", !.expires = @ = Null]
Asked(id) ==
  \/ id \in DOMAIN rows /\ rows[id].status # "deleted"
  \/ \E i \in DOMAIN pass.todo : pass.todo[i] = id
Anchors(id) == [w \in Windows |-> IF Asked(id) /\ Anchored(id, w) THEN anchor[id][w] ELSE Null]
Given == IF pass.id = 0 THEN NoUsage ELSE told[Head(pass.todo)].given
View == <<[id \in DOMAIN rows |-> Seen(id)], now, exporting,
          [pass EXCEPT !.answer.spent = 0, !.answer.unspent = 0], nextTick,
          [id \in Ids |-> Anchors(id)], {id \in used : Asked(id)}, Given,
          RoundTrip, ExportImportable, ProbesRolling, UsageTruthful>>

OneRenewal == { Id(2, TRUE, "ann", "", 9) }
MCRenewals == { Id(2, TRUE, "", "", Absent), Id(2, TRUE, "ann", "org", 9) }
MCUnspent == {0, -1}
MCSkew == -1
MCPeriod == [w \in {"primary", "secondary"} |-> IF w = "primary" THEN 3 ELSE 20]
=============================================================================
