---------------------------- MODULE AccountDetails ----------------------------
(***************************************************************************)
(* Editing one api_key account: AccountService.UpdateDetails and           *)
(* AccountRepo.UpdateDetails read the row, merge the patch, validate the   *)
(* merged row and UPDATE the patched columns - conditionally when the      *)
(* patch touches base_url or capabilities, the two columns whose           *)
(* combination is validated - while other editors do the same and          *)
(* operators change the status.                                            *)
(***************************************************************************)
EXTENDS AccountLifecycle

CONSTANTS Editors,
          Plain,               \* values of the columns validated by themselves:
                               \* name and api_key are one column here
          Urls,                \* base_urls the service accepts
          NoUrl,               \* base_url NULL
          Capabilities,        \* the recognised capabilities
          SystemOne,           \* the one that needs a base_url
          Keep                 \* a nil pointer in the patch

ASSUME SystemOneAssumption == SystemOne \in Capabilities
ASSUME NoUrlAssumption == NoUrl \notin Urls
ASSUME KeepAssumption ==
  /\ Keep \notin Plain \cup Urls \cup {NoUrl}
  /\ \A caps \in SUBSET Capabilities : Keep # caps

VARIABLES
  details,  \* the row's name and api_key, base_url and capabilities
  pc,       \* per editor: "idle", "update" or "reread"
  patch,    \* per editor: the AccountDetailsPatch
  copy,     \* per editor: what its UPDATE compares, as it read it
  told,     \* per editor: the answer to its last call
  held      \* per editor: the row has had its whole patch since it read (history)

editVars == <<details, pc, patch, copy, told, held>>
vars == <<adminVars, editVars>>

Rows == [plain : Plain, baseURL : Urls \cup {NoUrl},
         caps : SUBSET Capabilities]
Patches == [plain : Plain \cup {Keep}, baseURL : Urls \cup {NoUrl, Keep},
            caps : {Keep} \cup SUBSET Capabilities]
Copies == [baseURL : Urls \cup {NoUrl}, caps : SUBSET Capabilities,
           status : Statuses]

\* UpstreamAccount.Validate on an api_key row: the rule that takes two columns.
Validate(r) == SystemOne \in r.caps => r.baseURL # NoUrl

Merged(r, p) ==
  [plain   |-> IF p.plain = Keep THEN r.plain ELSE p.plain,
   baseURL |-> IF p.baseURL = Keep THEN r.baseURL ELSE p.baseURL,
   caps    |-> IF p.caps = Keep THEN r.caps ELSE p.caps]

Has(r, p) == Merged(r, p) = r

TypeOK ==
  /\ AdminTypeOK
  /\ details \in Rows
  /\ pc \in [Editors -> {"idle", "update", "reread"}]
  /\ patch \in [Editors -> Patches]
  /\ copy \in [Editors -> Copies]
  /\ told \in [Editors -> {"none", "saved", "conflict", "failed"}]
  /\ held \in [Editors -> BOOLEAN]

NoPatch == [plain |-> Keep, baseURL |-> Keep, caps |-> Keep]
NoCopy == [baseURL |-> NoUrl, caps |-> {}, status |-> "active"]
Snapshot == [baseURL |-> details.baseURL, caps |-> details.caps, status |-> status]

\* Any row that AccountRepo.Create accepts.
Init ==
  /\ AdminInit
  /\ details \in {r \in Rows : Validate(r)}
  /\ pc = [e \in Editors |-> "idle"]
  /\ patch = [e \in Editors |-> NoPatch]
  /\ copy = [e \in Editors |-> NoCopy]
  /\ told = [e \in Editors |-> "none"]
  /\ held = [e \in Editors |-> FALSE]

Return(e, answer) ==
  /\ pc' = [pc EXCEPT ![e] = "idle"]
  /\ told' = [told EXCEPT ![e] = answer]
  /\ patch' = [patch EXCEPT ![e] = NoPatch]
  /\ copy' = [copy EXCEPT ![e] = NoCopy]

ConditionalOnCapabilities(e) ==   \* a defective variant of Conditional
  patch[e].caps # Keep

\* Columns whose values the validation of the merged row depends on.
Conditional(e) == patch[e].baseURL # Keep \/ patch[e].caps # Keep

\* The WHERE clause of a conditional UPDATE: what was validated is unchanged.
Unchanged(e) == Snapshot = copy[e]

-----------------------------------------------------------------------------
(* Defective variants of definitions below.                                *)

ReReadTrusting(e) ==
  /\ pc[e] = "reread"
  /\ \/ status = copy[e].status /\ Return(e, "saved")
     \/ status # copy[e].status /\ Return(e, "conflict")
     \/ Return(e, "failed")
  /\ UNCHANGED <<adminVars, details, held>>

-----------------------------------------------------------------------------
\* GetByID, the merge and Validate: a deleted row, an empty patch or a merged
\* row that is not valid ends the call without a write.
Read(e, p) ==
  /\ pc[e] = "idle" /\ status # "deleted" /\ p # NoPatch
  /\ Validate(Merged(details, p))
  /\ pc' = [pc EXCEPT ![e] = "update"]
  /\ patch' = [patch EXCEPT ![e] = p]
  /\ copy' = [copy EXCEPT ![e] = Snapshot]
  /\ told' = [told EXCEPT ![e] = "none"]
  /\ held' = [held EXCEPT ![e] = Has(details, p)]
  /\ UNCHANGED <<adminVars, details>>

\* The UPDATE of the patched columns.
Write(e) ==
  /\ pc[e] = "update"
  /\ Conditional(e) => Unchanged(e)
  /\ details' = Merged(details, patch[e])
  /\ held' = [f \in Editors |-> held[f] \/ (pc[f] # "idle" /\ Has(details', patch[f]))]
  /\ Return(e, "saved")
  /\ UNCHANGED adminVars

\* No row is affected: the condition failed, or MySQL, which counts changed
\* rows, found nothing to change.
Miss(e) ==
  /\ pc[e] = "update"
  /\ (Conditional(e) /\ ~Unchanged(e)) \/ Has(details, patch[e])
  /\ pc' = [pc EXCEPT ![e] = "reread"]
  /\ UNCHANGED <<adminVars, details, patch, copy, told, held>>

\* The row is read again: it has the patch already, or it is a conflict.
ReRead(e) ==
  /\ pc[e] = "reread"
  /\ LET same == status = copy[e].status /\ Has(details, patch[e]) IN
       \/ same /\ Return(e, "saved")
       \/ ~same /\ Return(e, "conflict")
  /\ UNCHANGED <<adminVars, details, held>>

StoreError(e) ==
  /\ pc[e] # "idle"
  /\ Return(e, "failed")
  /\ UNCHANGED <<adminVars, details, held>>

Next ==
  \/ \E e \in Editors : \/ \E p \in Patches : Read(e, p)
                        \/ Write(e) \/ Miss(e) \/ ReRead(e) \/ StoreError(e)
  \/ AdminNext /\ UNCHANGED editVars

Spec == Init /\ [][Next]_vars

-----------------------------------------------------------------------------
\* What an editor about to write knows: its patch is valid on the base_url and
\* capabilities it read.
EditInv ==
  \A e \in Editors : pc[e] = "update" =>
    LET read == [plain |-> details.plain, baseURL |-> copy[e].baseURL,
                 caps |-> copy[e].caps]
    IN  Validate(Merged(read, patch[e]))

\* Two edits, each valid against the row it read, never combine to a row that
\* is not: System One without a base_url (the conditional UPDATE).
RowValid == Validate(details)

\* An editor that is told its edit was saved is right: since it read the row,
\* the row has held every value of its patch at once, also when its UPDATE
\* affected no row.
SavedWasStored == \A e \in Editors : told[e] = "saved" => held[e]
=============================================================================
