------------------------- MODULE AccountDetailsProofs -------------------------
(***************************************************************************)
(* Proofs about AccountDetails, for any editors, operators and values.     *)
(***************************************************************************)
EXTENDS AccountDetails, TLAPS

\* What the history says of an editor at work: when the row has its whole
\* patch, that has been noted.
HeldInv == \A e \in Editors : pc[e] # "idle" /\ Has(details, patch[e]) => held[e]

IInv == TypeOK /\ EditInv /\ RowValid /\ HeldInv /\ SavedWasStored

LEMMA MergedType ==
  ASSUME NEW r \in Rows, NEW p \in Patches
  PROVE  Merged(r, p) \in Rows
  BY DEF Merged, Rows, Patches

\* Applying a patch twice changes nothing more: a row that was patched has the
\* patch.
LEMMA MergedHas ==
  ASSUME NEW r, NEW p
  PROVE  Has(Merged(r, p), p)
  BY DEF Has, Merged

\* A return writes neither the row nor anyone else's edit.
LEMMA ReturnKeeps ==
  ASSUME TypeOK, EditInv, NEW e \in Editors,
         NEW answer \in {"saved", "conflict", "failed"}, Return(e, answer),
          UNCHANGED adminVars, details' \in Rows,
         held' \in [Editors -> BOOLEAN]
  PROVE  TypeOK' /\ EditInv'
  <1>1. NoPatch \in Patches /\ NoCopy \in Copies
    BY DEF NoPatch, NoCopy, Patches, Copies, Statuses
  <1>2. TypeOK'
    BY <1>1 DEF Return, TypeOK, AdminTypeOK, adminVars
  <1>3. EditInv'
    BY DEF Return, TypeOK, EditInv, Merged, Validate
  <1>. QED  BY <1>2, <1>3

LEMMA Preserved ==
  ASSUME IInv, Next
  PROVE  IInv'
  <1>0. TypeOK /\ EditInv /\ RowValid /\ HeldInv /\ SavedWasStored
    BY DEF IInv
  <1>1. ASSUME NEW e \in Editors, NEW p \in Patches, Read(e, p)
        PROVE  IInv'
    <2>1. Snapshot \in Copies
      BY <1>0 DEF Snapshot, Copies, TypeOK, Rows, AdminTypeOK
    <2>2. TypeOK'
      BY <1>0, <1>1, <2>1 DEF Read, TypeOK, AdminTypeOK, adminVars, Has
    <2>3. EditInv'
      BY <1>0, <1>1 DEF Read, Snapshot, TypeOK, EditInv, Merged, Validate
    <2>4. HeldInv' /\ SavedWasStored'
      BY <1>0, <1>1 DEF Read, HeldInv, SavedWasStored, Has, Merged, TypeOK
    <2>. QED  BY <1>0, <1>1, <2>2, <2>3, <2>4 DEF Read, IInv, RowValid
  <1>2. ASSUME NEW e \in Editors, Write(e)
        PROVE  IInv'
    <2>1. pc[e] = "update" /\ patch[e] \in Patches /\ details \in Rows
      BY <1>0, <1>2 DEF Write, TypeOK
    <2>2. details' = Merged(details, patch[e]) /\ details' \in Rows
      BY <1>2, <2>1, MergedType DEF Write
    <2>3. TypeOK' /\ EditInv'
      BY <1>0, <1>2, <2>2, ReturnKeeps DEF Write, Has, TypeOK
    <2>4. RowValid'
      <3>1. CASE Conditional(e)
        BY <1>0, <1>2, <2>1, <2>2, <3>1
        DEF Write, Unchanged, Snapshot, EditInv, RowValid, Merged, Validate
      <3>2. CASE ~Conditional(e)
        BY <1>0, <2>2, <3>2 DEF Conditional, RowValid, Merged, Validate
      <3>. QED  BY <3>1, <3>2
    <2>5. held'[e]
      BY <1>0, <1>2, <2>1, <2>2, MergedHas DEF Write, TypeOK
    <2>6. \A f \in Editors : f # e => (pc'[f] = pc[f] /\ told'[f] = told[f])
      BY <1>0, <1>2 DEF Write, Return, TypeOK
    <2>7. pc'[e] = "idle" /\ \A f \in Editors : f # e => patch'[f] = patch[f]
      BY <1>0, <1>2 DEF Write, Return, TypeOK
    <2>8. HeldInv' /\ SavedWasStored'
      BY <1>0, <1>2, <2>5, <2>6, <2>7 DEF Write, HeldInv, SavedWasStored, Has
    <2>. QED  BY <2>3, <2>4, <2>8 DEF IInv
  <1>3. ASSUME NEW e \in Editors, Miss(e)
        PROVE  IInv'
    BY <1>0, <1>3 DEF Miss, IInv, TypeOK, AdminTypeOK, EditInv, RowValid,
       HeldInv, SavedWasStored, Has, adminVars
  <1>4. ASSUME NEW e \in Editors, ReRead(e) \/ StoreError(e)
        PROVE  IInv'
    <2>1. TypeOK' /\ EditInv'
      BY <1>0, <1>4, ReturnKeeps DEF ReRead, StoreError, TypeOK
    <2>2. RowValid'
      BY <1>0, <1>4 DEF ReRead, StoreError, RowValid
    <2>3. SavedWasStored'
      BY <1>0, <1>4 DEF ReRead, StoreError, Return, HeldInv, SavedWasStored, TypeOK
    <2>4. HeldInv'
      BY <1>0, <1>4 DEF ReRead, StoreError, Return, HeldInv, Has, TypeOK
    <2>. QED  BY <2>1, <2>2, <2>3, <2>4 DEF IInv
  <1>5. CASE AdminNext /\ UNCHANGED editVars
    <2>1. AdminTypeOK'
      BY <1>0, <1>5 DEF AdminNext, Enable, Disable, Delete, Check, UpdateStatus,
         SetStatus, Target, TypeOK, AdminTypeOK, Statuses, Operations
    <2>. QED
      BY <1>0, <1>5, <2>1 DEF editVars, IInv, TypeOK, EditInv, RowValid,
         HeldInv, SavedWasStored, Has
  <1>. QED  BY <1>1, <1>2, <1>3, <1>4, <1>5 DEF Next

LEMMA Initial == Init => IInv
  <1>1. NoPatch \in Patches /\ NoCopy \in Copies
    BY DEF NoPatch, NoCopy, Patches, Copies, Statuses
  <1>2. AdminInit => AdminTypeOK
    BY DEF AdminInit, AdminTypeOK, Statuses, Operations
  <1>3. Init => TypeOK
    BY <1>1, <1>2 DEF Init, TypeOK
  <1>4. Init => EditInv /\ RowValid /\ HeldInv /\ SavedWasStored
    BY DEF Init, EditInv, RowValid, HeldInv, SavedWasStored
  <1>. QED  BY <1>3, <1>4 DEF IInv

LEMMA Always == Spec => []IInv
  <1>1. IInv /\ UNCHANGED vars => IInv'
    BY DEF IInv, TypeOK, AdminTypeOK, EditInv, RowValid, HeldInv, Has,
       SavedWasStored, vars, adminVars, editVars
  <1>. QED  BY Initial, Preserved, <1>1, PTL DEF Spec

\* Whatever edits interleave, the stored row is one Validate accepts.
THEOREM AlwaysValid == Spec => []RowValid
  <1>1. IInv => RowValid
    BY DEF IInv
  <1>. QED  BY Always, <1>1, PTL

\* An editor told "saved" - by its UPDATE or by the second read after an UPDATE
\* that affected no row - had its whole patch in the row since it read it.
THEOREM SavedIsStored == Spec => []SavedWasStored
  <1>1. IInv => SavedWasStored
    BY DEF IInv
  <1>. QED  BY Always, <1>1, PTL
=============================================================================
