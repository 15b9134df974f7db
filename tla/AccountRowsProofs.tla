--------------------------- MODULE AccountRowsProofs ---------------------------
(***************************************************************************)
(* What AccountRows keeps true for every number of accounts, every set of  *)
(* requests, every skew of the clocks and delay of the answers that        *)
(* ClockAssumption admits, and every interleaving of the admin API with    *)
(* the usage refresher.                                                    *)
(***************************************************************************)
EXTENDS AccountRows, WellFoundedInduction, FiniteSetTheorems, SequenceTheorems, TLAPS

N == Cardinality(Ids)

\* Usages, as the provider reports them.
Usages == [WindowNames -> [used : Int, reset : Int, period : Int]]

RowFields == {"method", "status", "name", "access", "refresh", "idToken", "email",
              "account", "last", "expires", "usage"}

\* A row keeps the claims of its id_token, and its last refresh is a time in the past.
RowSound(row, t) ==
  /\ DOMAIN row = RowFields
  /\ row.last \in Int \ {Absent, Unparseable} /\ row.last <= t
  /\ row.email = row.idToken.email
  /\ row.idToken.account # "" => row.account = row.idToken.account

RowsInv ==
  /\ Len(rows) \in Nat /\ Len(rows) <= N /\ DOMAIN rows = 1 .. Len(rows)
  /\ rows = [i \in 1 .. Len(rows) |-> rows[i]]
  /\ \A id \in 1 .. Len(rows) : RowSound(rows[id], now) /\ rows[id].usage = told[id].usage

\* The document and the row it came from say the same.
ExportInv ==
  exported.doc # NoDoc =>
    LET d == exported.doc IN
    /\ exported.row = [access |-> d.access, refresh |-> d.refresh, idToken |-> d.idToken,
                       email |-> d.idToken.email, account |-> d.account, last |-> d.last]
    /\ d.last \in Int \ {Absent, Unparseable} /\ d.last <= now
    /\ d.idToken.account # "" => d.account = d.idToken.account

ToldFields == {"given", "usage", "judged", "rolling", "probed"}
ToldInv ==
  /\ told = [id \in Ids |-> told[id]]
  /\ \A id \in Ids : /\ DOMAIN told[id] = ToldFields /\ told[id].usage \in Usages
                     /\ id > Len(rows) => told[id].usage = NoUsage
                     /\ told[id].judged => told[id].probed = told[id].rolling

\* The time a pass may take while n accounts are left of it.
Budget(n) == MaxDelay * (N - n)
\* When the last pass began.
Began == nextTick - Interval
Left(id) == \E i \in 1 .. Len(pass.todo) : pass.todo[i] = id

PassFields == {"todo", "id", "at", "usage", "answer", "rolling"}
PassInv ==
  /\ DOMAIN pass = PassFields
  /\ pass.todo \in Seq(1 .. Len(rows)) /\ Len(pass.todo) <= N
  /\ \A i, j \in 1 .. Len(pass.todo) : pass.todo[i] = pass.todo[j] => i = j
  /\ pass.id # 0 => Len(pass.todo) > 0 /\ pass.id = pass.todo[1] /\ pass.usage \in Usages
                     /\ told[pass.id].given = pass.usage
  /\ pass.rolling \in BOOLEAN

ClockInv ==
  /\ now \in Nat /\ nextTick \in Int /\ pass.at \in Int
  /\ Len(pass.todo) > 0 =>
       /\ Began <= now
       /\ pass.id = 0 => now <= Began + Budget(Len(pass.todo))
       /\ pass.id # 0 => /\ Began <= pass.at /\ pass.at <= Began + Budget(Len(pass.todo))
                         /\ pass.at <= now /\ now <= pass.at + MaxDelay

\* An anchored window of an account without usage was anchored by a probe, in the
\* last pass at the latest, and before it if the account's turn is still to come.
AnchorInv ==
  /\ anchor \in [Ids -> [Windows -> Int]]
  /\ \A id \in Ids \ used : \A w \in Windows :
       Anchored(id, w) =>
         /\ anchor[id][w] <= Began + Budget(0) + Skew + Period[w]
         /\ Left(id) => anchor[id][w] <= Began - Interval + Budget(0) + Skew + Period[w]

\* What the answer about the current account says of its windows.
Rolls(w) ==
  /\ pass.usage[w].used <= 0 /\ pass.usage[w].reset = pass.at + Skew + Period[w]
  /\ pass.usage[w].period = Period[w]
Fixed(w) ==
  \/ pass.usage[w].used > 0
  \/ /\ pass.usage[w].reset # Null /\ pass.usage[w].period = Period[w]
     /\ pass.usage[w].reset + resetAnchorTolerance < pass.at + Period[w]
AnswerInv ==
  pass.id # 0 /\ pass.answer.complete =>
    /\ pass.answer.rated /\ pass.answer.shown \subseteq Windows
    /\ pass.rolling => \E w \in pass.answer.shown : Rolls(w)
    /\ ~ pass.rolling => \A w \in pass.answer.shown : Fixed(w)

IInv == RowsInv /\ ExportInv /\ ToldInv /\ PassInv /\ ClockInv /\ AnchorInv /\ AnswerInv

-----------------------------------------------------------------------------
(* Lemmas *)

LEMMA Numbers == N \in Nat /\ Ids = 1 .. N
BY IdsAssumption, FS_CardinalityType DEF N

LEMMA Budgets ==
  /\ Budget(0) \in Int
  /\ \A n \in 1 .. N : /\ Budget(n) \in Int /\ Budget(n) >= 0 /\ n - 1 \in 0 .. N
                       /\ Budget(n - 1) = Budget(n) + MaxDelay
                       /\ Budget(n) + MaxDelay <= Budget(0)
<1>1. N \in Nat /\ MaxDelay \in Nat
  BY Numbers, TypesAssumption
<1>2. \A a, b \in Nat : a * b \in Nat /\ a * (b + 1) = a * b + a
  OBVIOUS
<1>3. \A a, b, c \in Nat : a * (b + c) = a * b + a * c
  OBVIOUS
<1>4. Budget(0) \in Int
  BY <1>1, <1>2 DEF Budget
<1>5. ASSUME NEW n \in 1 .. N
      PROVE  /\ Budget(n) \in Int /\ Budget(n) >= 0 /\ n - 1 \in 0 .. N
             /\ Budget(n - 1) = Budget(n) + MaxDelay
             /\ Budget(n) + MaxDelay <= Budget(0)
  <2>1. /\ N - n \in Nat /\ N - (n - 1) = (N - n) + 1 /\ n - 1 \in 0 .. N /\ n - 1 \in Nat
        /\ N - 0 = ((N - n) + 1) + (n - 1)
    BY <1>1
  <2>2. /\ Budget(n) \in Nat
        /\ Budget(n - 1) = Budget(n) + MaxDelay
    BY <1>1, <1>2, <2>1 DEF Budget
  <2>3. Budget(0) = MaxDelay * ((N - n) + 1) + MaxDelay * (n - 1)
    BY <1>1, <1>3, <2>1 DEF Budget
  <2>4. MaxDelay * (n - 1) \in Nat /\ MaxDelay * ((N - n) + 1) = Budget(n) + MaxDelay
    BY <1>1, <1>2, <2>1 DEF Budget
  <2> QED BY <1>1, <2>1, <2>2, <2>3, <2>4
<1> QED BY <1>4, <1>5

\* The numbers that stand for what is missing are no times.
LEMMA Marks == Absent \notin Nat /\ Unparseable \notin Nat /\ Null \notin Nat /\ Null \in Int
BY DEF Absent, Unparseable, Null

LEMMA SoundLater == ASSUME NEW row, NEW t \in Int, NEW u \in Int, t <= u, RowSound(row, t)
                    PROVE  RowSound(row, u)
<1>1. row.last \in Int /\ row.last <= t
  BY DEF RowSound
<1>2. row.last <= u
  BY <1>1
<1> QED BY <1>2, Zenon DEF RowSound

LEMMA CreatedSound == ASSUME NEW name, NEW t \in Nat
                      PROVE  RowSound(Created(name), t) /\ Created(name).usage = NoUsage
<1> DEFINE row == Created(name)
<1>1. /\ row.last = Null /\ row.usage = NoUsage /\ row.email = "" /\ row.account = ""
      /\ row.idToken.email = "" /\ row.idToken.account = ""
  BY DEF Created, NoToken
<1>2. Null \in Int \ {Absent, Unparseable} /\ Null <= t
  BY DEF Null, Absent, Unparseable
<1>3. DOMAIN row = RowFields
  BY DEF Created, RowFields
<1> HIDE DEF row
<1>4. RowSound(row, t) /\ row.usage = NoUsage
  BY <1>1, <1>2, <1>3 DEF RowSound
<1> QED BY <1>4 DEF row

LEMMA ImportedSound ==
  ASSUME NEW doc, doc.last \in Int, NEW t \in Nat
  PROVE  RowSound(Imported(doc, t), t) /\ Imported(doc, t).usage = NoUsage
<1> DEFINE row == Imported(doc, t)
<1>1. row.last \in Int \ {Absent, Unparseable} /\ row.last <= t
  <2>1. row.last = deriveImportLastRefresh(doc.last, t)
    BY DEF Imported
  <2> QED BY <2>1, Marks DEF deriveImportLastRefresh
<1>2. row.email = row.idToken.email /\ row.idToken = doc.idToken /\ row.usage = NoUsage
  BY DEF Imported
<1>3. row.idToken.account # "" => row.account = row.idToken.account
  BY DEF Imported, importedAccountID, firstNonEmpty
<1>4. DOMAIN row = RowFields
  BY DEF Imported, RowFields
<1> QED BY <1>1, <1>2, <1>3, <1>4 DEF RowSound

\* Steps of the admin API: the refresher and the clock stand still.
LEMMA RefresherKept ==
  ASSUME IInv, UNCHANGED <<now, refresher>>, Len(rows') \in Nat, Len(rows) <= Len(rows')
  PROVE  ToldInv' /\ PassInv' /\ ClockInv' /\ AnchorInv' /\ AnswerInv'
<1>1. UNCHANGED <<now, pass, nextTick, anchor, used, told>>
  BY DEF refresher
<1>2. ToldInv'
  BY <1>1, Numbers DEF IInv, ToldInv, RowsInv
<1>3. PassInv'
  <2>1. pass.todo \in Seq(1 .. Len(rows'))
    BY DEF IInv, PassInv, RowsInv
  <2> QED BY <1>1, <2>1 DEF IInv, PassInv
<1>4. ClockInv'
  BY <1>1 DEF IInv, ClockInv, Began
<1>5. AnchorInv'
  <2>1. AnchorInv
    BY DEF IInv
  <2>2. Began' = Began /\ (\A id : Left(id)' <=> Left(id))
        /\ (\A id, w : Anchored(id, w)' <=> Anchored(id, w))
    BY <1>1 DEF Began, Left, Anchored
  <2> QED BY <1>1, <2>1, <2>2 DEF AnchorInv
<1>6. AnswerInv'
  BY <1>1 DEF IInv, AnswerInv, Rolls, Fixed
<1> QED BY <1>2, <1>3, <1>4, <1>5, <1>6

LEMMA Inserted ==
  ASSUME IInv, NEW row, RowSound(row, now), row.usage = NoUsage, CanInsert, Insert(row),
         UNCHANGED <<now, told>>
  PROVE  RowsInv' /\ Len(rows') = Len(rows) + 1
<1> DEFINE n == Len(rows)
           Row == {rows[i] : i \in 1 .. n} \cup {row}
<1>1. n \in Nat /\ n + 1 \in Ids /\ n + 1 <= N
  BY Numbers DEF IInv, RowsInv, CanInsert
<1>2. rows \in Seq(Row) /\ row \in Row
  BY DEF IInv, RowsInv
<1>3. /\ rows' \in Seq(Row) /\ Len(rows') = n + 1 /\ rows'[n + 1] = row
      /\ \A i \in 1 .. n : rows'[i] = rows[i]
  BY <1>1, <1>2 DEF Insert
<1>4. told[n + 1].usage = NoUsage
  BY <1>1, Numbers DEF IInv, ToldInv
<1>5. ASSUME NEW id \in 1 .. n + 1
      PROVE  RowSound(rows'[id], now) /\ rows'[id].usage = told[id].usage
  <2>1. CASE id = n + 1
    BY <1>3, <1>4, <2>1
  <2>2. CASE id \in 1 .. n
    BY <1>3, <2>2 DEF IInv, RowsInv
  <2> QED BY <1>1, <2>1, <2>2
<1> HIDE DEF Row
<1>6. DOMAIN rows' = 1 .. Len(rows') /\ rows' = [i \in 1 .. Len(rows') |-> rows'[i]]
  BY <1>3
<1> QED BY <1>1, <1>3, <1>5, <1>6 DEF RowsInv

-----------------------------------------------------------------------------
(* The admin API *)

LEMMA RowsSame ==
  ASSUME RowsInv, UNCHANGED <<rows, told, now>>
  PROVE  RowsInv'
BY DEF RowsInv

LEMMA ExportSame ==
  ASSUME ExportInv, exported' = exported, now \in Int, now' \in Int, now <= now'
  PROVE  ExportInv'
<1> SUFFICES ASSUME exported.doc # NoDoc PROVE ExportInv'
  BY DEF ExportInv
<1>1. exported.doc.last \in Int /\ exported.doc.last <= now
  BY Zenon DEF ExportInv
<1>2. exported.doc.last <= now'
  BY <1>1
<1> QED BY <1>2, Zenon DEF ExportInv

LEMMA CreateStep == ASSUME IInv, CreateAccount \/ ImportAuthJSON PROVE IInv'
<1>1. UNCHANGED <<now, exported, refresher>>
  BY DEF CreateAccount, ImportAuthJSON
<1>2. now \in Nat /\ UNCHANGED told
  BY <1>1 DEF IInv, ClockInv, refresher
<1>3. ExportInv'
  BY <1>1, <1>2, ExportSame DEF IInv
<1>4. CASE UNCHANGED rows
  <2>1. RowsInv'
    BY <1>1, <1>2, <1>4, RowsSame DEF IInv
  <2> QED BY <1>1, <1>3, <1>4, <2>1, RefresherKept DEF IInv, RowsInv
<1>5. ASSUME NEW row, RowSound(row, now), row.usage = NoUsage, CanInsert, Insert(row)
      PROVE  IInv'
  <2>1. RowsInv' /\ Len(rows') = Len(rows) + 1
    BY <1>1, <1>2, <1>5, Inserted
  <2> QED BY <1>1, <1>3, <2>1, RefresherKept DEF IInv, RowsInv
<1>6. CASE CreateAccount
  <2>1. UNCHANGED rows \/ \E req \in Creates : CanInsert /\ Insert(Created(req.name))
    BY <1>6 DEF CreateAccount
  <2> QED BY <1>2, <1>4, <1>5, <2>1, CreatedSound
<1>7. CASE ImportAuthJSON
  <2>1. UNCHANGED rows \/ \E req \in Imports : CanInsert /\ Insert(Imported(req.doc, now))
    BY <1>7 DEF ImportAuthJSON
  <2> QED BY <1>2, <1>4, <1>5, <2>1, ImportedSound, TypesAssumption
<1> QED BY <1>6, <1>7

LEMMA ExportStep ==
  ASSUME IInv, NEW i \in Ids, ExportAuthJSON(i) \/ writeExportLookupError PROVE IInv'
<1>1. UNCHANGED <<now, rows, refresher>>
  BY DEF ExportAuthJSON, writeExportLookupError
<1>2. now \in Nat /\ UNCHANGED told
  BY <1>1 DEF IInv, ClockInv, refresher
<1>3. RowsInv'
  BY <1>1, <1>2, RowsSame DEF IInv
<1>4. ExportInv'
  <2>1. CASE exported' = exported
    BY <1>1, <1>2, <2>1, ExportSame DEF IInv
  <2>2. ASSUME NEW id \in DOMAIN rows,
               exported' = [doc |-> buildCodexAuthJSONDocument(rows[id]),
                            row |-> Credentials(rows[id])]
        PROVE  ExportInv'
    <3> DEFINE d == exported'.doc
               r == rows[id]
    <3>1. /\ r.last \in Int \ {Absent, Unparseable} /\ r.last <= now
          /\ r.email = r.idToken.email
          /\ r.idToken.account # "" => r.account = r.idToken.account
      BY DEF IInv, RowsInv, RowSound
    <3>2. /\ d.access = r.access /\ d.refresh = r.refresh /\ d.idToken = r.idToken
          /\ d.account = r.account /\ d.last = r.last
      BY <2>2 DEF buildCodexAuthJSONDocument
    <3>3. exported'.row = [access |-> d.access, refresh |-> d.refresh, idToken |-> d.idToken,
                           email |-> d.idToken.email, account |-> d.account, last |-> d.last]
      BY <2>2, <3>1, <3>2 DEF Credentials
    <3> QED BY <1>1, <3>1, <3>2, <3>3 DEF ExportInv
  <2>3. \/ exported' = exported
        \/ \E id \in DOMAIN rows :
             exported' = [doc |-> buildCodexAuthJSONDocument(rows[id]),
                          row |-> Credentials(rows[id])]
    BY DEF ExportAuthJSON, writeExportLookupError, GetForExport
  <2> QED BY <2>1, <2>2, <2>3
<1> QED BY <1>1, <1>3, <1>4, RefresherKept DEF IInv, RowsInv

\* One row is replaced by a sound one with the usage that the history has for it.
LEMMA RowReplaced ==
  ASSUME RowsInv, NEW id \in 1 .. Len(rows), NEW row, RowSound(row, now),
         rows' = [rows EXCEPT ![id] = row], now' = now,
         row.usage = told'[id].usage, \A i \in 1 .. Len(rows) : i # id => told'[i] = told[i]
  PROVE  RowsInv' /\ Len(rows') = Len(rows)
<1> DEFINE n == Len(rows)
           Row == {rows[i] : i \in 1 .. n} \cup {row}
<1>1. n \in Nat /\ rows \in Seq(Row)
  BY DEF RowsInv
<1>2. rows' \in Seq(Row) /\ Len(rows') = n
  BY <1>1
<1>3. rows'[id] = row /\ \A i \in 1 .. n : i # id => rows'[i] = rows[i]
  BY <1>1
<1> HIDE DEF Row
<1>4. DOMAIN rows' = 1 .. n /\ rows' = [i \in 1 .. n |-> rows'[i]]
  <2>1. rows = [i \in 1 .. n |-> rows[i]]
    BY DEF RowsInv
  <2>2. rows' = [i \in 1 .. n |-> IF i = id THEN row ELSE rows[i]]
    BY <2>1
  <2> QED BY <2>2
<1>5. ASSUME NEW i \in 1 .. n
      PROVE  RowSound(rows'[i], now) /\ rows'[i].usage = told'[i].usage
  BY <1>3, <1>5 DEF RowsInv
<1> QED BY <1>1, <1>2, <1>4, <1>5 DEF RowsInv

LEMMA StatusStep == ASSUME IInv, NEW id \in DOMAIN rows, SetStatus(id) PROVE IInv'
<1>1. UNCHANGED <<now, exported, refresher>> /\ id \in 1 .. Len(rows)
  BY DEF SetStatus, IInv, RowsInv
<1>2. now \in Nat /\ UNCHANGED told
  BY <1>1 DEF IInv, ClockInv, refresher
<1>3. ExportInv'
  BY <1>1, <1>2, ExportSame DEF IInv
<1>4. CASE UNCHANGED rows
  BY <1>1, <1>2, <1>3, <1>4, RowsSame, RefresherKept DEF IInv, RowsInv
<1>5. ASSUME NEW status, rows' = [rows EXCEPT ![id].status = status] PROVE IInv'
  <2> DEFINE old == rows[id]
             row == [old EXCEPT !.status = status]
  <2>1. RowSound(old, now) /\ old.usage = told[id].usage
    BY <1>1 DEF IInv, RowsInv
  <2>2. DOMAIN old = RowFields
    BY <2>1 DEF RowSound
  <2>3. /\ DOMAIN row = RowFields /\ row.last = old.last /\ row.email = old.email
        /\ row.idToken = old.idToken /\ row.account = old.account /\ row.usage = old.usage
    BY <2>2 DEF RowFields
  <2>4. rows' = [rows EXCEPT ![id] = row]
    BY <1>5
  <2> HIDE DEF row
  <2>5. RowSound(row, now)
    BY <2>1, <2>3 DEF RowSound
  <2>6. row.usage = told'[id].usage
    BY <1>2, <2>1, <2>3
  <2>7. RowsInv' /\ Len(rows') = Len(rows)
    BY <1>1, <1>2, <2>4, <2>5, <2>6, RowReplaced DEF IInv
  <2> QED BY <1>1, <1>3, <2>7, RefresherKept DEF IInv, RowsInv
<1> QED BY <1>4, <1>5 DEF SetStatus

-----------------------------------------------------------------------------
(* The order of a pass *)

LEMMA Least ==
  ASSUME NEW S, S # {}, S \subseteq Nat PROVE \E m \in S : \A x \in S : m <= x
<1> DEFINE R == OpToRel(<, Nat)
<1>1. \E m \in S : \A x \in S : ~ (<<x, m>> \in R)
  BY NatLessThanWellFounded, WFMin
<1>2. PICK m \in S : \A x \in S : ~ (<<x, m>> \in R)
  BY <1>1
<1>3. \A x \in S : ~ (x < m)
  BY <1>2, Zenon DEF OpToRel
<1> QED BY <1>3

\* A finite set of numbers can be put in order: the least first, then the others.
LEMMA AscendingExists ==
  ASSUME NEW S, IsFiniteSet(S), S \subseteq Nat
  PROVE  \E f \in [1 .. Cardinality(S) -> S] :
           \A i, j \in 1 .. Cardinality(S) : i < j => f[i] < f[j]
<1> DEFINE Orders(t, n) == {f \in [1 .. n -> t] : \A i, j \in 1 .. n : i < j => f[i] < f[j]}
           Sized(n) == {t \in SUBSET S : IsFiniteSet(t) /\ Cardinality(t) = n}
           Bad == {n \in Nat : \E t \in Sized(n) : Orders(t, n) = {}}
<1>1. ASSUME NEW n \in Nat, NEW t \in Sized(n + 1), \A u \in Sized(n) : Orders(u, n) # {}
      PROVE  Orders(t, n + 1) # {}
  <2>1. t # {} /\ t \subseteq S /\ IsFiniteSet(t) /\ t \subseteq Nat
    BY FS_EmptySet
  <2>2. PICK m \in t : \A x \in t : m <= x
    BY <2>1, Least
  <2>3. t \ {m} \in Sized(n)
    <3>1. IsFiniteSet(t \ {m}) /\ Cardinality(t \ {m}) = Cardinality(t) - 1
      BY <2>1, <2>2, FS_RemoveElement
    <3>2. Cardinality(t) = n + 1
      OBVIOUS
    <3>3. Cardinality(t \ {m}) = n
      BY <3>1, <3>2
    <3> QED BY <2>1, <3>1, <3>3
  <2>4. PICK g \in Orders(t \ {m}, n) : TRUE
    BY <1>1, <2>3
  <2> DEFINE f == [i \in 1 .. n + 1 |-> IF i = 1 THEN m ELSE g[i - 1]]
  <2>5. \A i \in 1 .. n + 1 : i = 1 \/ (i # 1 /\ i - 1 \in 1 .. n)
    OBVIOUS
  <2>6. /\ f[1] = m
        /\ \A i \in 1 .. n + 1 : i # 1 => f[i] = g[i - 1] /\ f[i] \in t /\ f[i] > m
    <3>1. \A i \in 1 .. n : g[i] \in t /\ g[i] # m
      BY <2>4
    <3>2. \A x \in t : x # m => x > m
      BY <2>1, <2>2
    <3>3. f[1] = m
      OBVIOUS
    <3>4. \A i \in 1 .. n + 1 : i # 1 => f[i] = g[i - 1] /\ i - 1 \in 1 .. n
      BY <2>5
    <3> QED BY <3>1, <3>2, <3>3, <3>4
  <2>7. f \in [1 .. n + 1 -> t]
    BY <2>6
  <2> HIDE DEF f
  <2>8. ASSUME NEW i \in 1 .. n + 1, NEW j \in 1 .. n + 1, i < j PROVE f[i] < f[j]
    <3>1. j # 1 /\ j - 1 \in 1 .. n
      BY <2>5, <2>8
    <3>2. CASE i = 1
      BY <2>1, <2>6, <2>7, <3>1, <3>2
    <3>3. CASE i # 1
      <4>1. i - 1 \in 1 .. n /\ i - 1 < j - 1
        BY <2>5, <2>8, <3>3
      <4> QED BY <2>4, <2>6, <3>1, <3>3, <4>1
    <3> QED BY <3>2, <3>3
  <2> QED BY <2>7, <2>8
<1>2. ASSUME NEW t \in Sized(0) PROVE Orders(t, 0) # {}
  <2>1. [i \in 1 .. 0 |-> i] \in Orders(t, 0)
    OBVIOUS
  <2> QED BY <2>1
<1>3. Bad = {}
  <2> SUFFICES ASSUME Bad # {} PROVE FALSE
    OBVIOUS
  <2>1. PICK n \in Bad : \A k \in Bad : n <= k
    BY Least
  <2>2. n \in Nat /\ n # 0
    BY <1>2
  <2>3. n - 1 \in Nat /\ (n - 1) + 1 = n /\ n - 1 \notin Bad
    BY <2>1, <2>2
  <2>4. \A u \in Sized(n - 1) : Orders(u, n - 1) # {}
    BY <2>3
  <2>5. \A t \in Sized((n - 1) + 1) : Orders(t, (n - 1) + 1) # {}
    BY <1>1, <2>3, <2>4
  <2> QED BY <2>3, <2>5
<1>4. Cardinality(S) \in Nat /\ S \in Sized(Cardinality(S))
  BY FS_CardinalityType
<1> QED BY <1>3, <1>4

LEMMA AscendingList ==
  ASSUME NEW S, IsFiniteSet(S), S \subseteq Nat
  PROVE  /\ Cardinality(S) \in Nat /\ Ascending(S) \in [1 .. Cardinality(S) -> S]
         /\ \A i, j \in 1 .. Cardinality(S) : Ascending(S)[i] = Ascending(S)[j] => i = j
<1> DEFINE n == Cardinality(S)
           s == Ascending(S)
<1>1. n \in Nat
  BY FS_CardinalityType
<1>2. \E f \in [1 .. n -> S] : \A i, j \in DOMAIN f : i < j => f[i] < f[j]
  <2>1. PICK f \in [1 .. n -> S] : \A i, j \in 1 .. n : i < j => f[i] < f[j]
    BY AscendingExists
  <2> QED BY <2>1
<1>3. s \in [1 .. n -> S] /\ \A i, j \in DOMAIN s : i < j => s[i] < s[j]
  BY <1>2 DEF Ascending
<1> HIDE DEF s
<1>4. ASSUME NEW i \in 1 .. n, NEW j \in 1 .. n, s[i] = s[j] PROVE i = j
  <2>1. s[i] \in Nat /\ s[j] \in Nat
    BY <1>3
  <2>2. ~ (i < j) /\ ~ (j < i)
    BY <1>3, <1>4, <2>1
  <2> QED BY <1>1, <2>2
<1> QED BY <1>1, <1>3, <1>4 DEF s

-----------------------------------------------------------------------------
(* The provider and the clock *)

LEMMA AnchorTyped ==
  ASSUME IInv, NEW id \in Ids
  PROVE  /\ Anchor(id) \in [Ids -> [Windows -> Int]]
         /\ \A i \in Ids : i # id => Anchor(id)[i] = anchor[i]
         /\ \A w \in Windows :
              Anchor(id)[id][w] = IF Anchored(id, w) THEN anchor[id][w] ELSE now + Skew + Period[w]
<1>1. /\ anchor \in [Ids -> [Windows -> Int]] /\ now \in Int /\ Skew \in Int
      /\ \A w \in Windows : Period[w] \in Int
  BY TypesAssumption DEF IInv, AnchorInv, ClockInv
<1> DEFINE new == [w \in Windows |->
                     IF Anchored(id, w) THEN anchor[id][w] ELSE now + Skew + Period[w]]
<1>2. new \in [Windows -> Int]
  BY <1>1
<1>3. Anchor(id) = [anchor EXCEPT ![id] = new]
  BY DEF Anchor
<1>4. \A w \in Windows :
        new[w] = IF Anchored(id, w) THEN anchor[id][w] ELSE now + Skew + Period[w]
  OBVIOUS
<1> HIDE DEF new
<1> QED BY <1>1, <1>2, <1>3, <1>4

LEMMA MessageStep == ASSUME IInv, NEW id \in DOMAIN rows, ClientMessage(id) PROVE IInv'
<1>1. UNCHANGED <<rows, now, exported, pass, nextTick, told>> /\ now \in Nat
  BY DEF ClientMessage, IInv, ClockInv
<1>2. id \in Ids
  BY Numbers DEF IInv, RowsInv
<1>3. RowsInv' /\ ExportInv'
  BY <1>1, RowsSame, ExportSame DEF IInv
<1>4. ToldInv' /\ PassInv' /\ ClockInv' /\ AnswerInv'
  BY <1>1 DEF IInv, ToldInv, PassInv, ClockInv, Began, AnswerInv, Rolls, Fixed
<1>5. AnchorInv'
  <2>1. anchor' = Anchor(id) /\ used' = used \cup {id}
    BY DEF ClientMessage
  <2>2. anchor' \in [Ids -> [Windows -> Int]]
    BY <1>2, <2>1, AnchorTyped
  <2>3. Began' = Began /\ (\A i : Left(i)' <=> Left(i))
    BY <1>1 DEF Began, Left
  <2>4. ASSUME NEW i \in Ids \ used', NEW w \in Windows, Anchored(i, w)'
        PROVE  /\ anchor'[i][w] <= Began + Budget(0) + Skew + Period[w]
               /\ Left(i) => anchor'[i][w] <= Began - Interval + Budget(0) + Skew + Period[w]
    <3>1. i \in Ids \ used /\ anchor'[i] = anchor[i]
      BY <1>2, <2>1, AnchorTyped
    <3>2. Anchored(i, w)
      BY <1>1, <2>4, <3>1 DEF Anchored
    <3> QED BY <3>1, <3>2 DEF IInv, AnchorInv
  <2> QED BY <2>2, <2>3, <2>4 DEF AnchorInv
<1> QED BY <1>3, <1>4, <1>5 DEF IInv

LEMMA TimeStep == ASSUME IInv, TimePasses PROVE IInv'
<1>1. /\ UNCHANGED <<rows, exported, pass, nextTick, anchor, told>>
      /\ now' = now + 1 /\ now \in Nat /\ now' \in Nat /\ now <= now' /\ Skew \in Int
  BY TypesAssumption DEF TimePasses, IInv, ClockInv
<1>2. RowsInv'
  <2>1. \A id \in 1 .. Len(rows) : RowSound(rows[id], now')
    BY <1>1, SoundLater DEF IInv, RowsInv
  <2> QED BY <1>1, <2>1 DEF IInv, RowsInv
<1>3. ExportInv'
  BY <1>1, ExportSame DEF IInv
<1>4. ToldInv' /\ PassInv' /\ AnswerInv'
  BY <1>1 DEF IInv, ToldInv, PassInv, AnswerInv, Rolls, Fixed
<1>5. ClockInv'
  <2>1. CASE pass = NoPass
    <3>1. Len(pass.todo) = 0
      BY <2>1 DEF NoPass
    <3> QED BY <1>1, <3>1 DEF IInv, ClockInv
  <2>2. CASE pass.id # 0 /\ now < pass.at + MaxDelay
    <3>1. Began \in Int /\ pass.at \in Int /\ MaxDelay \in Int /\ Began' = Began
      BY <1>1, TypesAssumption DEF Began, IInv, ClockInv
    <3>2. now' <= pass.at + MaxDelay
      BY <1>1, <2>2, <3>1
    <3>3. Len(pass.todo) > 0 =>
            /\ Began <= now' /\ pass.at <= now'
            /\ Began <= pass.at /\ pass.at <= Began + Budget(Len(pass.todo))
      BY <1>1, <2>2, <3>1 DEF IInv, ClockInv
    <3> QED BY <1>1, <2>2, <3>1, <3>2, <3>3 DEF IInv, ClockInv
  <2> QED BY <2>1, <2>2 DEF TimePasses
<1>6. AnchorInv'
  <2>1. used' = {id \in used : \E w \in Windows : anchor[id][w] > now + 1 + Skew}
    BY DEF TimePasses
  <2>2. Began' = Began /\ (\A i : Left(i)' <=> Left(i))
    BY <1>1 DEF Began, Left
  <2>3. anchor \in [Ids -> [Windows -> Int]]
    BY DEF IInv, AnchorInv
  <2>4. ASSUME NEW i \in Ids \ used', NEW w \in Windows, Anchored(i, w)'
        PROVE  i \in Ids \ used /\ Anchored(i, w)
    <3>1. anchor[i][w] # Null /\ now + 1 + Skew < anchor[i][w] /\ anchor[i][w] \in Int
      BY <1>1, <2>3, <2>4 DEF Anchored
    <3>2. i \notin used
      BY <1>1, <2>1, <3>1
    <3>3. now + Skew < anchor[i][w]
      BY <1>1, <3>1
    <3> QED BY <3>1, <3>2, <3>3 DEF Anchored
  <2> QED BY <1>1, <2>2, <2>3, <2>4 DEF IInv, AnchorInv
<1> QED BY <1>2, <1>3, <1>4, <1>5, <1>6 DEF IInv

-----------------------------------------------------------------------------
(* The usage refresher *)

LEMMA PassStarts == ASSUME IInv, refreshAll PROVE IInv'
<1>1. /\ UNCHANGED <<rows, now, exported, anchor, used, told>>
      /\ pass = NoPass /\ now >= nextTick /\ nextTick' = now + Interval
  BY DEF refreshAll
<1>2. now \in Nat /\ nextTick \in Int /\ Interval \in Nat /\ Skew \in Int
  BY TypesAssumption DEF IInv, ClockInv
<1>3. RowsInv' /\ ExportInv'
  BY <1>1, <1>2, RowsSame, ExportSame DEF IInv
<1>4. ToldInv'
  BY <1>1 DEF IInv, ToldInv
<1> DEFINE S == {id \in Active : rows[id].method \in OAuthMethods}
           n == Cardinality(S)
           s == Ascending(S)
<1>5. Len(rows) \in Nat /\ Len(rows) <= N /\ S \subseteq 1 .. Len(rows)
  BY DEF IInv, RowsInv, Active
<1>6. IsFiniteSet(S) /\ n <= N
  <2>1. IsFiniteSet(1 .. Len(rows)) /\ Cardinality(1 .. Len(rows)) = Len(rows)
    BY <1>5, FS_Interval
  <2>2. IsFiniteSet(S) /\ n <= Cardinality(1 .. Len(rows))
    BY <1>5, <2>1, FS_Subset
  <2>3. n \in Nat
    BY <2>2, FS_CardinalityType
  <2> QED BY <1>5, <2>1, <2>2, <2>3, Numbers
<1>7. /\ n \in Nat /\ s \in [1 .. n -> S]
      /\ \A i, j \in 1 .. n : s[i] = s[j] => i = j
  <2>1. S \subseteq Nat
    BY <1>5
  <2> QED BY <1>6, <2>1, AscendingList
<1>8. pass' = [NoPass EXCEPT !.todo = s]
  BY DEF refreshAll
<1> HIDE DEF s, n, S
<1>9. s \in Seq(1 .. Len(rows)) /\ Len(s) = n
  <2>1. s \in [1 .. n -> 1 .. Len(rows)]
    BY <1>5, <1>7
  <2> HIDE DEF S
  <2> QED BY <1>7, <2>1
<1>10. pass' = [todo |-> s, id |-> 0, at |-> 0, usage |-> NoUsage, answer |-> NoAnswer,
                rolling |-> FALSE]
  BY <1>8 DEF NoPass
<1>11. /\ pass'.todo = s /\ pass'.id = 0 /\ pass'.at = 0 /\ pass'.rolling = FALSE
       /\ DOMAIN pass' = PassFields
  BY <1>10 DEF PassFields
<1>12. PassInv'
  BY <1>1, <1>6, <1>7, <1>9, <1>10, <1>11 DEF PassInv
<1>13. Began' = now /\ Began + Interval <= now /\ Began \in Int
  BY <1>1, <1>2 DEF Began
<1>14. ClockInv'
  <2>1. n > 0 => Budget(n) \in Int /\ Budget(n) >= 0
    BY <1>6, <1>7, Budgets, Numbers
  <2>2. n > 0 => now <= now + Budget(n)
    BY <1>2, <2>1
  <2>3. now' \in Nat /\ nextTick' \in Int
    BY <1>1, <1>2
  <2> QED BY <1>1, <1>2, <1>9, <1>11, <1>13, <2>2, <2>3 DEF ClockInv
<1>15. AnchorInv'
  <2>1. anchor \in [Ids -> [Windows -> Int]]
    BY DEF IInv, AnchorInv
  <2>2. ASSUME NEW i \in Ids \ used, NEW w \in Windows, Anchored(i, w)
        PROVE  /\ anchor[i][w] <= now + Budget(0) + Skew + Period[w]
               /\ anchor[i][w] <= now - Interval + Budget(0) + Skew + Period[w]
    <3>1. anchor[i][w] <= Began + Budget(0) + Skew + Period[w]
      BY <2>2 DEF IInv, AnchorInv
    <3>2. anchor[i][w] \in Int /\ Budget(0) \in Int /\ Period[w] \in Int
      BY <2>1, Budgets, TypesAssumption
    <3> QED BY <1>2, <1>13, <3>1, <3>2
  <2>3. \A i, w : Anchored(i, w)' <=> Anchored(i, w)
    BY <1>1 DEF Anchored
  <2> QED BY <1>1, <1>13, <2>1, <2>2, <2>3 DEF AnchorInv
<1>16. AnswerInv'
  BY <1>11 DEF AnswerInv
<1> QED BY <1>3, <1>4, <1>12, <1>14, <1>15, <1>16 DEF IInv

\* The pass goes on to its next account.
LEMMA PassMoves ==
  ASSUME IInv, pass' = NextOf(pass), UNCHANGED <<now, nextTick>>, Len(rows') = Len(rows),
         Len(pass.todo) > 0, now <= Began + Budget(Len(pass.todo)) + MaxDelay
  PROVE  /\ PassInv' /\ ClockInv' /\ AnswerInv'
         /\ \A i : Left(i)' => Left(i) /\ i # pass.todo[1]
<1> DEFINE s == pass.todo
           t == Tail(s)
           n == Len(s)
<1>1. s \in Seq(1 .. Len(rows)) /\ n \in Nat /\ n <= N /\ n > 0
      /\ \A i, j \in 1 .. n : s[i] = s[j] => i = j
  BY DEF IInv, PassInv
<1>2. /\ t \in Seq(1 .. Len(rows)) /\ Len(t) = n - 1
      /\ \A i \in 1 .. n - 1 : t[i] = s[i + 1]
  <2>1. s # <<>>
    BY <1>1
  <2> QED BY <1>1, <2>1, HeadTailProperties
<1>3. pass' = [todo |-> t, id |-> 0, at |-> 0, usage |-> NoUsage, answer |-> NoAnswer,
               rolling |-> FALSE]
  BY DEF NextOf, NoPass
<1> HIDE DEF t
<1>4. /\ pass'.todo = t /\ pass'.id = 0 /\ pass'.at = 0 /\ pass'.rolling = FALSE
      /\ DOMAIN pass' = PassFields
  BY <1>3 DEF PassFields
<1>5. \A i \in 1 .. n - 1 : i \in 1 .. n /\ i + 1 \in 1 .. n /\ i + 1 # 1
  BY <1>1
<1>6. \A i, j \in 1 .. n - 1 : t[i] = t[j] => i = j
  <2> SUFFICES ASSUME NEW i \in 1 .. n - 1, NEW j \in 1 .. n - 1, t[i] = t[j] PROVE i = j
    OBVIOUS
  <2>1. i + 1 = j + 1
    BY <1>1, <1>2, <1>5
  <2> QED BY <1>1, <2>1
<1>7. n - 1 <= N
  BY <1>1, Numbers
<1>8. PassInv'
  BY <1>2, <1>3, <1>4, <1>6, <1>7 DEF PassInv
<1>9. Began' = Began /\ Began \in Int /\ now \in Nat /\ MaxDelay \in Nat /\ Began <= now
  BY <1>1, TypesAssumption DEF Began, IInv, ClockInv
<1>10. ClockInv'
  <2>1. now <= Began + Budget(n - 1)
    <3>1. n \in 1 .. N
      BY <1>1, Numbers
    <3>2. Budget(n) \in Int /\ Budget(n - 1) = Budget(n) + MaxDelay
      BY <3>1, Budgets
    <3> QED BY <1>9, <3>2
  <2> QED BY <1>2, <1>4, <1>9, <2>1 DEF ClockInv, IInv
<1>11. AnswerInv'
  BY <1>4 DEF AnswerInv
<1>12. ASSUME NEW i, Left(i)' PROVE Left(i) /\ i # s[1]
  <2>1. PICK k \in 1 .. n - 1 : t[k] = i
    BY <1>2, <1>4, <1>12 DEF Left
  <2>2. s[k + 1] = i /\ k + 1 \in 1 .. n /\ k + 1 # 1 /\ 1 \in 1 .. n
    BY <1>1, <1>2, <1>5, <2>1
  <2> QED BY <1>1, <2>2 DEF Left
<1> QED BY <1>8, <1>10, <1>11, <1>12

LEMMA RenewedSound ==
  ASSUME NEW row, now \in Nat, RowSound(row, now), NEW idToken
  PROVE  RowSound(Renewed(row, idToken), now) /\ Renewed(row, idToken).usage = row.usage
<1> DEFINE new == Renewed(row, idToken)
<1>1. DOMAIN row = RowFields
  BY DEF RowSound
<1>2. new = [row EXCEPT !.access = 2, !.refresh = 2, !.idToken = idToken,
                        !.email = idToken.email, !.account = idToken.account,
                        !.last = now, !.expires = now + ImportLifetime]
  BY Zenon DEF Renewed
<1> HIDE DEF new
<1>3. /\ new.idToken = idToken /\ new.email = idToken.email /\ new.account = idToken.account
      /\ new.last = now /\ new.usage = row.usage
  BY <1>1, <1>2 DEF RowFields
<1>4. DOMAIN new = RowFields
  BY <1>1, <1>2 DEF RowFields
<1>5. now \in Int \ {Absent, Unparseable} /\ now <= now
  BY Marks
<1>6. RowSound(new, now)
  BY <1>3, <1>4, <1>5, Zenon DEF RowSound
<1> QED BY <1>3, <1>6 DEF new

\* What the provider reports is a usage.
LEMMA AnswerTyped ==
  ASSUME NEW answer \in Answers
  PROVE  /\ answer.shown \subseteq Windows /\ answer.spent \in Int /\ answer.unspent \in Int
         /\ answer.complete => /\ answer.rated /\ answer.spent > 0 /\ answer.unspent <= 0
<1>1. CASE answer = NoAnswer
  BY <1>1 DEF NoAnswer
<1>2. ASSUME NEW complete \in BOOLEAN, NEW shown \in SUBSET Windows, answer \in Rated(complete, shown)
      PROVE  /\ answer.shown \subseteq Windows /\ answer.spent \in Int /\ answer.unspent \in Int
             /\ answer.rated /\ answer.spent > 0 /\ answer.unspent <= 0
  <2>1. PICK s \in Spent, u \in Unspent :
          answer = [rated |-> TRUE, complete |-> complete, shown |-> shown, spent |-> s, unspent |-> u]
    BY <1>2 DEF Rated
  <2>2. s \in Nat \ {0} /\ u \in Int /\ u <= 0
    BY TypesAssumption
  <2>3. answer.shown = shown /\ answer.spent = s /\ answer.unspent = u /\ answer.rated = TRUE
    BY <2>1
  <2> QED BY <2>2, <2>3
<1>3. \/ answer = NoAnswer
      \/ \E complete \in BOOLEAN, shown \in SUBSET Windows : answer \in Rated(complete, shown)
  BY Zenon DEF Answers
<1> QED BY <1>1, <1>2, <1>3

LEMMA UsageTyped == ASSUME IInv, NEW id \in Ids, NEW answer \in Answers
                    PROVE  Usage(id, answer) \in Usages
<1> DEFINE Window == [used : Int, reset : Int, period : Int]
<1>1. answer.shown \subseteq Windows /\ answer.spent \in Int /\ answer.unspent \in Int
  BY AnswerTyped
<1>2. NoWindow \in Window
  BY Marks DEF NoWindow
<1>3. ASSUME NEW w \in Windows
      PROVE  /\ Reported(id, w, answer) \in Window
              /\ [NoWindow EXCEPT !.used = Reported(id, w, answer).used] \in Window
  <2>1. /\ anchor[id][w] \in Int /\ now + Skew + Period[w] \in Int /\ Period[w] \in Int
    BY TypesAssumption DEF IInv, AnchorInv, ClockInv
  <2>2. Reported(id, w, answer) \in Window
    BY <1>1, <2>1 DEF Reported
  <2>3. Reported(id, w, answer).used \in Int
    BY <2>2
  <2> QED BY <2>2, <2>3, Marks DEF NoWindow
<1>4. \A w \in WindowNames : Usage(id, answer)[w] \in Window
  <2> SUFFICES ASSUME NEW w \in WindowNames PROVE Usage(id, answer)[w] \in Window
    OBVIOUS
  <2>1. \/ Usage(id, answer)[w] = NoWindow
        \/ w \in Windows /\ Usage(id, answer)[w] = Reported(id, w, answer)
        \/ w \in Windows /\ Usage(id, answer)[w] = [NoWindow EXCEPT !.used = Reported(id, w, answer).used]
    BY <1>1 DEF Usage
  <2> QED BY <1>2, <1>3, <2>1
<1> QED BY <1>4 DEF Usage, Usages

\* The answer tells a window that rolls from one that was anchored in an earlier pass.
LEMMA AnswerTells ==
  ASSUME IInv, NEW id \in Ids, NEW answer \in Answers, Left(id), Len(pass.todo) > 0,
         NEW w \in answer.shown, answer.complete
  PROVE  LET u == Usage(id, answer)[w] IN
         /\ ~ Anchored(id, w) =>
              u.used <= 0 /\ u.reset = now + Skew + Period[w] /\ u.period = Period[w]
         /\ Anchored(id, w) =>
              \/ u.used > 0
              \/ /\ u.reset # Null /\ u.period = Period[w]
                 /\ u.reset + resetAnchorTolerance < now + Period[w]
<1> DEFINE u == Usage(id, answer)[w]
           FixedAlready == \/ u.used > 0
                           \/ /\ u.reset # Null /\ u.period = Period[w]
                              /\ u.reset + resetAnchorTolerance < now + Period[w]
<1> SUFFICES /\ ~ Anchored(id, w) =>
                  u.used <= 0 /\ u.reset = now + Skew + Period[w] /\ u.period = Period[w]
             /\ Anchored(id, w) => FixedAlready
  OBVIOUS
<1>1. w \in Windows /\ w \in WindowNames
  BY AnswerTyped, TypesAssumption
<1>2. u = Reported(id, w, answer)
  BY <1>1 DEF Usage
<1>3. CASE ~ Anchored(id, w)
  BY <1>2, <1>3, AnswerTyped DEF Reported
<1>4. CASE Anchored(id, w) /\ id \in used
  BY <1>2, <1>4, AnswerTyped DEF Reported
<1>5. CASE Anchored(id, w) /\ id \notin used
  <2>1. u.reset = anchor[id][w] /\ u.period = Period[w]
    BY <1>2, <1>5 DEF Reported
  <2>2. anchor[id][w] <= Began - Interval + Budget(0) + Skew + Period[w] /\ anchor[id][w] # Null
    BY <1>1, <1>5 DEF IInv, AnchorInv, Anchored
  <2>3. /\ anchor[id][w] \in Int /\ Period[w] \in Int /\ Skew \in Int /\ Interval \in Int
        /\ Began \in Int /\ now \in Int /\ Began <= now
    BY <1>1, TypesAssumption DEF IInv, AnchorInv, ClockInv, Began
  <2>4. Budget(0) \in Int /\ 2 + Skew + Budget(0) < Interval
    <3>1. Budget(0) = MaxDelay * N /\ N = Cardinality(Ids)
      BY Numbers DEF Budget, N
    <3> QED BY <3>1, Budgets, ClockAssumption DEF resetAnchorTolerance
  <2>5. anchor[id][w] + 2 < now + Period[w]
    BY <2>2, <2>3, <2>4
  <2> HIDE DEF u
  <2>6. FixedAlready
    BY <2>1, <2>2, <2>5 DEF resetAnchorTolerance
  <2> QED BY <1>5, <2>6
<1> QED BY <1>3, <1>4, <1>5

LEMMA AskStep == ASSUME IInv, RefreshIfStale PROVE IInv'
<1>1. /\ UNCHANGED <<now, exported, nextTick, anchor, used>>
      /\ pass.todo # <<>> /\ pass.id = 0
  BY DEF RefreshIfStale
<1> DEFINE id == Head(pass.todo)
           n == Len(pass.todo)
<1>2. pass.todo \in Seq(1 .. Len(rows)) /\ n \in Nat /\ n > 0 /\ id = pass.todo[1]
  BY <1>1 DEF IInv, PassInv
<1>3. id \in 1 .. Len(rows) /\ id \in Ids /\ Left(id) /\ Len(rows) \in Nat
  BY <1>2, Numbers DEF IInv, RowsInv, Left
<1>4. PICK idToken \in Renewals \cup {rows[id].idToken}, answer \in Answers, ok \in BOOLEAN :
        /\ rows' = IF idToken = rows[id].idToken \/ rows[id].status = "deleted" THEN rows
                   ELSE [rows EXCEPT ![id] = Renewed(@, idToken)]
        /\ pass' = IF ok THEN [pass EXCEPT !.id = id, !.at = now, !.usage = Usage(id, answer),
                                           !.answer = answer,
                                           !.rolling = \E w \in answer.shown : ~Anchored(id, w)]
                   ELSE NextOf(pass)
        /\ told' = IF ok THEN [told EXCEPT ![id].given = Usage(id, answer)] ELSE told
  BY Zenon DEF RefreshIfStale
<1> HIDE DEF id
<1>5. now \in Nat /\ nextTick \in Int /\ Began \in Int /\ MaxDelay \in Nat /\ Began' = Began
      /\ Budget(n) \in Int
  <2>1. n \in 1 .. N
    BY <1>2, Numbers DEF IInv, PassInv
  <2> QED BY <1>1, <2>1, Budgets, TypesAssumption DEF IInv, ClockInv, Began
<1>a. /\ told' = [i \in Ids |-> told'[i]]
      /\ \A i \in Ids : i # id => told'[i] = told[i]
      /\ DOMAIN told'[id] = ToldFields
      /\ told'[id].usage = told[id].usage /\ told'[id].judged = told[id].judged
      /\ told'[id].rolling = told[id].rolling /\ told'[id].probed = told[id].probed
      /\ ok => told'[id].given = Usage(id, answer)
  <2>1. told = [i \in Ids |-> told[i]] /\ DOMAIN told[id] = ToldFields
    BY <1>3 DEF IInv, ToldInv
  <2>2. CASE ~ ok
    <3>1. told' = told
      BY <1>4, <2>2
    <3> QED BY <2>1, <2>2, <3>1
  <2>3. CASE ok
    <3> DEFINE usage == Usage(id, answer)
               new == [told[id] EXCEPT !.given = usage]
    <3>1. told' = [told EXCEPT ![id] = new]
      BY <1>4, <2>3
    <3> HIDE DEF usage
    <3>2. /\ DOMAIN new = ToldFields /\ new.given = usage /\ new.usage = told[id].usage
          /\ new.judged = told[id].judged /\ new.rolling = told[id].rolling
          /\ new.probed = told[id].probed
      BY <2>1 DEF ToldFields
    <3> HIDE DEF new
    <3>3. told' = [i \in Ids |-> IF i = id THEN new ELSE told[i]]
      BY <2>1, <3>1
    <3>4. told' = [i \in Ids |-> told'[i]] /\ told'[id] = new
          /\ \A i \in Ids : i # id => told'[i] = told[i]
      BY <1>3, <3>3
    <3> QED BY <3>2, <3>4 DEF usage
  <2> QED BY <2>2, <2>3
<1>b. \A i \in 1 .. Len(rows) : i # id => told'[i] = told[i]
  BY <1>a, Numbers DEF IInv, RowsInv
<1>6. RowsInv' /\ Len(rows') = Len(rows)
  <2>1. CASE rows' = rows
    <3>1. \A i \in 1 .. Len(rows) : rows[i].usage = told'[i].usage
      BY <1>a, <1>b DEF IInv, RowsInv
    <3> QED BY <1>1, <2>1, <3>1 DEF IInv, RowsInv
  <2>2. CASE rows' = [rows EXCEPT ![id] = Renewed(rows[id], idToken)]
    <3>1. RowSound(rows[id], now) /\ rows[id].usage = told[id].usage
      BY <1>3 DEF IInv, RowsInv
    <3>2. RowSound(Renewed(rows[id], idToken), now)
          /\ Renewed(rows[id], idToken).usage = told'[id].usage
      BY <1>5, <1>a, <3>1, RenewedSound
    <3> QED BY <1>1, <1>3, <1>b, <2>2, <3>2, RowReplaced DEF IInv
  <2> QED BY <1>4, <2>1, <2>2
<1>7. ExportInv'
  BY <1>1, <1>5, ExportSame DEF IInv
<1>8. ToldInv'
  <2>1. ASSUME NEW i \in Ids
        PROVE  /\ DOMAIN told'[i] = ToldFields /\ told'[i].usage = told[i].usage
               /\ told'[i].judged = told[i].judged /\ told'[i].rolling = told[i].rolling
               /\ told'[i].probed = told[i].probed
    BY <1>a DEF IInv, ToldInv
  <2> QED BY <1>6, <1>a, <2>1 DEF IInv, ToldInv
<1>9. Began <= now /\ now <= Began + Budget(n)
  BY <1>1, <1>2 DEF IInv, ClockInv
<1>10. CASE ~ ok
  <2>1. pass' = NextOf(pass)
    BY <1>4, <1>10
  <2>2. now <= Began + Budget(n) + MaxDelay
    BY <1>5, <1>9
  <2>3. PassInv' /\ ClockInv' /\ AnswerInv' /\ \A i : Left(i)' => Left(i)
    BY <1>1, <1>2, <1>6, <2>1, <2>2, PassMoves
  <2>4. AnchorInv'
    BY <1>1, <1>5, <2>3 DEF IInv, AnchorInv, Anchored
  <2> QED BY <1>6, <1>7, <1>8, <2>3, <2>4 DEF IInv
<1>11. CASE ok
  <2> DEFINE roll == \E w \in answer.shown : ~Anchored(id, w)
             usage == Usage(id, answer)
  <2>1. pass' = [pass EXCEPT !.id = id, !.at = now, !.usage = usage, !.answer = answer,
                             !.rolling = roll]
    BY <1>4, <1>11
  <2>2. usage \in Usages
    BY <1>3, UsageTyped
  <2>3. roll \in BOOLEAN
    OBVIOUS
  <2>4. answer.complete =>
          /\ answer.rated /\ answer.shown \subseteq Windows
          /\ roll => \E w \in answer.shown :
               /\ usage[w].used <= 0 /\ usage[w].reset = now + Skew + Period[w]
               /\ usage[w].period = Period[w]
          /\ ~ roll => \A w \in answer.shown :
               \/ usage[w].used > 0
               \/ /\ usage[w].reset # Null /\ usage[w].period = Period[w]
                  /\ usage[w].reset + resetAnchorTolerance < now + Period[w]
    <3> SUFFICES ASSUME answer.complete
                 PROVE  /\ answer.rated /\ answer.shown \subseteq Windows
                        /\ roll => \E w \in answer.shown :
                             /\ usage[w].used <= 0 /\ usage[w].reset = now + Skew + Period[w]
                             /\ usage[w].period = Period[w]
                        /\ ~ roll => \A w \in answer.shown :
                             \/ usage[w].used > 0
                             \/ /\ usage[w].reset # Null /\ usage[w].period = Period[w]
                                /\ usage[w].reset + resetAnchorTolerance < now + Period[w]
      OBVIOUS
    <3>1. answer.rated /\ answer.shown \subseteq Windows
      BY AnswerTyped
    <3> QED BY <1>2, <1>3, <3>1, AnswerTells
  <2> HIDE DEF roll, usage
  <2>5. /\ DOMAIN pass' = PassFields /\ pass'.todo = pass.todo /\ pass'.id = id
        /\ pass'.at = now /\ pass'.usage = usage /\ pass'.answer = answer /\ pass'.rolling = roll
    <3>1. DOMAIN pass = PassFields
      BY DEF IInv, PassInv
    <3> QED BY <2>1, <3>1 DEF PassFields
  <2>6. PassInv'
    <3>1. told'[id].given = usage
      BY <1>11, <1>a DEF usage
    <3> QED BY <1>2, <1>6, <2>2, <2>3, <2>5, <3>1 DEF IInv, PassInv
  <2>7. id # 0
    BY <1>3
  <2>8. now <= now + MaxDelay
    BY <1>5
  <2>9. ClockInv'
    BY <1>1, <1>5, <1>9, <2>5, <2>7, <2>8 DEF ClockInv
  <2>10. AnswerInv'
    BY <1>1, <2>4, <2>5 DEF AnswerInv, Rolls, Fixed
  <2>11. AnchorInv'
    <3>1. \A i : Left(i)' <=> Left(i)
      BY <2>5 DEF Left
    <3> QED BY <1>1, <1>5, <3>1 DEF IInv, AnchorInv, Anchored
  <2> QED BY <1>6, <1>7, <1>8, <2>6, <2>9, <2>10, <2>11 DEF IInv
<1> QED BY <1>10, <1>11

\* The judgement of a complete answer is right however late it comes.
LEMMA JudgedRight ==
  ASSUME IInv, pass.id # 0, pass.answer.complete
  PROVE  (~ usageResetFixed(pass.answer, pass.usage, now)) = pass.rolling
<1> DEFINE fixed == usageResetFixed(pass.answer, pass.usage, now)
<1>1. /\ pass.answer.rated /\ pass.answer.shown \subseteq Windows
      /\ pass.rolling => \E w \in pass.answer.shown : Rolls(w)
      /\ ~ pass.rolling => \A w \in pass.answer.shown : Fixed(w)
  BY DEF IInv, AnswerInv
<1>2. /\ pass.at \in Int /\ now \in Int /\ pass.at <= now /\ now <= pass.at + MaxDelay
      /\ pass.rolling \in BOOLEAN /\ pass.usage \in Usages
  BY DEF IInv, ClockInv, PassInv
<1>3. Skew \in Int /\ MaxDelay \in Nat /\ \A w \in Windows : Period[w] \in Nat /\ w \in WindowNames
  BY TypesAssumption
<1>4. \A w \in pass.answer.shown :
        /\ pass.usage[w].used \in Int
        /\ pass.usage[w].reset \in Int /\ pass.usage[w].period \in Int
  BY <1>1, <1>2, <1>3 DEF Usages
<1>5. ASSUME NEW w \in pass.answer.shown, Rolls(w)
      PROVE  ~ usageWindowFixed(pass.usage[w], now)
  <2>1. /\ pass.usage[w].used <= 0 /\ pass.usage[w].reset = pass.at + Skew + Period[w]
        /\ pass.usage[w].period = Period[w]
    BY <1>5 DEF Rolls
  <2>2. ~ (now + Period[w] - 2 > pass.at + Skew + Period[w])
    <3>1. MaxDelay - Skew <= 2 /\ Period[w] \in Int
      BY <1>1, <1>3, ClockAssumption DEF resetAnchorTolerance
    <3> QED BY <1>2, <1>3, <3>1
  <2> QED BY <1>4, <2>1, <2>2 DEF usageWindowFixed, resetAnchorTolerance
<1>6. ASSUME NEW w \in pass.answer.shown, Fixed(w)
      PROVE  usageWindowFixed(pass.usage[w], now)
  <2>1. CASE pass.usage[w].used > 0
    BY <2>1 DEF usageWindowFixed
  <2>2. CASE /\ pass.usage[w].reset # Null /\ pass.usage[w].period = Period[w]
             /\ pass.usage[w].reset + 2 < pass.at + Period[w]
    <3>1. Period[w] \in Nat /\ Period[w] # Null
      BY <1>1, <1>3, Marks
    <3>2. now + Period[w] - 2 > pass.usage[w].reset
      BY <1>2, <1>4, <2>2, <3>1
    <3> QED BY <2>2, <3>1, <3>2 DEF usageWindowFixed, resetAnchorTolerance
  <2> QED BY <1>6, <2>1, <2>2 DEF Fixed, resetAnchorTolerance
<1>7. fixed <=> \A w \in pass.answer.shown : usageWindowFixed(pass.usage[w], now)
  BY <1>1 DEF usageResetFixed
<1>8. fixed <=> ~ pass.rolling
  BY <1>1, <1>5, <1>6, <1>7
<1>9. fixed \in BOOLEAN
  BY DEF usageResetFixed
<1> QED BY <1>2, <1>8, <1>9

LEMMA JudgeStep == ASSUME IInv, refreshOne PROVE IInv'
<1> DEFINE id == pass.id
           n == Len(pass.todo)
           probe == ~usageResetFixed(pass.answer, pass.usage, now)
<1>1. /\ UNCHANGED <<now, exported, nextTick, used>> /\ pass' = NextOf(pass) /\ id # 0
  BY DEF refreshOne
<1>2. PICK sent \in BOOLEAN, stored \in BOOLEAN :
        /\ anchor' = IF probe THEN ProbeResetAnchor(id, sent) ELSE anchor
        /\ rows' = IF stored THEN [rows EXCEPT ![id] = UpdateUsage(@, pass.usage)] ELSE rows
        /\ told' = [told EXCEPT ![Head(pass.todo)] =
                      [given |-> @.given, usage |-> IF stored THEN @.given ELSE @.usage,
                       judged |-> pass.answer.complete, rolling |-> pass.rolling,
                       probed |-> probe]]
  BY Zenon DEF refreshOne
<1>3. /\ pass.todo \in Seq(1 .. Len(rows)) /\ n \in Nat /\ n > 0 /\ id = pass.todo[1]
      /\ pass.usage \in Usages /\ told[id].given = pass.usage
  BY <1>1 DEF IInv, PassInv
<1>4. id \in 1 .. Len(rows) /\ id \in Ids /\ Len(rows) \in Nat
  BY <1>3, Numbers DEF IInv, RowsInv
<1>5. /\ now \in Nat /\ Began \in Int /\ Began' = Began /\ MaxDelay \in Nat
      /\ Budget(n) \in Int /\ Budget(0) \in Int /\ Budget(n) + MaxDelay <= Budget(0)
  <2>1. n \in 1 .. N
    BY <1>3, Numbers DEF IInv, PassInv
  <2> QED BY <1>1, <2>1, Budgets, TypesAssumption DEF IInv, ClockInv, Began
<1>6. now <= Began + Budget(n) + MaxDelay
  <2>1. pass.at <= Began + Budget(n) /\ now <= pass.at + MaxDelay /\ pass.at \in Int
    BY <1>1, <1>3 DEF IInv, ClockInv
  <2> QED BY <1>5, <2>1
<1>7. pass.answer.complete => probe = pass.rolling
  BY <1>1, JudgedRight
<1> HIDE DEF probe
<1>8. told = [i \in Ids |-> told[i]]
  BY DEF IInv, ToldInv
<1>9. /\ told' = [i \in Ids |-> told'[i]]
      /\ \A i \in Ids : i # id => told'[i] = told[i]
      /\ told'[id] = [given |-> told[id].given,
                      usage |-> IF stored THEN told[id].given ELSE told[id].usage,
                      judged |-> pass.answer.complete, rolling |-> pass.rolling, probed |-> probe]
  <2> DEFINE new == [given |-> told[id].given,
                     usage |-> IF stored THEN told[id].given ELSE told[id].usage,
                     judged |-> pass.answer.complete, rolling |-> pass.rolling, probed |-> probe]
  <2>1. told' = [told EXCEPT ![id] = new]
    <3>1. Head(pass.todo) = id
      BY <1>3
    <3> QED BY <1>2, <3>1
  <2> HIDE DEF new
  <2>2. told' = [i \in Ids |-> IF i = id THEN new ELSE told[i]]
    BY <1>8, <2>1
  <2>3. told' = [i \in Ids |-> told'[i]] /\ told'[id] = new
        /\ \A i \in Ids : i # id => told'[i] = told[i]
    BY <1>4, <2>2
  <2> QED BY <2>3 DEF new
<1>10. /\ told'[id].usage = IF stored THEN pass.usage ELSE told[id].usage
       /\ told'[id].judged = pass.answer.complete /\ told'[id].rolling = pass.rolling
       /\ told'[id].probed = probe /\ DOMAIN told'[id] = ToldFields
  BY <1>3, <1>9 DEF ToldFields
<1>11. RowsInv' /\ Len(rows') = Len(rows)
  <2>1. RowSound(rows[id], now) /\ rows[id].usage = told[id].usage
    BY <1>4 DEF IInv, RowsInv
  <2>2. \A i \in 1 .. Len(rows) : i # id => told'[i] = told[i]
    BY <1>9, Numbers DEF IInv, RowsInv
  <2>3. CASE stored
    <3> DEFINE row == UpdateUsage(rows[id], pass.usage)
    <3>1. DOMAIN rows[id] = RowFields
      BY <2>1 DEF RowSound
    <3>2. /\ DOMAIN row = RowFields /\ row.usage = pass.usage /\ row.last = rows[id].last
          /\ row.email = rows[id].email /\ row.idToken = rows[id].idToken
          /\ row.account = rows[id].account
      BY <3>1 DEF UpdateUsage, RowFields
    <3>3. rows' = [rows EXCEPT ![id] = row]
      BY <1>2, <2>3
    <3> HIDE DEF row
    <3>4. RowSound(row, now)
      BY <2>1, <3>2 DEF RowSound
    <3>5. row.usage = told'[id].usage
      BY <1>10, <2>3, <3>2
    <3> QED BY <1>1, <1>4, <2>2, <3>3, <3>4, <3>5, RowReplaced DEF IInv
  <2>4. CASE ~ stored
    <3>1. rows' = rows /\ \A i \in 1 .. Len(rows) : rows[i].usage = told'[i].usage
      BY <1>2, <1>10, <2>1, <2>2, <2>4 DEF IInv, RowsInv
    <3> QED BY <1>1, <3>1 DEF IInv, RowsInv
  <2> QED BY <2>3, <2>4
<1>12. ExportInv'
  BY <1>1, <1>5, ExportSame DEF IInv
<1>13. ToldInv'
  <2>1. ASSUME NEW i \in Ids
        PROVE  /\ DOMAIN told'[i] = ToldFields /\ told'[i].usage \in Usages
               /\ i > Len(rows) => told'[i].usage = NoUsage
               /\ told'[i].judged => told'[i].probed = told'[i].rolling
    <3>1. CASE i = id
      <4>1. told[id].usage \in Usages /\ ~ (id > Len(rows))
        BY <1>4 DEF IInv, ToldInv
      <4> QED BY <1>3, <1>7, <1>10, <3>1, <4>1
    <3>2. CASE i # id
      BY <1>9, <3>2 DEF IInv, ToldInv
    <3> QED BY <3>1, <3>2
  <2> QED BY <1>9, <1>11, <2>1 DEF ToldInv
<1>14. /\ PassInv' /\ ClockInv' /\ AnswerInv'
       /\ \A i : Left(i)' => Left(i) /\ i # pass.todo[1]
  BY <1>1, <1>3, <1>6, <1>11, PassMoves
<1>15. AnchorInv'
  <2>1. anchor \in [Ids -> [Windows -> Int]] /\ Skew \in Int
    BY TypesAssumption DEF IInv, AnchorInv
  <2>2. anchor' = anchor \/ anchor' = Anchor(id)
    BY <1>2 DEF ProbeResetAnchor
  <2>3. anchor' \in [Ids -> [Windows -> Int]] /\ \A i \in Ids : i # id => anchor'[i] = anchor[i]
    BY <1>4, <2>1, <2>2, AnchorTyped
  <2>4. ASSUME NEW i \in Ids \ used, NEW w \in Windows, Anchored(i, w)'
        PROVE  /\ anchor'[i][w] <= Began + Budget(0) + Skew + Period[w]
               /\ Left(i)' => anchor'[i][w] <= Began - Interval + Budget(0) + Skew + Period[w]
    <3>1. CASE anchor'[i][w] = anchor[i][w]
      <4>1. Anchored(i, w)
        BY <1>1, <2>4, <3>1 DEF Anchored
      <4> QED BY <1>14, <3>1, <4>1 DEF IInv, AnchorInv
    <3>2. CASE i = id /\ anchor'[i][w] = now + Skew + Period[w]
      <4>1. ~ Left(i)'
        BY <1>3, <1>14, <3>2
      <4>2. Period[w] \in Int
        BY TypesAssumption
      <4>3. now + Skew + Period[w] <= Began + Budget(0) + Skew + Period[w]
        BY <1>5, <1>6, <2>1, <4>2
      <4> QED BY <3>2, <4>1, <4>3
    <3>3. anchor'[i][w] = anchor[i][w] \/ (i = id /\ anchor'[i][w] = now + Skew + Period[w])
      BY <1>4, <2>2, <2>3, AnchorTyped
    <3> QED BY <3>1, <3>2, <3>3
  <2> QED BY <1>1, <1>5, <2>3, <2>4 DEF AnchorInv
<1> QED BY <1>11, <1>12, <1>13, <1>14, <1>15 DEF IInv

-----------------------------------------------------------------------------
(* The specification *)

LEMMA InitIInv == Init => IInv
<1> SUFFICES ASSUME Init PROVE IInv
  OBVIOUS
<1>1. rows = <<>> /\ Len(rows) = 0 /\ DOMAIN rows = 1 .. 0 /\ now = 0 /\ nextTick = 0
  <2>1. rows = <<>> /\ now = 0 /\ nextTick = 0
    BY DEF Init
  <2>2. DOMAIN <<>> = 1 .. 0 /\ Len(<<>>) = 0
    OBVIOUS
  <2> QED BY <2>1, <2>2, Zenon
<1>2. RowsInv
  <2>1. rows = [i \in 1 .. 0 |-> rows[i]]
    BY <1>1
  <2> QED BY <1>1, <2>1, Numbers DEF RowsInv
<1>3. ExportInv
  <2>1. exported.doc = NoDoc
    BY DEF Init
  <2> QED BY <2>1 DEF ExportInv
<1>4. NoUsage \in Usages
  <2>1. NoWindow \in [used : Int, reset : Int, period : Int]
    BY Marks DEF NoWindow
  <2> QED BY <2>1 DEF NoUsage, Usages
<1>5. ToldInv
  <2>1. told = [id \in Ids |-> NotTold] /\ NotTold.usage = NoUsage /\ NotTold.judged = FALSE
        /\ DOMAIN NotTold = ToldFields
    BY DEF Init, NotTold, ToldFields
  <2> QED BY <1>4, <2>1 DEF ToldInv
<1>6. /\ pass.todo = <<>> /\ pass.id = 0 /\ pass.at = 0 /\ pass.rolling = FALSE
      /\ DOMAIN pass = PassFields
  BY DEF Init, NoPass, PassFields
<1>7. PassInv /\ ClockInv /\ AnswerInv
  <2>1. <<>> \in Seq(1 .. Len(rows)) /\ Len(<<>>) = 0
    OBVIOUS
  <2>2. PassInv
    <3>1. pass.todo \in Seq(1 .. Len(rows)) /\ Len(pass.todo) = 0
      BY <1>6, <2>1, Zenon
    <3>2. N \in Nat
      BY Numbers
    <3>3. Len(pass.todo) <= N /\ 1 .. Len(pass.todo) = {}
      BY <3>1, <3>2
    <3> QED BY <1>6, <3>1, <3>3, Zenon DEF PassInv
  <2>3. ClockInv
    BY <1>1, <1>6, <2>1 DEF ClockInv
  <2> QED BY <1>6, <2>2, <2>3 DEF AnswerInv
<1>8. AnchorInv
  <2>1. anchor = [id \in Ids |-> [w \in Windows |-> Null]]
    BY DEF Init
  <2> QED BY <2>1, Marks DEF AnchorInv, Anchored
<1> QED BY <1>2, <1>3, <1>5, <1>7, <1>8 DEF IInv

LEMMA NextIInv == IInv /\ [Next]_vars => IInv'
<1> SUFFICES ASSUME IInv, [Next]_vars PROVE IInv'
  OBVIOUS
<1>1. CASE UNCHANGED vars
  <2>1. UNCHANGED <<now, rows, exported, refresher>> /\ now \in Nat /\ UNCHANGED told
    BY <1>1 DEF vars, refresher, IInv, ClockInv
  <2>2. RowsInv' /\ ExportInv'
    BY <2>1, RowsSame, ExportSame DEF IInv
  <2> QED BY <2>1, <2>2, RefresherKept DEF IInv, RowsInv
<1>2. CASE writeExportLookupError
  <2>1. UNCHANGED <<now, rows, exported, refresher>> /\ now \in Nat /\ UNCHANGED told
    BY <1>2 DEF writeExportLookupError, refresher, IInv, ClockInv
  <2>2. RowsInv' /\ ExportInv'
    BY <2>1, RowsSame, ExportSame DEF IInv
  <2> QED BY <2>1, <2>2, RefresherKept DEF IInv, RowsInv
<1> QED BY <1>1, <1>2, CreateStep, ExportStep, StatusStep, MessageStep, PassStarts, AskStep,
           JudgeStep, TimeStep DEF Next

LEMMA AlwaysIInv == Spec => []IInv
BY InitIInv, NextIInv, PTL DEF Spec

\* However accounts are created, imported, renewed and exported while time goes on, an
\* exported document that the import takes is the same account again, and no row claims a
\* refresh in the future (deriveImportLastRefresh, buildCodexAuthJSONDocument).
THEOREM AlwaysRoundTrip == Spec => []RoundTrip
<1>1. ASSUME IInv PROVE RoundTrip
  <2> USE <1>1
  <2>1. \A id \in DOMAIN rows : rows[id].last <= now
    BY DEF IInv, RowsInv, RowSound
  <2>2. ASSUME exported.doc # NoDoc
        PROVE  Credentials(Imported(exported.doc, now)) = exported.row
    <3> DEFINE d == exported.doc
               new == Imported(d, now)
    <3>1. /\ exported.row = [access |-> d.access, refresh |-> d.refresh, idToken |-> d.idToken,
                             email |-> d.idToken.email, account |-> d.account, last |-> d.last]
          /\ d.last \in Int \ {Absent, Unparseable} /\ d.last <= now
          /\ d.idToken.account # "" => d.account = d.idToken.account
      BY <2>2, Zenon DEF IInv, ExportInv
    <3>2. importedAccountID(d) = d.account
      BY <3>1 DEF importedAccountID, firstNonEmpty
    <3>3. deriveImportLastRefresh(d.last, now) = d.last
      <4>1. now \in Nat
        BY DEF IInv, ClockInv
      <4>2. \A x \in Int \ {Absent, Unparseable} :
              x <= now => deriveImportLastRefresh(x, now) = x
        BY <4>1 DEF deriveImportLastRefresh
      <4> QED BY <3>1, <4>2
    <3>4. /\ new.access = d.access /\ new.refresh = d.refresh /\ new.idToken = d.idToken
          /\ new.email = d.idToken.email /\ new.account = importedAccountID(d)
          /\ new.last = deriveImportLastRefresh(d.last, now)
      BY DEF Imported
    <3> HIDE DEF new, d
    <3>5. Credentials(new) = exported.row
      BY <3>1, <3>2, <3>3, <3>4 DEF Credentials
    <3> QED BY <3>5 DEF new, d
  <2> QED BY <2>1, <2>2 DEF RoundTrip
<1> QED BY <1>1, AlwaysIInv, PTL

\* For every number of accounts and every skew and delay within ClockAssumption, the
\* refresher probes an account exactly when a window of a complete answer still rolled
\* (usageResetFixed with resetAnchorTolerance).
THEOREM AlwaysProbesRolling == Spec => []ProbesRolling
<1>1. IInv => ProbesRolling
  BY DEF IInv, ToldInv, ProbesRolling
<1> QED BY <1>1, AlwaysIInv, PTL

\* Whatever interleaves with the passes of the refresher over however many accounts, the
\* account list shows of every account the one answer about it that was stored last, its
\* percentages brought into range whatever the provider says, and of an api_key account
\* none (newAccountListItemResponse, usedPercent, UpdateUsage).
THEOREM AlwaysUsageTruthful == Spec => []UsageTruthful
<1>1. ASSUME IInv PROVE UsageTruthful
  <2> USE <1>1
  <2>1. ASSUME NEW v \in [used : Int, reset : Int, period : Int]
        PROVE  Shows([v EXCEPT !.used = usedPercent(@)], v)
    <3> DEFINE item == [v EXCEPT !.used = usedPercent(@)]
    <3>1. item.used = usedPercent(v.used) /\ item.reset = v.reset /\ item.period = v.period
      OBVIOUS
    <3> HIDE DEF item
    <3>2. CASE v.used = Null
      <4>1. usedPercent(v.used) = Null
        BY <3>2 DEF usedPercent, Null
      <4> QED BY <3>1, <3>2, <4>1 DEF Shows, item
    <3>3. CASE v.used # Null
      <4>1. v.used \in Int
        OBVIOUS
      <4>2. /\ v.used < 0 => usedPercent(v.used) = 0
            /\ v.used > 100 => usedPercent(v.used) = 100
            /\ v.used \in 0 .. 100 => usedPercent(v.used) = v.used
        BY <3>3, <4>1 DEF usedPercent, Null
      <4>3. item.used \in 0 .. 100 /\ (v.used < item.used => item.used = 0)
            /\ (v.used > item.used => item.used = 100)
        BY <3>1, <4>1, <4>2
      <4>4. Shows(item, v)
        BY <3>1, <3>3, <4>3 DEF Shows
      <4> QED BY <4>4 DEF item
    <3> QED BY <3>2, <3>3
  <2>2. ASSUME NEW status, NEW id \in DOMAIN ListAccounts(status)
        PROVE  LET item == ListAccounts(status)[id] IN
               /\ item.status # "deleted" /\ status \in {"", item.status}
               /\ IF item.method = "api_key" THEN item.usage = NoUsage
                  ELSE \A w \in WindowNames : Shows(item.usage[w], told[id].usage[w])
    <3> DEFINE item == ListAccounts(status)[id]
               row == rows[id]
    <3>1. id \in DOMAIN rows /\ row.status # "deleted" /\ status \in {"", row.status}
          /\ item = newAccountListItemResponse(row)
      BY DEF ListAccounts, ListForAdminAPI
    <3>2. row.usage = told[id].usage /\ told[id].usage \in Usages
      <4>1. Len(rows) \in Nat /\ Len(rows) <= N /\ DOMAIN rows = 1 .. Len(rows)
        BY Zenon DEF IInv, RowsInv
      <4>2. id \in 1 .. Len(rows)
        BY <3>1, <4>1, Zenon
      <4>3. id \in Ids
        BY <4>1, <4>2, Numbers
      <4> QED BY <4>2, <4>3, Zenon DEF IInv, RowsInv, ToldInv
    <3> HIDE DEF item, row
    <3>3. /\ item.status = row.status /\ item.method = row.method
          /\ item.usage = IF row.method # "api_key"
                          THEN [w \in DOMAIN row.usage |->
                                  [row.usage[w] EXCEPT !.used = usedPercent(@)]]
                          ELSE NoUsage
      BY <3>1 DEF newAccountListItemResponse
    <3>4. ASSUME item.method # "api_key", NEW w \in WindowNames
          PROVE  Shows(item.usage[w], told[id].usage[w])
      <4>1. /\ told[id].usage[w] \in [used : Int, reset : Int, period : Int]
            /\ DOMAIN told[id].usage = WindowNames
        BY <3>2 DEF Usages
      <4>2. item.usage[w] = [told[id].usage[w] EXCEPT !.used = usedPercent(@)]
        BY <3>2, <3>3, <3>4, <4>1
      <4> QED BY <2>1, <4>1, <4>2
    <3>5. /\ item.status # "deleted" /\ status \in {"", item.status}
          /\ IF item.method = "api_key" THEN item.usage = NoUsage
             ELSE \A w \in WindowNames : Shows(item.usage[w], told[id].usage[w])
      BY <3>1, <3>3, <3>4
    <3> QED BY <3>5 DEF item
  <2> QED BY <2>2, Zenon DEF UsageTruthful
<1> QED BY <1>1, AlwaysIInv, PTL

=============================================================================
