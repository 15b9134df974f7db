---------------------------- MODULE SessionRouter -----------------------------
(***************************************************************************)
(* core.ConsistentHashRouter: every account has the same number of virtual *)
(* nodes on a ring of CRC32 values, and a session belongs to the account   *)
(* of the first node at or after the hash of its key, or, past the last    *)
(* node, of the first one.  Nothing is stored: the ring is rebuilt from    *)
(* the accounts offered to each call.                                      *)
(***************************************************************************)
EXTENDS Naturals

CONSTANTS Accounts, Sessions,
          Nodes,     \* virtual node numbers (150 in the code)
          Hash,      \* Hash[a, i]: CRC32 of "<account id>#<i>"
          KeyHash    \* KeyHash[s]: CRC32 of the session key

ASSUME HashAssumption ==
  /\ Nodes # {}
  /\ Hash \in [Accounts \X Nodes -> Nat]
  /\ KeyHash \in [Sessions -> Nat]

\* sort.Slice leaves nodes of equal hash in no particular order.  No two
\* accounts with ids up to 2000 collide.
ASSUME NoCollision ==
  \A a, b \in Accounts : \A i, j \in Nodes :
    Hash[a, i] = Hash[b, j] => a = b

Ring(S) == S \X Nodes
Ahead(s, S) == {n \in Ring(S) : Hash[n] >= KeyHash[s]}

\* sort.Search on the sorted ring, with the wrap to index 0.
Candidates(s, S) == IF Ahead(s, S) # {} THEN Ahead(s, S) ELSE Ring(S)
First(s, S) == CHOOSE n \in Candidates(s, S) :
                 \A m \in Candidates(s, S) : Hash[n] <= Hash[m]

Route(s, S) == First(s, S)[1]
=============================================================================
