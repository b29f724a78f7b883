-------------------------- MODULE PlanCacheProofs --------------------------
(***************************************************************************)
(* Proofs about PlanCache, for any threads, keys and minimum pools.        *)
(*                                                                         *)
(* That two tokens never share an entry follows from the in_use flags, so  *)
(* the invariant says that the flags are exactly the leased entries, that  *)
(* these were constructed, and that a bucket's entries are numbered        *)
(* without gaps: only then is the entry appended to a full bucket new.     *)
(*                                                                         *)
(* That no plan keeps a dead dispatcher: whoever installed one holds the   *)
(* plan by a token, and returns its tokens before it is done.  That        *)
(* buckets do not pile up: a full bucket has as many tokens as entries.    *)
(***************************************************************************)
EXTENDS PlanCache, FiniteSetTheorems, TLAPS

Tokens == [valid : {TRUE}, entry : Entries, asked : Settings]

TokenTypeOK ==
  /\ size \in [Keys -> Nat]
  /\ token \in [Threads -> [Slots -> Tokens \cup {NoToken}]]

\* The entries of a bucket are 0, 1, ..., size - 1.
Numbered == DOMAIN plans = {e \in Entries : e[2] < size[e[1]]}

LeasesExist == inUse \subseteq DOMAIN plans

LeaseInv == TokenTypeOK /\ Numbered /\ LeasesMatch /\ LeasesExist /\ Exclusive

\* Two valid tokens name the same entry only if they are the same token.
LEMMA SameHolder ==
  ASSUME Exclusive, NEW t \in Threads, NEW r \in Slots, NEW u \in Threads, NEW s \in Slots,
         Valid(t, r), Valid(u, s), token[t][r].entry = token[u][s].entry
  PROVE  t = u /\ r = s
BY DEF Exclusive

(* An empty cache holds no lease.                                            *)
LEMMA InitLease == Init => LeaseInv
<1> SUFFICES ASSUME Init PROVE LeaseInv
  OBVIOUS
<1>1. \A t \in Threads, s \in Slots : ~Valid(t, s)
  BY DEF Init, Valid, NoToken
<1>2. TokenTypeOK
  BY DEF Init, TokenTypeOK
<1>3. Numbered
  BY SMT DEF Init, Numbered, Entries
<1>4. LeasesMatch /\ LeasesExist
  BY <1>1 DEF Init, LeasesMatch, LeasesExist
<1>5. Exclusive
  BY <1>1 DEF Exclusive
<1> QED
  BY <1>2, <1>3, <1>4, <1>5 DEF LeaseInv

\* Growing bucket k to n entries keeps the numbering.
LEMMA GrownNumbered ==
  ASSUME TokenTypeOK, Numbered, NEW k \in Keys, NEW n \in Nat, NEW c, n >= size[k],
         size' = [size EXCEPT ![k] = n], plans' = Grown(k, n, c)
  PROVE  /\ Numbered'
         /\ DOMAIN plans \subseteq DOMAIN plans'
         /\ \A i \in Nat : i < n => <<k, i>> \in DOMAIN plans'
<1>1. DOMAIN plans' = DOMAIN plans \cup {<<k, i>> : i \in size[k]..(n - 1)}
  BY DEF Grown
<1>2. size[k] \in Nat
  BY DEF TokenTypeOK
<1>3. \A i \in Nat : i \in size[k]..(n - 1) <=> size[k] <= i /\ i < n
  BY <1>2
<1>4. ASSUME NEW j \in Keys, NEW i \in Nat
      PROVE  <<j, i>> \in DOMAIN plans' <=> i < size'[j]
  <2>1. <<j, i>> \in DOMAIN plans <=> i < size[j]
    BY DEF Numbered, Entries
  <2>2. CASE j = k
    <3>1. <<j, i>> \in DOMAIN plans' <=> i < size[k] \/ (size[k] <= i /\ i < n)
      BY <1>1, <1>3, <2>1, <2>2
    <3>2. size'[j] = n
      BY <2>2 DEF TokenTypeOK
    <3> QED
      BY <1>2, <3>1, <3>2
  <2>3. CASE j # k
    <3>1. size'[j] = size[j]
      BY <2>3 DEF TokenTypeOK
    <3>2. <<j, i>> \notin {<<k, m>> : m \in size[k]..(n - 1)}
      BY <2>3
    <3> QED
      BY <1>1, <2>1, <3>1, <3>2
  <2> QED
    BY <2>2, <2>3
<1>5. DOMAIN plans' \subseteq Entries
  <2>1. \A i \in size[k]..(n - 1) : i \in Nat
    BY <1>2
  <2> QED
    BY <1>1, <2>1 DEF Numbered, Entries
<1>6. \A e \in Entries : e \in DOMAIN plans' <=> e[2] < size'[e[1]]
  BY <1>4 DEF Entries
<1>7. Numbered'
  BY <1>5, <1>6 DEF Numbered
<1>8. size'[k] = n
  BY DEF TokenTypeOK
<1> QED
  BY <1>1, <1>4, <1>7, <1>8
-----------------------------------------------------------------------------
\* A lease of an entry that is not in use, in a bucket grown to n entries.
LEMMA LeaseStep ==
  ASSUME LeaseInv, NEW t \in Threads, NEW s \in Slots, NEW k \in Keys, NEW c \in Settings,
         NEW i \in Nat, NEW n \in Nat, ~Valid(t, s), <<k, i>> \notin inUse,
         i < n, n >= size[k], Lease(t, s, k, i, n, c)
  PROVE  LeaseInv'
<1> DEFINE lease == [valid |-> TRUE, entry |-> <<k, i>>, asked |-> c]
<1> USE DEF LeaseInv
<1>1. token' = [token EXCEPT ![t][s] = lease]
  BY DEF Lease
<1>2. \A u \in Threads, r \in Slots :
        token'[u][r] = IF u = t /\ r = s THEN lease ELSE token[u][r]
  BY <1>1 DEF TokenTypeOK
<1>3. lease.valid /\ lease.entry = <<k, i>> /\ lease \in Tokens
  BY DEF Tokens, Entries
<1>4. TokenTypeOK'
  <2>1. size' \in [Keys -> Nat]
    BY DEF Lease, TokenTypeOK
  <2>2. token' \in [Threads -> [Slots -> Tokens \cup {NoToken}]]
    BY <1>1, <1>3 DEF TokenTypeOK
  <2> QED
    BY <2>1, <2>2 DEF TokenTypeOK
<1>5. /\ Numbered'
      /\ DOMAIN plans \subseteq DOMAIN plans'
      /\ <<k, i>> \in DOMAIN plans'
  <2> HIDE DEF LeaseInv
  <2>1. TokenTypeOK /\ Numbered
    BY DEF LeaseInv
  <2>2. size' = [size EXCEPT ![k] = n] /\ plans' = Grown(k, n, c)
    BY DEF Lease
  <2> QED
    BY <2>1, <2>2, GrownNumbered
<1>6. inUse' = inUse \cup {<<k, i>>}
  BY DEF Lease
<1>7. \A u \in Threads, r \in Slots :
        Valid(u, r)' <=> (u = t /\ r = s) \/ Valid(u, r)
  BY <1>2, <1>3 DEF Valid
<1>8. LeasesMatch'
  <2>1. \A e \in inUse' : \E u \in Threads, r \in Slots : Holds(u, r, e)'
    <3> SUFFICES ASSUME NEW e \in inUse' PROVE \E u \in Threads, r \in Slots : Holds(u, r, e)'
      OBVIOUS
    <3>1. CASE e = <<k, i>>
      BY <1>2, <1>3, <1>7, <3>1 DEF Holds
    <3>2. CASE e \in inUse
      <4>1. PICK u \in Threads, r \in Slots : Holds(u, r, e)
        BY <3>2 DEF LeasesMatch
      <4>2. ~(u = t /\ r = s)
        BY <4>1 DEF Holds
      <4> QED
        BY <1>2, <1>7, <4>1, <4>2 DEF Holds
    <3> QED
      BY <1>6, <3>1, <3>2
  <2>2. \A u \in Threads, r \in Slots : Valid(u, r)' => token'[u][r].entry \in inUse'
    BY <1>2, <1>3, <1>6, <1>7 DEF LeasesMatch
  <2> QED
    BY <2>1, <2>2 DEF LeasesMatch
<1>9. LeasesExist'
  BY <1>5, <1>6 DEF LeasesExist
<1>10. Exclusive'
  <2> SUFFICES ASSUME NEW u \in Threads, NEW v \in Threads, NEW q \in Slots, NEW r \in Slots,
                      Valid(u, q)', Valid(v, r)', <<u, q>> # <<v, r>>
               PROVE  token'[u][q].entry # token'[v][r].entry
    BY DEF Exclusive
  <2>1. \A x \in Threads, y \in Slots : Valid(x, y) => token[x][y].entry # <<k, i>>
    BY DEF LeasesMatch
  <2>2. CASE u = t /\ q = s
    BY <1>2, <1>3, <1>7, <2>1, <2>2
  <2>3. CASE v = t /\ r = s
    BY <1>2, <1>3, <1>7, <2>1, <2>3
  <2>4. CASE ~(u = t /\ q = s) /\ ~(v = t /\ r = s)
    BY <1>2, <1>7, <2>4 DEF Exclusive
  <2> QED
    BY <2>2, <2>3, <2>4
<1> QED
  BY <1>4, <1>5, <1>8, <1>9, <1>10

\* The bookkeeping of a lease that ends: every other token stays.
LEMMA ReleaseStep ==
  ASSUME LeaseInv, NEW t \in Threads, NEW s \in Slots, Release(t, s)
  PROVE  LeaseInv'
<1> DEFINE e == token[t][s].entry
<1> USE DEF LeaseInv
<1>1. token' = [token EXCEPT ![t][s] = NoToken]
  BY DEF Release
<1>2. \A u \in Threads, r \in Slots :
        token'[u][r] = IF u = t /\ r = s THEN NoToken ELSE token[u][r]
  BY <1>1 DEF TokenTypeOK
<1>3. Valid(t, s) /\ inUse' = inUse \ {e} /\ size' = size
  BY DEF Release
<1>4. DOMAIN plans' = DOMAIN plans
  BY DEF Release, Returned
<1>5. \A u \in Threads, r \in Slots :
        Valid(u, r)' <=> ~(u = t /\ r = s) /\ Valid(u, r)
  BY <1>2 DEF Valid, NoToken
<1>6. TokenTypeOK' /\ Numbered'
  BY <1>1, <1>3, <1>4 DEF TokenTypeOK, Numbered
<1>7. LeasesMatch'
  <2>1. \A f \in inUse' : \E u \in Threads, r \in Slots : Holds(u, r, f)'
    <3> SUFFICES ASSUME NEW f \in inUse' PROVE \E u \in Threads, r \in Slots : Holds(u, r, f)'
      OBVIOUS
    <3>1. PICK u \in Threads, r \in Slots : Holds(u, r, f)
      BY <1>3 DEF LeasesMatch
    <3>2. ~(u = t /\ r = s)
      BY <1>3, <3>1 DEF Holds
    <3> QED
      BY <1>2, <1>5, <3>1, <3>2 DEF Holds
  <2>2. ASSUME NEW u \in Threads, NEW r \in Slots, Valid(u, r)'
        PROVE  token'[u][r].entry \in inUse'
    <3>1. ~(u = t /\ r = s) /\ Valid(u, r) /\ token'[u][r] = token[u][r]
      BY <1>2, <1>5, <2>2
    <3>2. token[u][r].entry # e
      BY <1>3, <3>1 DEF Exclusive
    <3> QED
      BY <1>3, <3>1, <3>2 DEF LeasesMatch
  <2> QED
    BY <2>1, <2>2 DEF LeasesMatch
<1>8. LeasesExist' /\ Exclusive'
  BY <1>2, <1>3, <1>4, <1>5 DEF LeasesExist, Exclusive
<1> QED
  BY <1>6, <1>7, <1>8

(* A moved lease changes hands after what the target held is released.       *)
LEMMA MoveStep ==
  ASSUME LeaseInv, NEW t \in Threads, NEW from \in Slots, NEW to \in Slots, Move(t, from, to)
  PROVE  LeaseInv'
<1> USE DEF LeaseInv
<1>1. token' = [token EXCEPT ![t][to] = token[t][from], ![t][from] = NoToken]
  BY DEF Move
<1>2. from # to /\ Valid(t, from) /\ size' = size
  BY DEF Move
<1>3. \A u \in Threads, r \in Slots :
        token'[u][r] = IF u = t /\ r = from THEN NoToken
                       ELSE IF u = t /\ r = to THEN token[t][from] ELSE token[u][r]
  BY <1>1, <1>2 DEF TokenTypeOK
<1>4. DOMAIN plans' = DOMAIN plans
  BY DEF Move, Returned
<1>5. TokenTypeOK' /\ Numbered'
  BY <1>1, <1>2, <1>4 DEF TokenTypeOK, Numbered
<1>6. \A u \in Threads, r \in Slots :
        Valid(u, r)' <=> \/ u = t /\ r = to
                         \/ Valid(u, r) /\ ~(u = t /\ r \in {from, to})
  BY <1>2, <1>3 DEF Valid, NoToken
<1>7. inUse' = {f \in inUse : ~(Valid(t, to) /\ f = token[t][to].entry)}
  BY DEF Move
<1>8. LeasesMatch'
  <2>1. \A f \in inUse' : \E u \in Threads, r \in Slots : Holds(u, r, f)'
    <3> SUFFICES ASSUME NEW f \in inUse' PROVE \E u \in Threads, r \in Slots : Holds(u, r, f)'
      OBVIOUS
    <3>1. PICK u \in Threads, r \in Slots : Holds(u, r, f)
      BY <1>7 DEF LeasesMatch
    <3>2. ~(u = t /\ r = to)
      BY <1>7, <3>1 DEF Holds
    <3>3. CASE u = t /\ r = from
      BY <1>2, <1>3, <1>6, <3>1, <3>3 DEF Holds
    <3>4. CASE ~(u = t /\ r = from)
      <4>1. token'[u][r] = token[u][r] /\ Valid(u, r)'
        BY <1>3, <1>6, <3>1, <3>2, <3>4 DEF Holds
      <4> QED
        BY <3>1, <4>1 DEF Holds
    <3> QED
      BY <3>3, <3>4
  <2>2. ASSUME NEW u \in Threads, NEW r \in Slots, Valid(u, r)'
        PROVE  token'[u][r].entry \in inUse'
    <3>1. CASE u = t /\ r = to
      <4>1. token'[u][r].entry = token[t][from].entry
        BY <1>2, <1>3, <3>1
      <4>2. Valid(t, to) => token[t][from].entry # token[t][to].entry
        BY <1>2 DEF Exclusive
      <4> QED
        BY <1>2, <1>7, <4>1, <4>2 DEF LeasesMatch
    <3>2. CASE ~(u = t /\ r = to)
      <4>1. Valid(u, r) /\ token'[u][r] = token[u][r]
        BY <1>3, <1>6, <2>2, <3>2
      <4>2. Valid(t, to) => token[u][r].entry # token[t][to].entry
        BY <3>2, <4>1 DEF Exclusive
      <4> QED
        BY <1>7, <4>1, <4>2 DEF LeasesMatch
    <3> QED
      BY <3>1, <3>2
  <2> QED
    BY <2>1, <2>2 DEF LeasesMatch
<1>9. LeasesExist'
  BY <1>4, <1>7 DEF LeasesExist
<1>10. Exclusive'
  <2> SUFFICES ASSUME NEW u \in Threads, NEW v \in Threads, NEW q \in Slots, NEW r \in Slots,
                      Valid(u, q)', Valid(v, r)', token'[u][q].entry = token'[v][r].entry
               PROVE  u = v /\ q = r
    BY DEF Exclusive
  <2> DEFINE Source(x, y) == IF x = t /\ y = to THEN from ELSE y
  <2>1. \A x \in Threads, y \in Slots : Valid(x, y)' =>
          Valid(x, Source(x, y)) /\ token'[x][y] = token[x][Source(x, y)]
    BY <1>2, <1>3, <1>6
  <2>2. u = v /\ Source(u, q) = Source(v, r)
    BY <2>1, SameHolder
  <2>3. ~(u = t /\ q = from) /\ ~(v = t /\ r = from)
    BY <1>2, <1>6
  <2> QED
    BY <2>2, <2>3
<1> QED
  BY <1>5, <1>8, <1>9, <1>10

\* Steps that lease and release nothing and construct no entry.
LEMMA PlanStep ==
  ASSUME LeaseInv, DOMAIN plans' = DOMAIN plans, UNCHANGED <<size, inUse, token>>
  PROVE  LeaseInv'
BY DEF LeaseInv, TokenTypeOK, Numbered, LeasesMatch, LeasesExist, Exclusive, Holds, Valid

\* Steps that construct entries and lease nothing.
LEMMA GrowthStep ==
  ASSUME LeaseInv, size' \in [Keys -> Nat], Numbered', DOMAIN plans \subseteq DOMAIN plans',
         UNCHANGED <<inUse, token>>
  PROVE  LeaseInv'
BY DEF LeaseInv, TokenTypeOK, LeasesMatch, LeasesExist, Exclusive, Holds, Valid
(* warm_bucket adds entries past the last one, so numbers stay dense and no  *)
(* entry is lost.                                                            *)
LEMMA WarmNumbered ==
  ASSUME LeaseInv, NEW c \in Settings, Warm(c)
  PROVE  /\ size' \in [Keys -> Nat]
         /\ Numbered'
         /\ DOMAIN plans \subseteq DOMAIN plans'
<1> USE DEF LeaseInv
<1>1. DOMAIN plans' = DOMAIN plans \cup
        UNION {{<<k, i>> : i \in size[k]..(Copies[k] - 1)} : k \in WarmKeys}
  BY DEF Warm
<1>2. \A k \in Keys : size[k] \in Nat /\ Copies[k] \in Nat
  BY CacheAssumption DEF TokenTypeOK
<1>3. \A k \in Keys : Larger(size[k], Copies[k]) \in Nat
  BY <1>2 DEF Larger
<1>4. size' = [k \in Keys |-> IF k \in WarmKeys THEN Larger(size[k], Copies[k]) ELSE size[k]]
  BY DEF Warm
<1>5. size' \in [Keys -> Nat]
  BY <1>2, <1>3, <1>4
<1>6. ASSUME NEW k \in Keys, NEW i \in Nat
      PROVE  <<k, i>> \in DOMAIN plans' <=> i < size'[k]
  <2>1. <<k, i>> \in DOMAIN plans <=> i < size[k]
    BY DEF Numbered, Entries
  <2>2. i \in size[k]..(Copies[k] - 1) <=> size[k] <= i /\ i < Copies[k]
    BY <1>2
  <2>3. <<k, i>> \in DOMAIN plans' <=>
          <<k, i>> \in DOMAIN plans \/ (k \in WarmKeys /\ i \in size[k]..(Copies[k] - 1))
    BY <1>1
  <2>4. CASE k \in WarmKeys
    <3>1. size'[k] = Larger(size[k], Copies[k])
      BY <1>4, <2>4
    <3> QED
      BY <1>2, <2>1, <2>2, <2>3, <2>4, <3>1 DEF Larger
  <2>5. CASE k \notin WarmKeys
    BY <1>4, <2>1, <2>3, <2>5
  <2> QED
    BY <2>4, <2>5
<1>7. DOMAIN plans' \subseteq Entries
  <2>1. \A k \in WarmKeys : \A i \in size[k]..(Copies[k] - 1) : k \in Keys /\ i \in Nat
    BY <1>2, CacheAssumption
  <2> QED
    BY <1>1, <2>1 DEF Numbered, Entries
<1>8. \A e \in Entries : e \in DOMAIN plans' <=> e[2] < size'[e[1]]
  BY <1>6 DEF Entries
<1> QED
  BY <1>1, <1>5, <1>7, <1>8 DEF Numbered

(* get_plan: a free entry, or a new one in a bucket that grows, goes to the  *)
(* token that asked.                                                         *)
LEMMA GetPlanStep ==
  ASSUME LeaseInv, NEW t \in Threads, NEW s \in Slots, NEW k \in Keys, NEW c \in Settings,
         GetPlan(t, s, k, c)
  PROVE  LeaseInv'
<1> DEFINE n == Larger(size[k], Copies[k])
           free == {i \in 0..(n - 1) : <<k, i>> \notin inUse}
<1>1. size[k] \in Nat /\ Copies[k] \in Nat
  BY CacheAssumption DEF LeaseInv, TokenTypeOK
<1>2. n \in Nat /\ n + 1 \in Nat /\ n >= size[k] /\ n + 1 >= size[k] /\ n < n + 1
  BY <1>1 DEF Larger
<1>3. ~Valid(t, s)
  BY DEF GetPlan
<1>4. CASE \E i \in free : Lease(t, s, k, i, n, c)
  <2>1. PICK i \in free : Lease(t, s, k, i, n, c)
    BY <1>4
  <2>2. i \in Nat /\ i < n /\ <<k, i>> \notin inUse
    BY <1>2, <2>1
  <2> QED
    BY <1>2, <1>3, <2>1, <2>2, LeaseStep
<1>5. CASE Lease(t, s, k, n, n + 1, c)
  <2>1. <<k, n>> \notin DOMAIN plans
    BY <1>1, <1>2 DEF LeaseInv, Numbered
  <2>2. <<k, n>> \notin inUse
    BY <2>1 DEF LeaseInv, LeasesExist
  <2> HIDE DEF n
  <2> QED
    BY <1>2, <1>3, <1>5, <2>2, LeaseStep
<1> QED
  BY <1>4, <1>5 DEF GetPlan

(* A constructor that throws leaves the entries made so far, all of them     *)
(* free.                                                                     *)
LEMMA ConstructionStep ==
  ASSUME LeaseInv, NEW k \in Keys, NEW c \in Settings, ConstructionFails(k, c)
  PROVE  LeaseInv'
<1>1. PICK n \in size[k]..Larger(size[k], Copies[k]) :
        size' = [size EXCEPT ![k] = n] /\ plans' = Grown(k, n, c)
  BY DEF ConstructionFails
<1>2. size[k] \in Nat /\ Copies[k] \in Nat
  BY CacheAssumption DEF LeaseInv, TokenTypeOK
<1>3. n \in Nat /\ n >= size[k]
  BY <1>1, <1>2 DEF Larger
<1>4. Numbered' /\ DOMAIN plans \subseteq DOMAIN plans'
  <2>1. TokenTypeOK /\ Numbered
    BY DEF LeaseInv
  <2> QED
    BY <1>1, <1>3, <2>1, GrownNumbered
<1>5. size' \in [Keys -> Nat]
  BY <1>1, <1>3 DEF LeaseInv, TokenTypeOK
<1>6. UNCHANGED <<inUse, token>>
  BY DEF ConstructionFails
<1> QED
  BY <1>4, <1>5, <1>6, GrowthStep

(* Every operation of the cache keeps LeaseInv.                              *)
LEMMA LeaseInvariance == LeaseInv /\ [Next]_vars => LeaseInv'
<1> SUFFICES ASSUME LeaseInv, [Next]_vars PROVE LeaseInv'
  OBVIOUS
<1>1. ASSUME NEW t \in Threads, NEW s \in Slots, NEW k \in Keys, NEW c \in Settings,
             GetPlan(t, s, k, c)
      PROVE  LeaseInv'
  BY <1>1, GetPlanStep
<1>2. ASSUME NEW t \in Threads, NEW s \in Slots, Release(t, s)
      PROVE  LeaseInv'
  BY <1>2, ReleaseStep
<1>3. ASSUME NEW t \in Threads, NEW s \in Slots, NEW to \in Slots, Move(t, s, to)
      PROVE  LeaseInv'
  BY <1>3, MoveStep
<1>4. ASSUME NEW t \in Threads, NEW s \in Slots,
             InstallDispatcher(t, s) \/ ClearDispatcher(t, s)
      PROVE  LeaseInv'
  <2>1. DOMAIN plans' = DOMAIN plans /\ UNCHANGED <<size, inUse, token>>
    BY <1>4 DEF InstallDispatcher, ClearDispatcher
  <2> QED
    BY <2>1, PlanStep
<1>5. ASSUME NEW t \in Threads, LeaveScope(t) \/ ScopeLeft(t)
      PROVE  LeaseInv'
  <2>1. DOMAIN plans' = DOMAIN plans /\ UNCHANGED <<size, inUse, token>>
    BY <1>5 DEF LeaveScope, ScopeLeft
  <2> QED
    BY <2>1, PlanStep
<1>6. ASSUME NEW c \in Settings, Warm(c)
      PROVE  LeaseInv'
  <2>1. UNCHANGED <<inUse, token>>
    BY <1>6 DEF Warm
  <2> QED
    BY <1>6, <2>1, WarmNumbered, GrowthStep
<1>7. ASSUME NEW k \in Keys, NEW c \in Settings, ConstructionFails(k, c)
      PROVE  LeaseInv'
  BY <1>7, ConstructionStep
<1>8. CASE UNCHANGED vars
  <2>1. DOMAIN plans' = DOMAIN plans /\ UNCHANGED <<size, inUse, token>>
    BY <1>8 DEF vars
  <2> QED
    BY <2>1, PlanStep
<1> QED
  BY <1>1, <1>2, <1>3, <1>4, <1>5, <1>6, <1>7, <1>8 DEF Next, HolderStep

-----------------------------------------------------------------------------
\* A dispatcher other than the inline one belongs to a thread that holds the
\* plan, and lives on that thread's stack or is being left behind by it.
DispatcherHeld ==
  \A e \in DOMAIN plans :
    \/ plans[e].dispatcher = Inline
    \/ /\ plans[e].dispatcher \in scoped \cup unwinding
       /\ \E s \in Slots : Holds(plans[e].dispatcher, s, e)

ThreadsKnown == scoped \subseteq Threads /\ unwinding \subseteq Threads

PlansTyped ==
  \A e \in DOMAIN plans : plans[e] \in [setting : Settings, dispatcher : Threads \cup {Inline}]

DispatcherInv == DispatcherHeld /\ ThreadsKnown /\ PlansTyped

\* What set_dispatcher changes.
LEMMA Redirected ==
  ASSUME PlansTyped, NEW x \in DOMAIN plans, NEW d \in Threads \cup {Inline},
         plans' = [plans EXCEPT ![x].dispatcher = d]
  PROVE  /\ DOMAIN plans' = DOMAIN plans
         /\ PlansTyped'
         /\ plans'[x].dispatcher = d
         /\ \A e \in DOMAIN plans : e # x => plans'[e] = plans[e]
<1>1. plans[x] \in [setting : Settings, dispatcher : Threads \cup {Inline}]
  BY DEF PlansTyped
<1>2. plans'[x] = [setting |-> plans[x].setting, dispatcher |-> d]
  <2>1. plans'[x] = [plans[x] EXCEPT !.dispatcher = d]
    OBVIOUS
  <2> QED
    BY <1>1, <2>1
<1>3. DOMAIN plans' = DOMAIN plans
  OBVIOUS
<1>4. \A e \in DOMAIN plans : e # x => plans'[e] = plans[e]
  OBVIOUS
<1> QED
  BY <1>1, <1>2, <1>3, <1>4 DEF PlansTyped

\* Steps that construct entries, with new plans' dispatchers inline, and take
\* no token away.
LEMMA DispatcherGrowth ==
  ASSUME DispatcherInv, UNCHANGED <<scoped, unwinding>>,
         \A e \in DOMAIN plans' :
           IF e \in DOMAIN plans THEN plans'[e] = plans[e]
           ELSE \E c \in Settings : plans'[e] = Fresh(c),
         \A t \in Threads, s \in Slots : \A e \in DOMAIN plans : Holds(t, s, e) => Holds(t, s, e)'
  PROVE  DispatcherInv'
<1>1. ThreadsKnown'
  BY DEF DispatcherInv, ThreadsKnown
<1>2. ASSUME NEW e \in DOMAIN plans', plans'[e].dispatcher # Inline
      PROVE  /\ plans'[e].dispatcher \in (scoped \cup unwinding)'
             /\ \E s \in Slots : Holds(plans[e].dispatcher, s, e)' /\ plans'[e] = plans[e]
  <2>1. e \in DOMAIN plans /\ plans'[e] = plans[e]
    BY <1>2 DEF Fresh
  <2>2. /\ plans[e].dispatcher \in scoped \cup unwinding
        /\ \E s \in Slots : Holds(plans[e].dispatcher, s, e)
    BY <1>2, <2>1 DEF DispatcherInv, DispatcherHeld
  <2> QED
    BY <2>1, <2>2 DEF DispatcherInv, ThreadsKnown
<1>3. DispatcherHeld'
  BY <1>2 DEF DispatcherHeld, Holds, Valid
<1>4. PlansTyped'
  BY DEF DispatcherInv, PlansTyped, Fresh
<1> QED
  BY <1>1, <1>3, <1>4 DEF DispatcherInv

(* A leased entry was free, so no dispatcher is in it.                       *)
LEMMA DispatcherLease ==
  ASSUME LeaseInv, DispatcherInv, NEW t \in Threads, NEW s \in Slots, NEW k \in Keys,
         NEW c \in Settings, GetPlan(t, s, k, c)
  PROVE  DispatcherInv'
<1>1. PICK i, n : Lease(t, s, k, i, n, c)
  BY DEF GetPlan
<1>2. \A e \in DOMAIN plans' :
        IF e \in DOMAIN plans THEN plans'[e] = plans[e]
        ELSE \E d \in Settings : plans'[e] = Fresh(d)
  BY <1>1 DEF Lease, Grown
<1>3. \A u \in Threads, r \in Slots : ~(u = t /\ r = s) => token'[u][r] = token[u][r]
  BY <1>1 DEF Lease, LeaseInv, TokenTypeOK
<1>4. ~Valid(t, s)
  BY DEF GetPlan
<1>5. \A u \in Threads, r \in Slots : \A e \in DOMAIN plans : Holds(u, r, e) => Holds(u, r, e)'
  BY <1>3, <1>4 DEF Holds, Valid
<1>6. UNCHANGED <<scoped, unwinding>>
  BY <1>1 DEF Lease
<1> QED
  BY <1>2, <1>5, <1>6, DispatcherGrowth

(* A release resets the plan, dispatcher included, before anybody else can   *)
(* lease it.                                                                 *)
LEMMA DispatcherRelease ==
  ASSUME LeaseInv, DispatcherInv, NEW t \in Threads, NEW s \in Slots, Release(t, s)
  PROVE  DispatcherInv'
<1> DEFINE gone == token[t][s].entry
<1>1. plans' = [plans EXCEPT ![gone].dispatcher = Inline] /\ UNCHANGED <<scoped, unwinding>>
  BY DEF Release, Returned
<1>2. Valid(t, s) /\ gone \in DOMAIN plans
  BY DEF Release, LeaseInv, LeasesMatch, LeasesExist
<1>3. \A u \in Threads, r \in Slots : ~(u = t /\ r = s) => token'[u][r] = token[u][r]
  BY DEF Release, LeaseInv, TokenTypeOK
<1> HIDE DEF gone
<1>4. /\ DOMAIN plans' = DOMAIN plans /\ PlansTyped' /\ plans'[gone].dispatcher = Inline
      /\ \A e \in DOMAIN plans : e # gone => plans'[e] = plans[e]
  BY <1>1, <1>2, Redirected DEF DispatcherInv
<1>5. ASSUME NEW e \in DOMAIN plans', plans'[e].dispatcher # Inline
      PROVE  /\ plans'[e].dispatcher \in (scoped \cup unwinding)'
             /\ \E r \in Slots : Holds(plans[e].dispatcher, r, e)'
  <2>1. e # gone /\ e \in DOMAIN plans /\ plans'[e] = plans[e]
    BY <1>5, <1>4
  <2>2. PICK r \in Slots : Holds(plans[e].dispatcher, r, e)
    BY <1>5, <2>1 DEF DispatcherInv, DispatcherHeld
  <2>3. plans[e].dispatcher \in scoped \cup unwinding
    BY <1>5, <2>1 DEF DispatcherInv, DispatcherHeld
  <2>4. plans[e].dispatcher \in Threads
    BY <2>3 DEF DispatcherInv, ThreadsKnown
  <2>5. ~(plans[e].dispatcher = t /\ r = s)
    BY <2>1, <2>2 DEF Holds, gone
  <2>6. Holds(plans[e].dispatcher, r, e)'
    BY <1>3, <2>1, <2>2, <2>4, <2>5 DEF Holds, Valid
  <2> QED
    BY <1>1, <2>1, <2>3, <2>6 DEF Holds, Valid
<1> QED
  BY <1>1, <1>5, <1>4 DEF DispatcherInv, DispatcherHeld, ThreadsKnown, Holds, Valid

(* A move keeps a dispatcher with its owner and resets the plan it           *)
(* releases.                                                                 *)
LEMMA DispatcherMove ==
  ASSUME LeaseInv, DispatcherInv, NEW t \in Threads, NEW from \in Slots, NEW to \in Slots,
         Move(t, from, to)
  PROVE  DispatcherInv'
<1> DEFINE gone == token[t][to].entry
<1>1. /\ from # to /\ Valid(t, from) /\ UNCHANGED <<scoped, unwinding>>
      /\ IF Valid(t, to) THEN plans' = [plans EXCEPT ![gone].dispatcher = Inline]
                         ELSE plans' = plans
  BY DEF Move, Returned
<1>2. Valid(t, to) => gone \in DOMAIN plans
  BY DEF LeaseInv, LeasesMatch, LeasesExist
<1>3. token' = [token EXCEPT ![t][to] = token[t][from], ![t][from] = NoToken]
  BY DEF Move
<1>4. \A u \in Threads, r \in Slots :
        token'[u][r] = IF u = t /\ r = from THEN NoToken
                       ELSE IF u = t /\ r = to THEN token[t][from] ELSE token[u][r]
  BY <1>1, <1>3 DEF LeaseInv, TokenTypeOK
<1>5. /\ DOMAIN plans' = DOMAIN plans /\ PlansTyped'
      /\ Valid(t, to) => plans'[gone].dispatcher = Inline
      /\ \A e \in DOMAIN plans : ~(Valid(t, to) /\ e = gone) => plans'[e] = plans[e]
  <2>1. CASE Valid(t, to)
    <3> HIDE DEF gone
    <3> QED
      BY <1>1, <1>2, <2>1, Redirected DEF DispatcherInv
  <2>2. CASE ~Valid(t, to)
    BY <1>1, <2>2 DEF DispatcherInv, PlansTyped
  <2> QED
    BY <2>1, <2>2
<1>6. ASSUME NEW e \in DOMAIN plans', plans'[e].dispatcher # Inline
      PROVE  /\ plans'[e].dispatcher \in (scoped \cup unwinding)'
             /\ \E r \in Slots : Holds(plans[e].dispatcher, r, e)'
  <2>1. e \in DOMAIN plans /\ plans'[e] = plans[e] /\ ~(Valid(t, to) /\ e = gone)
    BY <1>6, <1>5
  <2> DEFINE u == plans[e].dispatcher
  <2>2. u \in scoped \cup unwinding
    BY <1>6, <2>1 DEF DispatcherInv, DispatcherHeld
  <2>3. PICK r \in Slots : Holds(u, r, e)
    BY <1>6, <2>1 DEF DispatcherInv, DispatcherHeld
  <2>4. u \in Threads
    BY <2>2 DEF DispatcherInv, ThreadsKnown
  <2> HIDE DEF u
  <2>5. CASE u = t /\ r = from
    <3>1. token'[u][to] = token[u][r]
      BY <1>1, <1>4, <2>5
    <3> QED
      BY <1>1, <2>1, <2>2, <2>3, <3>1 DEF Holds, Valid, u
  <2>6. CASE ~(u = t /\ r = from)
    <3>1. ~(u = t /\ r = to)
      BY <2>1, <2>3 DEF Holds
    <3>2. token'[u][r] = token[u][r]
      BY <1>4, <2>4, <2>6, <3>1
    <3> QED
      BY <1>1, <2>1, <2>2, <2>3, <3>2 DEF Holds, Valid, u
  <2> QED
    BY <2>5, <2>6
<1> QED
  BY <1>1, <1>6, <1>5 DEF DispatcherInv, DispatcherHeld, ThreadsKnown, Holds, Valid

(* set_dispatcher: a thread reaches only plans it holds itself.              *)
LEMMA DispatcherInstall ==
  ASSUME LeaseInv, DispatcherInv, NEW t \in Threads, NEW s \in Slots,
         InstallDispatcher(t, s) \/ ClearDispatcher(t, s)
  PROVE  DispatcherInv'
<1> DEFINE mine == token[t][s].entry
<1>1. /\ Valid(t, s) /\ UNCHANGED <<token, unwinding>>
      /\ \/ plans' = [plans EXCEPT ![mine].dispatcher = t] /\ scoped' = scoped \cup {t}
         \/ plans' = [plans EXCEPT ![mine].dispatcher = Inline] /\ scoped' = scoped
  BY DEF InstallDispatcher, ClearDispatcher
<1>2. mine \in DOMAIN plans
  BY <1>1 DEF LeaseInv, LeasesMatch, LeasesExist
<1>3. /\ DOMAIN plans' = DOMAIN plans /\ PlansTyped'
      /\ plans'[mine].dispatcher \in {t, Inline}
      /\ plans'[mine].dispatcher = t => t \in scoped' \/ t = Inline
      /\ \A e \in DOMAIN plans : e # mine => plans'[e] = plans[e]
  <2> HIDE DEF mine
  <2>1. CASE plans' = [plans EXCEPT ![mine].dispatcher = t] /\ scoped' = scoped \cup {t}
    BY <1>2, <2>1, Redirected DEF DispatcherInv
  <2>2. CASE plans' = [plans EXCEPT ![mine].dispatcher = Inline]
    BY <1>2, <2>2, Redirected DEF DispatcherInv
  <2> QED
    BY <1>1, <2>1, <2>2
<1>4. ASSUME NEW e \in DOMAIN plans', plans'[e].dispatcher # Inline
      PROVE  /\ plans'[e].dispatcher \in (scoped \cup unwinding)'
             /\ \E r \in Slots : Holds(plans[e].dispatcher, r, e)'
  <2>1. CASE e = mine
    <3>1. plans'[e].dispatcher = t /\ t \in scoped'
      BY <1>4, <1>3, <2>1
    <3> QED
      BY <1>1, <2>1, <3>1 DEF Holds, Valid
  <2>2. CASE e # mine
    <3>1. e \in DOMAIN plans /\ plans'[e] = plans[e]
      BY <1>3, <2>2
    <3> QED
      BY <1>1, <1>4, <3>1 DEF DispatcherInv, DispatcherHeld, Holds, Valid
  <2> QED
    BY <2>1, <2>2
<1>5. scoped' \cup unwinding' \subseteq Threads
  BY <1>1 DEF DispatcherInv, ThreadsKnown
<1> QED
  BY <1>4, <1>5, <1>3 DEF DispatcherInv, DispatcherHeld, ThreadsKnown, Holds, Valid

\* Only a thread without tokens has left its scope for good.
LEMMA DispatcherScope ==
  ASSUME DispatcherInv, NEW t \in Threads, LeaveScope(t) \/ ScopeLeft(t)
  PROVE  DispatcherInv'
<1>1. UNCHANGED <<plans, token>>
  BY DEF LeaveScope, ScopeLeft
<1>2. ASSUME NEW e \in DOMAIN plans', plans'[e].dispatcher # Inline
      PROVE  /\ plans'[e].dispatcher \in (scoped \cup unwinding)'
             /\ \E r \in Slots : Holds(plans[e].dispatcher, r, e)'
  <2>1. /\ plans[e].dispatcher \in scoped \cup unwinding
        /\ \E r \in Slots : Holds(plans[e].dispatcher, r, e)
    BY <1>1, <1>2 DEF DispatcherInv, DispatcherHeld
  <2>2. ScopeLeft(t) => plans[e].dispatcher # t
    BY <2>1 DEF ScopeLeft, Holds
  <2>3. plans[e].dispatcher \in (scoped \cup unwinding)'
    BY <2>1, <2>2 DEF LeaveScope, ScopeLeft
  <2> QED
    BY <1>1, <2>1, <2>3 DEF Holds, Valid
<1>3. (scoped \cup unwinding)' \subseteq Threads
  BY DEF LeaveScope, ScopeLeft, DispatcherInv, ThreadsKnown
<1> QED
  BY <1>1, <1>2, <1>3 DEF DispatcherInv, DispatcherHeld, ThreadsKnown, PlansTyped, Holds, Valid

(* Every operation keeps DispatcherInv.                                      *)
LEMMA DispatcherInvariance ==
  LeaseInv /\ DispatcherInv /\ [Next]_vars => DispatcherInv'
<1> SUFFICES ASSUME LeaseInv, DispatcherInv, [Next]_vars PROVE DispatcherInv'
  OBVIOUS
<1>1. ASSUME NEW t \in Threads, HolderStep(t) \/ LeaveScope(t) \/ ScopeLeft(t)
      PROVE  DispatcherInv'
  <2>1. ASSUME NEW s \in Slots, NEW k \in Keys, NEW c \in Settings, GetPlan(t, s, k, c)
        PROVE  DispatcherInv'
    BY <2>1, DispatcherLease
  <2>2. ASSUME NEW s \in Slots, Release(t, s)
        PROVE  DispatcherInv'
    BY <2>2, DispatcherRelease
  <2>3. ASSUME NEW s \in Slots, InstallDispatcher(t, s) \/ ClearDispatcher(t, s)
        PROVE  DispatcherInv'
    BY <2>3, DispatcherInstall
  <2>4. ASSUME NEW s \in Slots, NEW to \in Slots, Move(t, s, to)
        PROVE  DispatcherInv'
    BY <2>4, DispatcherMove
  <2>5. CASE LeaveScope(t) \/ ScopeLeft(t)
    BY <2>5, DispatcherScope
  <2> QED
    BY <1>1, <2>1, <2>2, <2>3, <2>4, <2>5 DEF HolderStep
<1>2. ASSUME NEW c \in Settings, Warm(c) \/ \E k \in Keys : ConstructionFails(k, c)
      PROVE  DispatcherInv'
  <2>1. \A e \in DOMAIN plans' :
          IF e \in DOMAIN plans THEN plans'[e] = plans[e]
          ELSE \E d \in Settings : plans'[e] = Fresh(d)
    BY <1>2 DEF Warm, ConstructionFails, Grown
  <2>2. UNCHANGED <<token, scoped, unwinding>>
    BY <1>2 DEF Warm, ConstructionFails
  <2> QED
    BY <2>1, <2>2, DispatcherGrowth DEF Holds, Valid
<1>3. CASE UNCHANGED vars
  BY <1>3, DispatcherGrowth DEF vars, Holds, Valid
<1> QED
  BY <1>1, <1>2, <1>3 DEF Next, HolderStep

-----------------------------------------------------------------------------
PeakInv == peak \in [Keys -> Nat] /\ BoundedGrowth

(* Only finitely many entries are in use, as there are finitely many         *)
(* tokens.                                                                   *)
LEMMA LeasedFinite ==
  ASSUME NEW k \in Keys
  PROVE  IsFiniteSet(Leased(k)) /\ Cardinality(Leased(k)) \in Nat
<1>1. IsFiniteSet(Threads \X Slots)
  BY CacheAssumption, FS_Product
<1>2. Leased(k) \subseteq Threads \X Slots
  BY DEF Leased
<1> QED
  BY <1>1, <1>2, FS_Subset, FS_CardinalityType

\* If the first n entries of a bucket are in use, n tokens hold them.
LEMMA FullBucket ==
  ASSUME LeaseInv, NEW k \in Keys, NEW n \in Nat, \A i \in 0..(n - 1) : <<k, i>> \in inUse
  PROVE  n <= Cardinality(Leased(k))
<1> DEFINE Holder(i) == CHOOSE p \in Leased(k) : token[p[1]][p[2]].entry = <<k, i>>
           f == [i \in 0..(n - 1) |-> Holder(i)]
<1>1. ASSUME NEW i \in 0..(n - 1)
      PROVE  Holder(i) \in Leased(k) /\ token[Holder(i)[1]][Holder(i)[2]].entry = <<k, i>>
  <2>1. PICK t \in Threads, s \in Slots : Holds(t, s, <<k, i>>)
    BY DEF LeaseInv, LeasesMatch
  <2>2. <<t, s>> \in Leased(k) /\ token[t][s].entry = <<k, i>>
    BY <2>1 DEF Holds, Leased
  <2>3. \E p \in Leased(k) : token[p[1]][p[2]].entry = <<k, i>>
    BY <2>2
  <2> QED
    BY <2>3
<1>2. f \in [0..(n - 1) -> Leased(k)]
  BY <1>1
<1>3. ASSUME NEW i \in 0..(n - 1), NEW j \in 0..(n - 1), f[i] = f[j]
      PROVE  i = j
  <2>1. <<k, i>> = <<k, j>>
    BY <1>1, <1>3
  <2> QED
    BY <2>1
<1>4. f \in Injection(0..(n - 1), Leased(k))
  BY <1>2, <1>3 DEF Injection, IsInjective
<1>5. Cardinality(0..(n - 1)) = n
  BY FS_Interval
<1> HIDE DEF f
<1> QED
  BY <1>4, <1>5, LeasedFinite, FS_Injection

(* get_plan grows a bucket only when every entry of it is leased: then its   *)
(* size is a new peak.                                                       *)
LEMMA PeakLease ==
  ASSUME LeaseInv, PeakInv, NEW t \in Threads, NEW s \in Slots, NEW k \in Keys,
         NEW c \in Settings, GetPlan(t, s, k, c)
  PROVE  PeakInv'
<1> DEFINE n == Larger(size[k], Copies[k])
           leases == Cardinality(Leased(k))
           free == {i \in 0..(n - 1) : <<k, i>> \notin inUse}
<1>1. /\ \A j \in Keys : size[j] \in Nat /\ Copies[j] \in Nat /\ peak[j] \in Nat
      /\ \A j \in Keys : size[j] <= Larger(Copies[j], peak[j])
      /\ leases \in Nat
  BY CacheAssumption, LeasedFinite DEF LeaseInv, TokenTypeOK, PeakInv, BoundedGrowth
<1>2. n \in Nat /\ n <= Larger(Copies[k], peak[k])
  BY <1>1 DEF Larger
<1> HIDE DEF n, leases
<1>3. PICK m \in {n, n + 1} : /\ m = n \/ n <= leases
                              /\ \E i : Lease(t, s, k, i, m, c)
  <2>1. CASE \E i \in free : Lease(t, s, k, i, n, c)
    BY <2>1
  <2>2. CASE free = {} /\ Lease(t, s, k, n, n + 1, c)
    <3>1. \A i \in 0..(n - 1) : <<k, i>> \in inUse
      BY <2>2
    <3>2. n <= leases
      BY <1>2, <3>1, FullBucket DEF leases
    <3> QED
      BY <2>2, <3>2
  <2> QED
    BY <2>1, <2>2 DEF GetPlan, n
<1>4. /\ size' = [size EXCEPT ![k] = m]
      /\ peak' = [peak EXCEPT ![k] = Larger(@, leases + 1)]
  BY <1>3 DEF Lease, leases
<1>5. Larger(peak[k], leases + 1) \in Nat
  BY <1>1 DEF Larger
<1>6. peak' \in [Keys -> Nat]
  BY <1>4, <1>5 DEF PeakInv
<1>7. ASSUME NEW j \in Keys
      PROVE  size'[j] <= Larger(Copies[j], peak'[j])
  <2>1. CASE j = k
    <3>1. size'[j] = m /\ peak'[j] = Larger(peak[k], leases + 1)
      BY <1>4, <2>1 DEF LeaseInv, TokenTypeOK, PeakInv
    <3>2. m <= Larger(Copies[k], Larger(peak[k], leases + 1))
      BY <1>1, <1>2, <1>3 DEF Larger
    <3> QED
      BY <2>1, <3>1, <3>2
  <2>2. CASE j # k
    <3>1. size'[j] = size[j] /\ peak'[j] = peak[j]
      BY <1>4, <2>2 DEF LeaseInv, TokenTypeOK, PeakInv
    <3> QED
      BY <1>1, <3>1
  <2> QED
    BY <2>1, <2>2
<1> QED
  BY <1>6, <1>7 DEF PeakInv, BoundedGrowth

(* Every operation keeps the bound of the buckets by the peaks.              *)
LEMMA PeakInvariance == LeaseInv /\ PeakInv /\ [Next]_vars => PeakInv'
<1> SUFFICES ASSUME LeaseInv, PeakInv, [Next]_vars PROVE PeakInv'
  OBVIOUS
<1>1. /\ \A j \in Keys : size[j] \in Nat /\ Copies[j] \in Nat /\ peak[j] \in Nat
      /\ \A j \in Keys : size[j] <= Larger(Copies[j], peak[j])
  BY CacheAssumption DEF LeaseInv, TokenTypeOK, PeakInv, BoundedGrowth
<1>2. ASSUME NEW t \in Threads, NEW s \in Slots, NEW k \in Keys, NEW c \in Settings,
             GetPlan(t, s, k, c)
      PROVE  PeakInv'
  BY <1>2, PeakLease
<1>3. ASSUME NEW c \in Settings, Warm(c)
      PROVE  PeakInv'
  <2>1. peak' = peak
    BY <1>3 DEF Warm
  <2>2. \A j \in Keys : size'[j] \in {size[j], Larger(size[j], Copies[j])}
    BY <1>3 DEF Warm
  <2>3. \A j \in Keys : size'[j] <= Larger(Copies[j], peak[j])
    BY <1>1, <2>2 DEF Larger
  <2> QED
    BY <2>1, <2>3 DEF PeakInv, BoundedGrowth
<1>4. ASSUME NEW k \in Keys, NEW c \in Settings, ConstructionFails(k, c)
      PROVE  PeakInv'
  <2>1. PICK n \in size[k]..Larger(size[k], Copies[k]) : size' = [size EXCEPT ![k] = n]
    BY <1>4 DEF ConstructionFails
  <2>2. peak' = peak
    BY <1>4 DEF ConstructionFails
  <2>3. n <= Larger(Copies[k], peak[k])
    BY <1>1, <2>1 DEF Larger
  <2>4. \A j \in Keys : size'[j] <= Larger(Copies[j], peak[j])
    BY <1>1, <2>1, <2>3 DEF LeaseInv, TokenTypeOK
  <2> QED
    BY <2>2, <2>4 DEF PeakInv, BoundedGrowth
<1>5. ASSUME UNCHANGED <<size, peak>>
      PROVE  PeakInv'
  BY <1>5 DEF PeakInv, BoundedGrowth
<1>6. ASSUME NEW t \in Threads, NEW s \in Slots,
             \/ Release(t, s) \/ InstallDispatcher(t, s) \/ ClearDispatcher(t, s)
             \/ \E to \in Slots : Move(t, s, to)
      PROVE  PeakInv'
  BY <1>5, <1>6 DEF Release, InstallDispatcher, ClearDispatcher, Move
<1>7. ASSUME NEW t \in Threads, LeaveScope(t) \/ ScopeLeft(t)
      PROVE  PeakInv'
  BY <1>5, <1>7 DEF LeaveScope, ScopeLeft
<1>8. CASE UNCHANGED vars
  BY <1>5, <1>8 DEF vars
<1> QED
  BY <1>2, <1>3, <1>4, <1>6, <1>7, <1>8 DEF Next, HolderStep

-----------------------------------------------------------------------------
\* Each token owns its plan alone: get_plan never hands out an entry that
\* another valid token names, whatever threads do and whichever construction
\* throws.
THEOREM LeasesAreExclusive == Spec => []Exclusive
<1>1. LeaseInv => Exclusive
  BY DEF LeaseInv
<1> QED
  BY InitLease, LeaseInvariance, <1>1, PTL DEF Spec

\* in_use is set exactly for the entries that valid tokens name: no lease is
\* leaked by a move, by a throwing construction or by the warming.
THEOREM LeasesAreAccounted == Spec => []LeasesMatch
<1>1. LeaseInv => LeasesMatch
  BY DEF LeaseInv
<1> QED
  BY InitLease, LeaseInvariance, <1>1, PTL DEF Spec

\* However a call ends, by return or by an exception that skips
\* set_dispatcher(nullptr), no plan keeps a pointer to a dispatcher on a stack
\* that is gone, except until the thread that leaves has released its token.
THEOREM NoDanglingDispatcher == Spec => []NoDangling
<1>1. Init => DispatcherInv
  BY DEF Init, DispatcherInv, DispatcherHeld, ThreadsKnown, PlansTyped
<1>2. DispatcherInv => NoDangling
  BY DEF DispatcherInv, DispatcherHeld, ThreadsKnown, NoDangling
<1> QED
  BY InitLease, LeaseInvariance, DispatcherInvariance, <1>1, <1>2, PTL DEF Spec

\* The cache does not pile up plans: a bucket has no more entries than its
\* minimum pool, or than tokens of its key were once valid at the same time.
THEOREM BucketsAreBounded == Spec => []BoundedGrowth
<1>1. Init => PeakInv
  BY CacheAssumption DEF Init, PeakInv, BoundedGrowth, Larger
<1>2. PeakInv => BoundedGrowth
  BY DEF PeakInv
<1> QED
  BY InitLease, LeaseInvariance, PeakInvariance, <1>1, <1>2, PTL DEF Spec
=============================================================================
