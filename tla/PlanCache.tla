----------------------------- MODULE PlanCache -----------------------------
(***************************************************************************)
(* eigfft::PlanCache (plan_support.hpp): threads lease FFT plans.  A key   *)
(* (size, direction, normalised threads and lanes, transpose capacity)     *)
(* names a bucket of entries; get_plan hands out the first entry that is   *)
(* not in use, or a new one, and the Token it returns gives the entry back *)
(* when it is destroyed or assigned to.  Every critical section of mutex_  *)
(* is one action.                                                          *)
(*                                                                         *)
(* While a thread holds a plan it may install a dispatcher that lives on   *)
(* the thread's stack, as fft_cffi.cpp does: the dispatcher dies before    *)
(* the token, because it is declared after it.                             *)
(***************************************************************************)
EXTENDS Naturals, FiniteSets

CONSTANTS
  Threads,      (* callers, pool workers included                          *)
  Slots,        (* the Token variables each of them has                    *)
  Keys,         (* normalised PlanKeys                                     *)
  Copies,       (* Copies[k]: the key's thread count, its minimum pool     *)
  WarmKeys,     (* the keys warm_audio_profiles visits                     *)
  Settings,     (* what PlanRuntimeConfig says beyond the key              *)
  MaxFailures   (* bound: plan constructions that throw                    *)

ASSUME CacheAssumption ==
  /\ Copies \in [Keys -> Nat \ {0}]
  /\ WarmKeys \subseteq Keys
  /\ IsFiniteSet(Threads) /\ IsFiniteSet(Slots) /\ IsFiniteSet(Keys)
  /\ MaxFailures \in Nat

Inline == "inline"            \* InlineDispatcher::instance()
NoToken == [valid |-> FALSE]  \* a Token that owns nothing

VARIABLES
  size,      (* size[k]: entries.size() of the key's bucket                *)
  plans,     (* plans[<<k, i>>]: entry i of bucket k, once constructed     *)
  inUse,     (* the entries whose in_use flag is set                       *)
  token,     (* token[t][s]: the entry and what was asked for, or NoToken  *)
  scoped,    (* threads whose stack dispatcher is alive                    *)
  unwinding, (* threads leaving the scope of their tokens                  *)
  failures,  (* constructions that have thrown                             *)
  peak       (* history: most tokens of a key ever valid at once           *)

vars == <<size, plans, inUse, token, scoped, unwinding, failures, peak>>

Entries == Keys \X Nat

Fresh(setting) == [setting |-> setting, dispatcher |-> Inline]
Indices(k) == 0..(size[k] - 1)
Free(k) == {i \in Indices(k) : <<k, i>> \notin inUse}
Valid(t, s) == token[t][s].valid
Holds(t, s, e) == Valid(t, s) /\ token[t][s].entry = e
Leased(k) == {p \in Threads \X Slots : /\ Valid(p[1], p[2])
                                       /\ token[p[1]][p[2]].entry[1] = k}

\* ensure_min_pool_locked: construct entries up to n, never drop any.
Grown(k, n, setting) ==
  [e \in DOMAIN plans \cup {<<k, i>> : i \in size[k]..(n - 1)} |->
     IF e \in DOMAIN plans THEN plans[e] ELSE Fresh(setting)]

Larger(a, b) == IF a >= b THEN a ELSE b

Init ==
  /\ size = [k \in Keys |-> 0]
  /\ plans = [e \in {} |-> Fresh(e)]
  /\ inUse = {}
  /\ token = [t \in Threads |-> [s \in Slots |-> NoToken]]
  /\ scoped = {} /\ unwinding = {}
  /\ failures = 0
  /\ peak = [k \in Keys |-> 0]

-----------------------------------------------------------------------------
\* acquire_slot_locked hands entry i of bucket k, grown to n entries, to t.
Lease(t, s, k, i, n, setting) ==
  /\ size' = [size EXCEPT ![k] = n]
  /\ plans' = Grown(k, n, setting)
  /\ inUse' = inUse \cup {<<k, i>>}
  /\ token' = [token EXCEPT ![t][s] = [valid |-> TRUE, entry |-> <<k, i>>, asked |-> setting]]
  /\ peak' = [peak EXCEPT ![k] = Larger(@, Cardinality(Leased(k)) + 1)]
  /\ UNCHANGED <<scoped, unwinding, failures>>

\* Mutant: the entry is taken in a second critical section, from what the
\* first one saw, so another thread may have taken it too.
GetPlanUnlocked(t, s, k, setting) ==
  LET n == Larger(size[k], Copies[k])
  IN  /\ t \notin unwinding /\ ~Valid(t, s)
      /\ \E i \in 0..(n - 1) : Lease(t, s, k, i, n, setting)

\* get_plan into an empty Token: fill the bucket up to its minimum, take the
\* first entry not in use, else construct one more.
GetPlan(t, s, k, setting) ==
  LET n == Larger(size[k], Copies[k])
      free == {i \in 0..(n - 1) : <<k, i>> \notin inUse}
  IN  /\ t \notin unwinding /\ ~Valid(t, s)
      /\ \/ \E i \in free : /\ \A j \in free : i <= j
                            /\ Lease(t, s, k, i, n, setting)
         \/ free = {} /\ Lease(t, s, k, n, n + 1, setting)

\* PlanEnvironment::initialize throws inside the critical section: what the
\* bucket got before that stays, and get_plan throws.
ConstructionFails(k, setting) ==
  /\ failures < MaxFailures
  /\ failures' = failures + 1
  /\ \E n \in size[k]..Larger(size[k], Copies[k]) :
       /\ n < Copies[k] \/ (n = size[k] /\ Free(k) = {})
       /\ size' = [size EXCEPT ![k] = n]
       /\ plans' = Grown(k, n, setting)
  /\ UNCHANGED <<inUse, token, scoped, unwinding, peak>>

\* Mutant: warming constructs its copies without counting those there are.
WarmAppending(setting) ==
  /\ size' = [k \in Keys |-> IF k \in WarmKeys THEN size[k] + Copies[k] ELSE size[k]]
  /\ plans' = [e \in DOMAIN plans \cup
                       UNION {{<<k, size[k] + i>> : i \in 0..(Copies[k] - 1)} : k \in WarmKeys} |->
                 IF e \in DOMAIN plans THEN plans[e] ELSE Fresh(setting)]
  /\ UNCHANGED <<inUse, token, scoped, unwinding, failures, peak>>

\* warm_audio_profiles: one critical section over all of its keys.
Warm(setting) ==
  /\ size' = [k \in Keys |-> IF k \in WarmKeys THEN Larger(size[k], Copies[k]) ELSE size[k]]
  /\ plans' = [e \in DOMAIN plans \cup
                       UNION {{<<k, i>> : i \in size[k]..(Copies[k] - 1)} : k \in WarmKeys} |->
                 IF e \in DOMAIN plans THEN plans[e] ELSE Fresh(setting)]
  /\ UNCHANGED <<inUse, token, scoped, unwinding, failures, peak>>

\* Mutant: the plan goes back with whatever dispatcher it carries.
ReturnedDirty(e) == plans

\* release_token: the dispatcher is reset, then the entry is free.
Returned(e) == [plans EXCEPT ![e].dispatcher = Inline]

\* ~Token.
Release(t, s) ==
  /\ Valid(t, s)
  /\ LET e == token[t][s].entry
     IN plans' = Returned(e) /\ inUse' = inUse \ {e}
  /\ token' = [token EXCEPT ![t][s] = NoToken]
  /\ UNCHANGED <<size, scoped, unwinding, failures, peak>>

\* Mutant: the target's own lease is forgotten, not released.
MoveLeaking(t, from, to) ==
  /\ t \notin unwinding /\ from # to /\ Valid(t, from)
  /\ token' = [token EXCEPT ![t][to] = token[t][from], ![t][from] = NoToken]
  /\ UNCHANGED <<size, plans, inUse, scoped, unwinding, failures, peak>>

\* Token's move assignment: the target's lease is released first.
Move(t, from, to) ==
  /\ t \notin unwinding /\ from # to /\ Valid(t, from)
  /\ \/ ~Valid(t, to) /\ UNCHANGED <<plans, inUse>>
     \/ /\ Valid(t, to)
        /\ plans' = Returned(token[t][to].entry)
        /\ inUse' = inUse \ {token[t][to].entry}
  /\ token' = [token EXCEPT ![t][to] = token[t][from], ![t][from] = NoToken]
  /\ UNCHANGED <<size, scoped, unwinding, failures, peak>>

\* A dispatcher on t's stack, and plan.set_dispatcher(&dispatcher).
InstallDispatcher(t, s) ==
  /\ t \notin unwinding /\ Valid(t, s)
  /\ plans' = [plans EXCEPT ![token[t][s].entry].dispatcher = t]
  /\ scoped' = scoped \cup {t}
  /\ UNCHANGED <<size, inUse, token, unwinding, failures, peak>>

\* plan.set_dispatcher(nullptr), on the paths that reach it.
ClearDispatcher(t, s) ==
  /\ t \notin unwinding /\ Valid(t, s)
  /\ plans' = [plans EXCEPT ![token[t][s].entry].dispatcher = Inline]
  /\ UNCHANGED <<size, inUse, token, scoped, unwinding, failures, peak>>

\* The scope is left, by its end or by an exception: the dispatcher dies
\* first, the tokens are released next.
LeaveScope(t) ==
  /\ t \in scoped
  /\ scoped' = scoped \ {t}
  /\ unwinding' = unwinding \cup {t}
  /\ UNCHANGED <<size, plans, inUse, token, failures, peak>>

ScopeLeft(t) ==
  /\ t \in unwinding /\ \A s \in Slots : ~Valid(t, s)
  /\ unwinding' = unwinding \ {t}
  /\ UNCHANGED <<size, plans, inUse, token, scoped, failures, peak>>

HolderStep(t) ==
  \/ \E s \in Slots :
       \/ \E k \in Keys, c \in Settings : GetPlan(t, s, k, c)
       \/ Release(t, s) \/ InstallDispatcher(t, s) \/ ClearDispatcher(t, s)
       \/ \E to \in Slots : Move(t, s, to)
  \/ LeaveScope(t) \/ ScopeLeft(t)

Next ==
  \/ \E t \in Threads : HolderStep(t)
  \/ \E c \in Settings : Warm(c) \/ \E k \in Keys : ConstructionFails(k, c)

Spec == Init /\ [][Next]_vars

-----------------------------------------------------------------------------
(* "Each token owns an exclusive plan instance so call sites never share     *)
(* scratch buffers": two valid tokens never name the same entry.             *)
Exclusive ==
  \A t, u \in Threads : \A r, s \in Slots :
    (Valid(t, r) /\ Valid(u, s) /\ <<t, r>> # <<u, s>>) =>
      token[t][r].entry # token[u][s].entry

(* An entry is in use exactly while some token holds it: no lease leaks, no  *)
(* held entry is handed out again.                                           *)
LeasesMatch ==
  /\ \A e \in inUse : \E t \in Threads, s \in Slots : Holds(t, s, e)
  /\ \A t \in Threads, s \in Slots : Valid(t, s) => token[t][s].entry \in inUse

(* A plan never points to a dispatcher that is gone, except in the hands of  *)
(* a thread that is about to release it.                                     *)
NoDangling ==
  \A e \in DOMAIN plans :
    \/ plans[e].dispatcher \in scoped \cup {Inline}
    \/ \E t \in unwinding, s \in Slots : Holds(t, s, e)

(* A bucket never grows beyond its minimum pool and the most leases ever     *)
(* held at once: entries are reused, not piled up.                           *)
BoundedGrowth == \A k \in Keys : size[k] <= Larger(Copies[k], peak[k])

(* "Get or create a plan for the given configuration."                       *)
AsConfigured ==
  \A t \in Threads, s \in Slots :
    Valid(t, s) => plans[token[t][s].entry].setting = token[t][s].asked
=============================================================================
