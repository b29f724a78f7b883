-------------------------- MODULE PlanArenaProofs --------------------------
(***************************************************************************)
(* Theorems about PlanArena, for any machine, limits, configurations,      *)
(* matrices and requests, and any sequence of resizes.                     *)
(***************************************************************************)
EXTENDS PlanArena, Induction, SequenceTheorems

Specials == [Slots -> Nat]
Asks == [lanes : Nat, threads : Nat, nd : Nat, special : Seq([slot : Nat, elements : Nat])]

VectorsType == [rows : Nat, stage : Nat, nd : Nat, special : Specials]
ArenaType == [threads : Nat, lanes : Nat, rows : Nat, stage : Nat, nd : Nat, special : Specials]
PlanType == [kernel : {"ct", "stockham"}, requested : Nat, packetCols : Nat, step : Nat,
             threads : Nat, lanes : Nat, pendingNd : Nat, pendingSpecial : Specials,
             cached : SUBSET Asks, built : Nat]
MemoryType == [vectors : VectorsType, arena : ArenaType, plan : PlanType]

\* What every resize leaves behind: an arena of its shape, a workspace within
\* it, and at least the threads the plan may use.
Fits(m) ==
  /\ m.arena.threads \in 1..MaxThreads /\ m.arena.lanes \in 1..MaxLanes
  /\ m.vectors.rows = m.arena.threads * m.arena.lanes
  /\ m.vectors.stage = m.arena.threads * m.arena.lanes * Size
  /\ m.arena.rows = m.vectors.rows /\ m.arena.stage = m.vectors.stage
  /\ m.arena.nd = m.vectors.nd
  /\ m.plan.threads \in 1..m.arena.threads /\ m.plan.lanes \in 1..m.arena.lanes
  /\ m.plan.requested \in 1..m.arena.threads
  /\ Smaller(m.plan.requested, Hardware) <= m.plan.threads
  /\ m.plan.packetCols # 0

JobType ==
  {None} \cup [stage : {"columns"}, required : Nat, same : BOOLEAN]
         \cup [stage : {"rows", "back"}, required : Nat, same : BOOLEAN, scratch : Nat]

TypeInv ==
  /\ vectors \in VectorsType /\ arena \in ArenaType
  /\ plan \in PlanType \cup {NoPlan} /\ job \in JobType
  /\ prepared \in [asked : Nat, lanes : Nat, threads : Nat] \cup {None}

ArenaInv ==
  /\ plan # NoPlan => Fits(Memory) /\ plan.pendingNd = 0
  /\ job # None => plan # NoPlan

IInv == TypeInv /\ ArenaInv /\ ScratchSurvives /\ LanesAsAsked

-----------------------------------------------------------------------------
(* No plan in use looks like the absent one.                                 *)
LEMMA NoPlanIsNone == \A p \in PlanType : p # NoPlan /\ p.kernel # "no plan"
<1>1. NoPlan.kernel = "no plan"
  BY DEF NoPlan
<1>2. \A p \in PlanType : p.kernel \in {"ct", "stockham"}
  BY DEF PlanType
<1> QED BY <1>1, <1>2

(* Row and slot arithmetic: the last row of a thread is before the next one's. *)
LEMMA RowsFit ==
  ASSUME NEW T \in Nat, NEW L \in Nat, NEW t \in 0..(T - 1), NEW l \in 0..(L - 1)
  PROVE  t * L + l < T * L
<1>1. (t + 1) * L <= T * L
  OBVIOUS
<1>2. (t + 1) * L = t * L + L
  OBVIOUS
<1> QED BY <1>1, <1>2

(* A thread below T has its lanes within a vector for T threads.             *)
LEMMA SlotsFit ==
  ASSUME NEW T \in Nat, NEW L \in Nat, NEW S \in Nat, NEW t \in 0..(T - 1)
  PROVE  (t + 1) * S * L <= T * L * S
<1>1. (t + 1) * L <= T * L
  OBVIOUS
<1>2. T * L \in Nat /\ (t + 1) * L \in Nat
  OBVIOUS
<1>3. ((t + 1) * L) * S <= (T * L) * S
  <2> DEFINE a == (t + 1) * L
             b == T * L
  <2>1. a \in Nat /\ b \in Nat /\ a <= b
    BY <1>1, <1>2
  <2> HIDE DEF a, b
  <2>2. a * S <= b * S
    BY <2>1
  <2> QED BY <2>2 DEF a, b
<1>4. (t + 1) * S * L = ((t + 1) * L) * S
  OBVIOUS
<1> QED BY <1>3, <1>4

(* In a memory that fits, kernels index within the buffers.                  *)
LEMMA FitsInBounds ==
  ASSUME plan # NoPlan, TypeInv, Fits(Memory)
  PROVE  BuffersInBounds
<1>1. arena.threads \in Nat /\ arena.lanes \in Nat /\ Size \in Nat
  BY ArenaAssumption DEF TypeInv, ArenaType
<1>2. plan.threads \in 1..arena.threads /\ plan.lanes \in 1..arena.lanes
  BY DEF Fits, Memory
<1>3. /\ Smaller(arena.rows, vectors.rows) = arena.threads * arena.lanes
      /\ Smaller(arena.stage, vectors.stage) = arena.threads * arena.lanes * Size
  BY DEF Fits, Memory, Smaller
<1>4. ASSUME NEW t \in 0..(plan.threads - 1), NEW l \in 0..(plan.lanes - 1)
      PROVE  t * arena.lanes + l < Smaller(arena.rows, vectors.rows)
  <2>1. t \in 0..(arena.threads - 1) /\ l \in 0..(arena.lanes - 1)
    BY <1>1, <1>2
  <2> QED BY <1>1, <1>3, <2>1, RowsFit
<1>5. ASSUME NEW slot \in 0..(arena.threads - 1)
      PROVE  (slot + 1) * Size * arena.lanes <= Smaller(arena.stage, vectors.stage)
  BY <1>1, <1>3, SlotsFit
<1> QED BY <1>4, <1>5 DEF BuffersInBounds

-----------------------------------------------------------------------------
(* Limiting a workspace to an arena.                                         *)
LEMMA FittedIs ==
  ASSUME NEW p \in PlanType, NEW a \in ArenaType, NEW threads \in Int, NEW lanes \in Int
  PROVE  /\ Fitted(p, threads, lanes, a) \in PlanType
         /\ Fitted(p, threads, lanes, a).threads = Larger(1, Smaller(threads, a.threads))
         /\ Fitted(p, threads, lanes, a).lanes = Larger(1, Smaller(lanes, a.lanes))
         /\ \A f \in {"kernel", "requested", "packetCols", "step", "pendingNd", "pendingSpecial",
                      "cached", "built"} : Fitted(p, threads, lanes, a)[f] = p[f]
<1> DEFINE t == Larger(1, Smaller(threads, a.threads))
           l == Larger(1, Smaller(lanes, a.lanes))
<1>1. t \in Nat /\ l \in Nat
  BY DEF ArenaType, Larger, Smaller
<1> HIDE DEF t, l
<1>2. Fitted(p, threads, lanes, a) = [p EXCEPT !.threads = t, !.lanes = l]
  BY DEF Fitted, t, l
<1>3. [p EXCEPT !.threads = t, !.lanes = l] \in PlanType
  BY <1>1 DEF PlanType
<1> QED BY <1>2, <1>3 DEF PlanType, t, l

(* std::clamp from 1 upwards.                                                *)
LEMMA ClampIs ==
  ASSUME NEW x \in Int, NEW high \in Nat \ {0}
  PROVE  /\ Clamp(x, 1, high) \in 1..high
         /\ x \in Nat \ {0} => Clamp(x, 1, high) = Smaller(x, high)
BY DEF Clamp, Larger, Smaller

(* What a resize does, whatever it is asked for.                             *)
LEMMA ResizedIs ==
  ASSUME NEW m \in MemoryType, NEW at \in Int, NEW al \in Int,
         m.plan.requested # 0, m.plan.packetCols # 0,
         Smaller(m.plan.requested, Hardware) <= m.plan.threads
  PROVE  /\ Resized(m, at, al) \in MemoryType /\ Fits(Resized(m, at, al))
         /\ Resized(m, at, al).arena.threads = Clamp(at, 1, MaxThreads)
         /\ Resized(m, at, al).arena.lanes = Clamp(al, 1, MaxLanes)
         /\ Resized(m, at, al).vectors.nd = Larger(m.vectors.nd, m.plan.pendingNd)
         /\ Resized(m, at, al).plan.requested = Smaller(m.plan.requested, Clamp(at, 1, MaxThreads))
         /\ Resized(m, at, al).plan.lanes = Larger(1, Smaller(m.plan.lanes, Clamp(al, 1, MaxLanes)))
         /\ Resized(m, at, al).plan.pendingNd = 0
         /\ \A f \in {"kernel", "packetCols", "step", "cached"} :
              Resized(m, at, al).plan[f] = m.plan[f]
<1> DEFINE T == Clamp(at, 1, MaxThreads)
           L == Clamp(al, 1, MaxLanes)
           v == Regrown(m, T, L)
           a == Published(v, T, L)
           p == Settled(m.plan, T)
           q == Fitted(p, m.plan.threads, m.plan.lanes, a)
<1>1. Resized(m, at, al) = [vectors |-> v, arena |-> a, plan |-> q]
  BY DEF Resized, Sized
<1>2. T \in 1..MaxThreads /\ L \in 1..MaxLanes /\ Size \in Nat
  BY ArenaAssumption, ClampIs
<1> HIDE DEF T, L
<1>3. /\ v \in VectorsType /\ v.rows = T * L /\ v.stage = T * L * Size
      /\ v.nd = Larger(m.vectors.nd, m.plan.pendingNd)
  <2>1. Shape(T, L).rows = T * L /\ Shape(T, L).stage = T * L * Size
    BY DEF Shape
  <2>2. T * L \in Nat
    BY <1>2
  <2>3. T * L * Size \in Nat
    BY <1>2, <2>2
  <2>4. /\ m.vectors.nd \in Nat /\ m.plan.pendingNd \in Nat
        /\ m.vectors.special \in Specials /\ m.plan.pendingSpecial \in Specials
    BY DEF MemoryType, VectorsType, PlanType
  <2>5. [s \in Slots |-> Larger(m.vectors.special[s], m.plan.pendingSpecial[s])] \in Specials
    BY <2>4 DEF Specials, Larger
  <2>6. Larger(m.vectors.nd, m.plan.pendingNd) \in Nat
    BY <2>4 DEF Larger
  <2> QED BY <2>1, <2>2, <2>3, <2>5, <2>6 DEF VectorsType, Regrown
<1> HIDE DEF v
<1>4. /\ a \in ArenaType /\ a.threads = T /\ a.lanes = L /\ a.rows = v.rows /\ a.stage = v.stage
      /\ a.nd = v.nd
  BY <1>2, <1>3 DEF Published, VectorsType, ArenaType
<1> HIDE DEF a
<1>5. /\ p \in PlanType /\ p.requested = Smaller(m.plan.requested, T) /\ p.pendingNd = 0
      /\ p.threads = m.plan.threads /\ p.lanes = m.plan.lanes
      /\ \A f \in {"kernel", "packetCols", "step", "cached"} : p[f] = m.plan[f]
  <2>1. m.plan \in PlanType
    BY DEF MemoryType
  <2>2. Smaller(m.plan.requested, T) \in Nat
    BY <1>2, <2>1 DEF PlanType, Smaller
  <2>3. [s \in Slots |-> 0] \in Specials
    BY DEF Specials
  <2> QED BY <2>1, <2>2, <2>3 DEF PlanType, Settled
<1> HIDE DEF p
<1>6. /\ q \in PlanType /\ q.threads = Larger(1, Smaller(m.plan.threads, T))
      /\ q.lanes = Larger(1, Smaller(m.plan.lanes, L))
      /\ \A f \in {"kernel", "requested", "packetCols", "step", "pendingNd", "cached"} : q[f] = p[f]
  <2>1. m.plan.threads \in Int /\ m.plan.lanes \in Int
    BY DEF MemoryType, PlanType
  <2> QED BY <1>4, <1>5, <2>1, FittedIs
<1> HIDE DEF q
<1>7. Resized(m, at, al) \in MemoryType
  BY <1>3, <1>4, <1>6, <1>1 DEF MemoryType
<1>8. Fits(Resized(m, at, al))
  <2>1. m.plan.requested \in Nat /\ m.plan.threads \in Nat /\ m.plan.lanes \in Nat /\ Hardware \in Nat \ {0}
    BY ArenaAssumption DEF MemoryType, PlanType
  <2>2. q.threads \in 1..T /\ q.lanes \in 1..L /\ q.requested \in 1..T
    BY <1>2, <1>5, <1>6, <2>1 DEF Larger, Smaller
  <2>3. Smaller(q.requested, Hardware) <= q.threads
    BY <1>2, <1>5, <1>6, <2>1 DEF Larger, Smaller
  <2> QED BY <1>2, <1>3, <1>4, <1>5, <1>6, <1>1, <2>2, <2>3 DEF Fits
<1> QED BY <1>3, <1>4, <1>5, <1>6, <1>1, <1>7, <1>8 DEF T, L

-----------------------------------------------------------------------------
\* A memory between two requests, and the threads its plan may use.
Sound(m) == m \in MemoryType /\ Fits(m) /\ m.plan.pendingNd = 0
Share(m) == Smaller(m.plan.requested, Hardware)

\* What no request may take from a plan.
Serves(m, n) == Sound(n) /\ Share(n) = Share(m)

(* In an arena that fits, the plan's requested threads are what limits it.   *)
LEMMA ShareIsEffective ==
  ASSUME NEW m \in MemoryType, Fits(m)
  PROVE  /\ Effective(m.plan, m.arena) = Share(m)
         /\ Share(m) \in 1..m.plan.threads /\ m.plan.threads \in 1..MaxThreads
<1>1. MaxThreads \in Nat /\ Hardware \in Nat \ {0} /\ m.arena.threads \in Nat
  BY ArenaAssumption DEF MemoryType, ArenaType
<1>2. m.plan.requested \in 1..m.arena.threads /\ m.arena.threads \in 1..MaxThreads
  BY DEF Fits
<1>3. m.plan.threads \in 1..m.arena.threads /\ Smaller(m.plan.requested, Hardware) <= m.plan.threads
  BY DEF Fits
<1> QED BY <1>1, <1>2, <1>3 DEF Effective, Share, Larger, Smaller

(* A resize that is asked for the threads the plan may use leaves it them.   *)
LEMMA ResizeServes ==
  ASSUME NEW m \in MemoryType, Fits(m), NEW at \in Int, NEW al \in Int, at >= Share(m)
  PROVE  Serves(m, Resized(m, at, al))
<1>1. /\ m.plan.requested \in 1..m.arena.threads /\ m.arena.threads \in 1..MaxThreads
      /\ m.plan.packetCols # 0 /\ Smaller(m.plan.requested, Hardware) <= m.plan.threads
  BY DEF Fits
<1>2. MaxThreads \in Nat \ {0} /\ Hardware \in Nat \ {0} /\ m.arena.threads \in Nat
  BY ArenaAssumption DEF MemoryType, ArenaType
<1>3. m.plan.requested # 0 /\ m.plan.requested \in Nat
  BY <1>1, <1>2
<1>4. /\ Resized(m, at, al) \in MemoryType /\ Fits(Resized(m, at, al))
      /\ Resized(m, at, al).plan.requested = Smaller(m.plan.requested, Clamp(at, 1, MaxThreads))
      /\ Resized(m, at, al).plan.pendingNd = 0
  BY <1>1, <1>3, ResizedIs
<1>5. Smaller(Smaller(m.plan.requested, Clamp(at, 1, MaxThreads)), Hardware)
        = Smaller(m.plan.requested, Hardware)
  BY <1>1, <1>2 DEF Clamp, Larger, Smaller, Share
<1> QED BY <1>4, <1>5 DEF Serves, Sound, Share

(* Workspace::ensure, asked for the plan's threads: the lanes that were      *)
(* asked for, as far as the limit allows, and the nd buffer as it was.       *)
LEMMA EnsuredIs ==
  ASSUME NEW m, Sound(m), NEW lanes \in Nat \ {0}
  PROVE  /\ Serves(m, Ensured(m, Share(m), lanes))
         /\ Ensured(m, Share(m), lanes).plan.lanes = Smaller(lanes, MaxLanes)
         /\ Ensured(m, Share(m), lanes).vectors.nd = m.vectors.nd
<1> DEFINE t == Share(m)
           grows == lanes > m.arena.lanes \/ t > m.arena.threads
           g == IF grows THEN Resized(m, t, lanes) ELSE m
           q == Fitted(g.plan, t, lanes, g.arena)
<1>1. Ensured(m, Share(m), lanes) = [g EXCEPT !.plan = q]
  BY DEF Ensured
<1>2. /\ m \in MemoryType /\ Fits(m) /\ m.plan.pendingNd = 0
      /\ t \in 1..m.plan.threads /\ m.plan.threads \in 1..MaxThreads
  BY ShareIsEffective DEF Sound
<1>3. MaxLanes \in Nat \ {0} /\ MaxThreads \in Nat \ {0} /\ Hardware \in Nat \ {0}
  BY ArenaAssumption
<1>4. /\ m.vectors.nd \in Nat /\ m.arena.threads \in 1..MaxThreads /\ m.arena.lanes \in 1..MaxLanes
      /\ m.plan.threads \in 1..m.arena.threads /\ m.plan.requested \in 1..m.arena.threads
      /\ m.plan.packetCols # 0 /\ Smaller(m.plan.requested, Hardware) <= m.plan.threads
  BY <1>2 DEF Fits, MemoryType, VectorsType
<1> HIDE DEF t, grows
<1>5. /\ Serves(m, g) /\ g.vectors.nd = m.vectors.nd
      /\ lanes > g.arena.lanes => g.arena.lanes = MaxLanes
      /\ t <= g.arena.threads
  <2>1. CASE grows
    <3>1. g = Resized(m, t, lanes)
      BY <2>1
    <3>2. t \in Int /\ t >= Share(m) /\ lanes \in Int
      BY <1>2, <1>3, <1>4 DEF t
    <3>3. Serves(m, Resized(m, t, lanes))
      BY <1>2, <3>2, ResizeServes
    <3>4. /\ Resized(m, t, lanes).arena.threads = Clamp(t, 1, MaxThreads)
          /\ Resized(m, t, lanes).arena.lanes = Clamp(lanes, 1, MaxLanes)
          /\ Resized(m, t, lanes).vectors.nd = Larger(m.vectors.nd, m.plan.pendingNd)
      <4>1. m.plan.requested # 0
        BY <1>4
      <4> QED BY <1>2, <1>4, <3>2, <4>1, ResizedIs
    <3>5. Larger(m.vectors.nd, m.plan.pendingNd) = m.vectors.nd
      BY <1>2, <1>4 DEF Larger
    <3>6. Clamp(t, 1, MaxThreads) = t
      BY <1>2, <1>3, <1>4 DEF Clamp, Larger, Smaller
    <3>7. Clamp(lanes, 1, MaxLanes) <= MaxLanes /\ (lanes > Clamp(lanes, 1, MaxLanes) => Clamp(lanes, 1, MaxLanes) = MaxLanes)
      BY <1>3 DEF Clamp, Larger, Smaller
    <3> QED BY <1>2, <3>1, <3>3, <3>4, <3>5, <3>6, <3>7
  <2>2. CASE ~grows
    BY <1>2, <1>3, <1>4, <2>2 DEF grows, Serves, Sound
  <2> QED BY <2>1, <2>2
<1> HIDE DEF g
<1>6. /\ g \in MemoryType /\ Fits(g) /\ g.plan.pendingNd = 0 /\ Share(g) = t
      /\ g.plan \in PlanType /\ g.arena \in ArenaType
  BY <1>5 DEF Serves, Sound, MemoryType, t
<1>7. /\ q \in PlanType /\ q.threads = Larger(1, Smaller(t, g.arena.threads))
      /\ q.lanes = Larger(1, Smaller(lanes, g.arena.lanes))
      /\ q.requested = g.plan.requested /\ q.packetCols = g.plan.packetCols
      /\ q.pendingNd = g.plan.pendingNd
  <2>1. t \in Int /\ lanes \in Int
    BY <1>2, <1>3, <1>4
  <2> QED BY <1>6, <2>1, FittedIs
<1> HIDE DEF q
<1>8. q.lanes = Smaller(lanes, MaxLanes) /\ q.lanes \in 1..g.arena.lanes
  <2>1. g.arena.lanes \in 1..MaxLanes
    BY <1>6 DEF Fits
  <2> QED BY <1>3, <1>5, <1>7, <2>1 DEF Larger, Smaller
<1>9. q.threads = t /\ q.threads \in 1..g.arena.threads
  <2>1. g.arena.threads \in 1..MaxThreads
    BY <1>6 DEF Fits
  <2> QED BY <1>2, <1>3, <1>4, <1>5, <1>7, <2>1 DEF Larger, Smaller
<1> DEFINE n == [g EXCEPT !.plan = q]
<1>10. n \in MemoryType /\ n.plan = q /\ n.vectors = g.vectors /\ n.arena = g.arena
  BY <1>6, <1>7 DEF MemoryType
<1> HIDE DEF n
<1>11. t <= q.threads
  BY <1>2, <1>3, <1>4, <1>9
<1>12. Fits(n)
  <2>1. Smaller(q.requested, Hardware) <= q.threads
    BY <1>6, <1>7, <1>11 DEF Share
  <2> QED BY <1>6, <1>7, <1>8, <1>9, <1>10, <2>1 DEF Fits
<1>13. Serves(m, n)
  BY <1>6, <1>7, <1>10, <1>12 DEF Serves, Sound, Share, t
<1> QED BY <1>1, <1>5, <1>8, <1>10, <1>13 DEF n

(* Workspace::ensure_nd_buffer makes the room that was required.             *)
LEMMA NdEnsuredIs ==
  ASSUME NEW m, Sound(m), NEW required \in Nat
  PROVE  Serves(m, NdEnsured(m, required)) /\ required <= NdEnsured(m, required).vectors.nd
<1>1. /\ m \in MemoryType /\ Fits(m) /\ m.plan \in PlanType /\ m.plan.lanes \in Nat
      /\ m.vectors.nd \in Nat /\ m.arena.nd = m.vectors.nd /\ m.plan.threads \in Nat
  BY DEF Sound, MemoryType, PlanType, VectorsType, Fits
<1>2. CASE required > m.arena.nd
  <2> DEFINE x == [m EXCEPT !.plan.pendingNd = required]
             n == Resized(x, m.plan.threads, m.plan.lanes)
  <2>1. /\ x \in MemoryType /\ x.vectors = m.vectors /\ x.arena = m.arena
        /\ x.plan = [m.plan EXCEPT !.pendingNd = required]
    BY <1>1 DEF MemoryType, PlanType
  <2>2. /\ x.plan.pendingNd = required /\ x.plan.requested = m.plan.requested
        /\ x.plan.threads = m.plan.threads /\ x.plan.lanes = m.plan.lanes
        /\ x.plan.packetCols = m.plan.packetCols
    BY <1>1, <2>1 DEF PlanType
  <2> HIDE DEF x
  <2>3. Fits(x) /\ Share(x) = Share(m)
    BY <1>1, <2>1, <2>2 DEF Fits, Share
  <2>4. m.plan.threads >= Share(x)
    BY <1>1, <2>3, ShareIsEffective
  <2>5. Serves(x, n)
    BY <1>1, <2>1, <2>3, <2>4, ResizeServes
  <2>6. n.vectors.nd = Larger(x.vectors.nd, x.plan.pendingNd)
    <3>1. x.plan.requested # 0 /\ x.plan.packetCols # 0 /\ Smaller(x.plan.requested, Hardware) <= x.plan.threads
      BY <2>3 DEF Fits
    <3>2. m.plan.threads \in Int /\ m.plan.lanes \in Int
      BY <1>1
    <3>3. Resized(x, m.plan.threads, m.plan.lanes).vectors.nd
            = Larger(x.vectors.nd, x.plan.pendingNd)
      BY <2>1, <3>1, <3>2, ResizedIs
    <3> QED BY <3>3
  <2>7. Serves(m, n)
    BY <2>3, <2>5 DEF Serves
  <2>8. required <= n.vectors.nd
    BY <1>1, <2>1, <2>2, <2>6 DEF Larger
  <2>9. NdEnsured(m, required) = n
    BY <1>2 DEF NdEnsured, x
  <2> QED BY <2>7, <2>8, <2>9
<1>3. CASE ~(required > m.arena.nd)
  BY <1>1, <1>3 DEF NdEnsured, Serves
<1> QED BY <1>2, <1>3

-----------------------------------------------------------------------------
(* The largest pending request for a slot is a size.                         *)
LEMMA MostWantedIs ==
  ASSUME NEW special \in Seq([slot : Nat, elements : Nat]), NEW a \in ArenaType, NEW s \in Slots,
         NEW old \in Nat
  PROVE  Max(Wanted(special, a, s) \cup {old}) \in Nat
<1> DEFINE n == Len(special) + 1
           D == {j \in Accepted(special) : special[j].slot = s /\ special[j].elements > a.special[s]}
           f == [k \in 1..n |-> IF k \in D THEN special[k].elements ELSE old]
           S == Wanted(special, a, s) \cup {old}
<1>1. n \in Nat \ {0} /\ DOMAIN special = 1..(n - 1) /\ Len(special) = n - 1
  OBVIOUS
<1>2. D \subseteq 1..(n - 1)
  <2>1. Accepted(special) \subseteq DOMAIN special
    BY DEF Accepted
  <2> QED BY <1>1, <2>1
<1>3. Wanted(special, a, s) = {special[i].elements : i \in D}
  BY DEF Wanted
<1> HIDE DEF D, n
<1>4. \A k \in 1..(n - 1) : special[k].elements \in Nat
  <2>1. \A k \in 1..Len(special) : special[k] \in [slot : Nat, elements : Nat]
    BY ElementOfSeq
  <2>2. \A k \in 1..(n - 1) : special[k] \in [slot : Nat, elements : Nat]
    BY <1>1, <2>1
  <2> QED BY <2>2
<1>5. \A k \in 1..n : f[k] \in Nat /\ f[k] \in S
  <2> TAKE k \in 1..n
  <2>1. CASE k \in D
    BY <1>2, <1>3, <1>4, <2>1
  <2>2. CASE k \notin D
    BY <2>2
  <2> QED BY <2>1, <2>2
<1>6. \A x \in S : x \in Nat /\ \E k \in 1..n : x = f[k]
  <2> TAKE x \in S
  <2>1. CASE x = old
    <3>1. n \in 1..n /\ n \notin D
      BY <1>1, <1>2
    <3> QED BY <2>1, <3>1
  <2>2. CASE x # old
    <3>1. PICK i \in D : x = special[i].elements
      BY <1>3, <2>2
    <3>2. i \in 1..n
      BY <1>1, <1>2
    <3> QED BY <1>1, <1>2, <1>4, <3>1, <3>2
  <2> QED BY <2>1, <2>2
<1> HIDE DEF f, S
<1>7. PICK l \in 1..n : \A k \in 1..n : f[k] <= f[l]
  <2>1. \A k \in 1..n : f[k] \in Int
    BY <1>5
  <2> QED BY <1>1, <2>1, GreatestValue
<1>8. \E x \in S : \A y \in S : x >= y
  <2>1. \A y \in S : f[l] >= y
    BY <1>5, <1>6, <1>7
  <2> QED BY <1>5, <2>1
<1>9. Max(S) \in S
  BY <1>8 DEF Max
<1> QED BY <1>6, <1>9 DEF S

(* Making special requests pending changes nothing that kernels rely on.     *)
LEMMA PendingServes ==
  ASSUME NEW m, Sound(m), NEW special \in Seq([slot : Nat, elements : Nat])
  PROVE  Serves(m, Pending(m, special))
<1> DEFINE want == [s \in Slots |-> Max(Wanted(special, m.arena, s) \cup {m.plan.pendingSpecial[s]})]
<1>1. m \in MemoryType /\ Fits(m) /\ m.plan.pendingNd = 0
  BY DEF Sound
<1>2. want \in Specials
  <2>1. m.arena \in ArenaType /\ m.plan.pendingSpecial \in Specials
    BY <1>1 DEF MemoryType, PlanType
  <2>2. ASSUME NEW s \in Slots
        PROVE  Max(Wanted(special, m.arena, s) \cup {m.plan.pendingSpecial[s]}) \in Nat
    BY <2>1, MostWantedIs DEF Specials
  <2> QED BY <2>2 DEF Specials
<1>3. Pending(m, special) = [m EXCEPT !.plan.pendingSpecial = want]
  BY DEF Pending
<1> HIDE DEF want
<1> DEFINE n == [m EXCEPT !.plan.pendingSpecial = want]
<1>4. /\ n \in MemoryType /\ n.vectors = m.vectors /\ n.arena = m.arena
      /\ n.plan = [m.plan EXCEPT !.pendingSpecial = want]
  BY <1>1, <1>2 DEF MemoryType, PlanType
<1>5. /\ n.plan.pendingNd = m.plan.pendingNd /\ n.plan.requested = m.plan.requested
      /\ n.plan.threads = m.plan.threads /\ n.plan.lanes = m.plan.lanes
      /\ n.plan.packetCols = m.plan.packetCols
  BY <1>1, <1>4 DEF PlanType, MemoryType
<1> HIDE DEF n
<1>6. Serves(m, n)
  BY <1>1, <1>4, <1>5 DEF Serves, Sound, Fits, Share
<1> QED BY <1>3, <1>6 DEF n

(* Room for a request's lanes and threads costs the plan nothing.            *)
LEMMA WithRoomServes ==
  ASSUME NEW m, Sound(m), NEW request \in Asks
  PROVE  /\ Serves(m, WithRoom(m, request))
         /\ WithRoom(m, request).vectors.nd = m.vectors.nd
         /\ m.arena.lanes <= WithRoom(m, request).arena.lanes
         /\ WithRoom(m, request).plan.lanes = m.plan.lanes
<1> DEFINE at == Larger(request.threads, m.plan.requested)
           al == Larger(request.lanes, m.arena.lanes)
<1>1. /\ m \in MemoryType /\ Fits(m) /\ m.plan.pendingNd = 0 /\ m.plan.requested \in Nat
      /\ m.arena.lanes \in Nat /\ m.plan.lanes \in Nat /\ m.vectors.nd \in Nat
      /\ request.threads \in Nat /\ request.lanes \in Nat
  BY DEF Sound, MemoryType, PlanType, ArenaType, VectorsType, Asks
<1>2. /\ Hardware \in Nat \ {0} /\ MaxLanes \in Nat \ {0}
      /\ m.arena.lanes \in 1..MaxLanes /\ m.plan.lanes \in 1..m.arena.lanes
      /\ m.plan.requested # 0 /\ m.plan.packetCols # 0
      /\ Smaller(m.plan.requested, Hardware) <= m.plan.threads
  BY <1>1, ArenaAssumption DEF Fits
<1>3. at \in Int /\ al \in Int /\ at >= Share(m) /\ al >= m.arena.lanes
  BY <1>1, <1>2 DEF Share, Smaller, Larger
<1> HIDE DEF at, al
<1>4. Serves(m, Resized(m, at, al))
  BY <1>1, <1>3, ResizeServes
<1>5. /\ Resized(m, at, al).vectors.nd = Larger(m.vectors.nd, m.plan.pendingNd)
      /\ Resized(m, at, al).arena.lanes = Clamp(al, 1, MaxLanes)
      /\ Resized(m, at, al).plan.lanes = Larger(1, Smaller(m.plan.lanes, Clamp(al, 1, MaxLanes)))
  BY <1>1, <1>2, <1>3, ResizedIs
<1>6. Larger(m.vectors.nd, m.plan.pendingNd) = m.vectors.nd
  BY <1>1 DEF Larger
<1>7. /\ m.arena.lanes <= Clamp(al, 1, MaxLanes)
      /\ Larger(1, Smaller(m.plan.lanes, Clamp(al, 1, MaxLanes))) = m.plan.lanes
  BY <1>1, <1>2, <1>3 DEF Clamp, Larger, Smaller
<1> QED BY <1>4, <1>5, <1>6, <1>7 DEF WithRoom, at, al

(* Serving is transitive: a chain of resizes serves if each of them does.    *)
LEMMA ServesOnwards ==
  ASSUME NEW m, NEW n, NEW o, Serves(m, n), Serves(n, o)
  PROVE  Serves(m, o)
BY DEF Serves

(* Plan::reserve_advanced_workspace, whether or not it grants the request.   *)
LEMMA ReservedServes ==
  ASSUME NEW m, Sound(m), NEW request \in Asks
  PROVE  Serves(m, Reserved(m, request).memory)
<1> DEFINE granted == NdGranted(m, request)
           roomy == RoomGranted(granted, request)
           pending == Pending(roomy, request.special)
           full == SpecialsGranted(roomy, request)
           done == [full EXCEPT !.plan.cached = @ \cup {request}]
<1>1. Reserved(m, request).memory \in {m, roomy, pending, full, done}
  BY DEF Reserved
<1>2. Serves(m, m)
  BY DEF Serves
<1>3. request.special \in Seq([slot : Nat, elements : Nat]) /\ request.nd \in Nat /\ request.lanes \in Nat
  BY DEF Asks
<1>4. Serves(m, granted)
  <2>1. CASE request.nd > m.arena.nd
    <3> DEFINE x == [m EXCEPT !.plan.pendingNd = request.nd]
    <3>1. m \in MemoryType /\ Fits(m) /\ m.plan.requested \in Nat
      BY DEF Sound, MemoryType, PlanType
    <3>2. /\ x \in MemoryType /\ x.vectors = m.vectors /\ x.arena = m.arena
          /\ x.plan = [m.plan EXCEPT !.pendingNd = request.nd]
      BY <1>3, <3>1 DEF MemoryType, PlanType
    <3>3. /\ x.plan.requested = m.plan.requested /\ x.plan.threads = m.plan.threads
          /\ x.plan.lanes = m.plan.lanes /\ x.plan.packetCols = m.plan.packetCols
      BY <3>1, <3>2 DEF MemoryType, PlanType
    <3> HIDE DEF x
    <3>4. Fits(x) /\ Share(x) = Share(m)
      BY <3>1, <3>2, <3>3 DEF Fits, Share
    <3>5. m.plan.requested \in Int /\ Larger(1, request.lanes) \in Int /\ m.plan.requested >= Share(x)
      BY <1>3, <3>1, <3>4, ArenaAssumption DEF Share, Smaller, Larger
    <3>6. Serves(x, Resized(x, m.plan.requested, Larger(1, request.lanes)))
      BY <3>2, <3>4, <3>5, ResizeServes
    <3>7. granted = Resized(x, m.plan.requested, Larger(1, request.lanes))
      BY <2>1 DEF NdGranted, x
    <3> QED BY <3>4, <3>6, <3>7 DEF Serves
  <2>2. CASE ~(request.nd > m.arena.nd)
    BY <1>2, <2>2 DEF NdGranted
  <2> QED BY <2>1, <2>2
<1> HIDE DEF granted
<1>5. Serves(m, roomy)
  <2>1. Sound(granted) /\ Serves(granted, granted)
    BY <1>4 DEF Serves
  <2>2. Serves(granted, WithRoom(granted, request))
    BY <2>1, WithRoomServes
  <2>3. Serves(granted, roomy)
    BY <2>1, <2>2 DEF RoomGranted
  <2> QED BY <1>4, <2>3, ServesOnwards
<1> HIDE DEF roomy
<1>6. Serves(m, pending)
  <2>1. Serves(roomy, pending)
    BY <1>3, <1>5, PendingServes DEF Serves
  <2> QED BY <1>5, <2>1, ServesOnwards
<1>7. Serves(m, full)
  <2>1. Serves(pending, WithRoom(pending, request))
    BY <1>6, WithRoomServes DEF Serves
  <2>2. Serves(m, WithRoom(pending, request))
    BY <1>6, <2>1, ServesOnwards
  <2> QED BY <1>5, <2>2 DEF SpecialsGranted
<1> HIDE DEF pending, full
<1>8. Serves(m, done)
  <2>1. full \in MemoryType /\ full.plan.cached \subseteq Asks
    BY <1>7 DEF Serves, Sound, MemoryType, PlanType
  <2>2. full.plan.cached \cup {request} \in SUBSET Asks
    BY <2>1
  <2>3. /\ done \in MemoryType /\ done.vectors = full.vectors /\ done.arena = full.arena
        /\ done.plan = [full.plan EXCEPT !.cached = full.plan.cached \cup {request}]
    BY <2>1, <2>2 DEF MemoryType, PlanType
  <2>4. /\ done.plan.pendingNd = full.plan.pendingNd /\ done.plan.requested = full.plan.requested
        /\ done.plan.threads = full.plan.threads /\ done.plan.lanes = full.plan.lanes
        /\ done.plan.packetCols = full.plan.packetCols
    BY <2>1, <2>3 DEF MemoryType, PlanType
  <2> HIDE DEF done
  <2> QED BY <1>7, <2>3, <2>4 DEF Serves, Sound, Fits, Share
<1> QED BY <1>1, <1>2, <1>5, <1>6, <1>7, <1>8

(* What the Stockham kernel asks for leaves the lanes there were, and the nd *)
(* buffer.                                                                   *)
LEMMA StockhamServed ==
  ASSUME NEW m, Sound(m), NEW threads \in Nat, NEW lanes \in Nat
  PROVE  LET n == Reserved(m, StockhamRequest(threads, lanes)).memory
         IN  /\ Serves(m, n) /\ n.vectors.nd = m.vectors.nd /\ n.plan.lanes = m.plan.lanes
             /\ m.arena.lanes <= n.arena.lanes
<1> DEFINE request == StockhamRequest(threads, lanes)
           granted == NdGranted(m, request)
           roomy == RoomGranted(granted, request)
           full == SpecialsGranted(roomy, request)
           done == [full EXCEPT !.plan.cached = @ \cup {request}]
           pending == Pending(roomy, request.special)
           n == Reserved(m, request).memory
<1>1. request \in Asks /\ request.nd = 0 /\ request.special = <<>>
  BY DEF StockhamRequest, Asks
<1>2. n \in {m, roomy, pending, full, done}
  BY DEF Reserved
<1>3. Accepted(request.special) = DOMAIN request.special
  BY <1>1 DEF Accepted
<1>4. n \in {m, roomy, full, done}
  BY <1>3 DEF Reserved
<1> HIDE DEF request
<1>5. Serves(m, n)
  BY <1>1, ReservedServes
<1>6. /\ m \in MemoryType /\ m.arena.nd \in Nat /\ m.arena.lanes \in Nat
  BY DEF Sound, MemoryType, ArenaType
<1>7. granted = m
  BY <1>1, <1>6 DEF NdGranted
<1>8. /\ roomy.vectors.nd = m.vectors.nd /\ roomy.plan.lanes = m.plan.lanes
      /\ m.arena.lanes <= roomy.arena.lanes /\ roomy \in MemoryType
  <2>1. roomy \in {m, WithRoom(m, request)}
    BY <1>7 DEF RoomGranted
  <2>2. WithRoom(m, request) \in MemoryType
    BY <1>1, WithRoomServes DEF Serves, Sound
  <2> QED BY <1>1, <1>6, <2>1, <2>2, WithRoomServes
<1>9. full = roomy
  BY <1>1 DEF SpecialsGranted
<1> HIDE DEF roomy, full
<1>10. done.vectors = full.vectors /\ done.arena = full.arena /\ done.plan.lanes = full.plan.lanes
  BY <1>8, <1>9 DEF MemoryType, PlanType
<1> HIDE DEF done, n
<1> QED BY <1>4, <1>5, <1>6, <1>8, <1>9, <1>10 DEF n, request

-----------------------------------------------------------------------------
(* An action that sets the memory to m is seen as m afterwards.              *)
LEMMA Becomes ==
  ASSUME NEW m \in MemoryType, Become(m)
  PROVE  Memory' = m
<1>1. m = [vectors |-> m.vectors, arena |-> m.arena, plan |-> m.plan]
  BY DEF MemoryType
<1> QED BY <1>1 DEF Become, Memory

(* A plan that is there is sound, and what serves it in its place is, too.   *)
LEMMA PlanSound ==
  ASSUME TypeInv, ArenaInv, plan # NoPlan
  PROVE  Sound(Memory) /\ Memory.plan = plan /\ Memory.arena = arena /\ Memory.vectors = vectors
BY DEF TypeInv, ArenaInv, Sound, Memory, MemoryType

(* What a serving resize gives, in terms of the variables.                   *)
LEMMA ServesNext ==
  ASSUME NEW m, Become(m), TypeInv, ArenaInv, plan # NoPlan, Serves(Memory, m)
  PROVE  /\ vectors' \in VectorsType /\ arena' \in ArenaType /\ plan' \in PlanType
         /\ plan' # NoPlan /\ Fits(Memory)' /\ plan'.pendingNd = 0
         /\ Effective(plan', arena') = Effective(plan, arena)
<1>1. m \in MemoryType /\ Fits(m) /\ m.plan.pendingNd = 0 /\ Share(m) = Share(Memory)
  BY DEF Serves, Sound
<1>2. vectors' = m.vectors /\ arena' = m.arena /\ plan' = m.plan
  BY DEF Become
<1>3. vectors' \in VectorsType /\ arena' \in ArenaType /\ plan' \in PlanType
  BY <1>1, <1>2 DEF MemoryType
<1>4. Memory' = m
  BY <1>1, Becomes
<1>5. Fits(Memory)'
  BY <1>1, <1>4 DEF Fits
<1>6. Effective(m.plan, m.arena) = Share(m)
  BY <1>1, ShareIsEffective
<1>7. Effective(plan, arena) = Share(Memory)
  BY PlanSound, ShareIsEffective DEF Sound
<1> QED BY <1>1, <1>2, <1>3, <1>5, <1>6, <1>7, NoPlanIsNone

(* A dispatch gets the lanes it asked for, and leaves the nd buffer alone.   *)
LEMMA DispatchServes ==
  ASSUME TypeInv, ArenaInv, plan # NoPlan, Dispatch
  PROVE  /\ \E m : Become(m) /\ Serves(Memory, m) /\ m.vectors.nd = vectors.nd
         /\ prepared' \in [asked : Nat, lanes : Nat, threads : Nat]
         /\ prepared'.lanes = Smaller(prepared'.asked, MaxLanes)
<1> DEFINE threads == Effective(plan, arena)
           asked == IF plan.step > 0 THEN plan.step ELSE plan.packetCols
           ready == Ensured(Memory, threads, asked)
           more == Reserved(ready, StockhamRequest(threads, asked)).memory
           m == IF plan.kernel = "ct" THEN ready ELSE more
           lanes == IF plan.kernel = "ct"
                    THEN Smaller(asked, m.plan.lanes)
                    ELSE Smaller(Smaller(asked, m.plan.lanes), m.arena.lanes)
<1>1. Become(m) /\ prepared' = [asked |-> asked, lanes |-> lanes, threads |-> threads]
  BY DEF Dispatch
<1>2. Sound(Memory) /\ Memory.plan = plan /\ Memory.arena = arena /\ Memory.vectors = vectors
  BY PlanSound
<1>3. threads = Share(Memory) /\ threads \in Nat
  <2>1. Memory \in MemoryType /\ Fits(Memory)
    BY <1>2 DEF Sound
  <2>2. /\ Effective(Memory.plan, Memory.arena) = Share(Memory)
        /\ Share(Memory) \in 1..Memory.plan.threads /\ Memory.plan.threads \in 1..MaxThreads
    BY <2>1, ShareIsEffective
  <2> QED BY <1>2, <2>2, ArenaAssumption
<1>4. asked \in Nat \ {0}
  <2>1. plan \in PlanType /\ plan.packetCols # 0
    BY <1>2 DEF Sound, MemoryType, Fits
  <2> QED BY <2>1 DEF PlanType
<1> HIDE DEF threads, asked
<1>5. /\ Serves(Memory, ready) /\ ready.plan.lanes = Smaller(asked, MaxLanes)
      /\ ready.vectors.nd = vectors.nd
  BY <1>2, <1>3, <1>4, EnsuredIs
<1> HIDE DEF ready
<1>6. Sound(ready) /\ Fits(ready) /\ ready \in MemoryType
  BY <1>5 DEF Serves, Sound
<1>7. /\ Serves(ready, more) /\ more.vectors.nd = ready.vectors.nd
      /\ more.plan.lanes = ready.plan.lanes /\ ready.arena.lanes <= more.arena.lanes
  BY <1>3, <1>4, <1>6, StockhamServed
<1> HIDE DEF more
<1>8. Serves(Memory, more)
  BY <1>5, <1>7, ServesOnwards
<1>9. /\ Serves(Memory, m) /\ m.vectors.nd = vectors.nd
      /\ m.plan.lanes = Smaller(asked, MaxLanes) /\ ready.arena.lanes <= m.arena.lanes
  <2>1. ready.arena.lanes \in Nat
    BY <1>6 DEF MemoryType, ArenaType
  <2> QED BY <1>5, <1>7, <1>8, <2>1
<1> HIDE DEF m
<1>10. lanes = Smaller(asked, MaxLanes) /\ Smaller(asked, MaxLanes) \in Nat
  <2>1. MaxLanes \in Nat \ {0}
    BY ArenaAssumption
  <2>2. m.plan.lanes \in 1..m.arena.lanes /\ m.arena.lanes \in 1..MaxLanes
    BY <1>9 DEF Serves, Sound, Fits
  <2>3. CASE plan.kernel = "ct"
    BY <1>4, <1>9, <2>1, <2>3 DEF Smaller
  <2>4. CASE plan.kernel # "ct"
    BY <1>4, <1>9, <2>1, <2>2, <2>4 DEF Smaller
  <2> QED BY <2>3, <2>4
<1> HIDE DEF lanes
<1> QED BY <1>1, <1>3, <1>4, <1>9, <1>10

(* A plan is built within the arena it is given.                             *)
LEMMA InitializeBuilds ==
  ASSUME TypeInv, NEW cfg \in Configs, Initialize(cfg)
  PROVE  /\ vectors' \in VectorsType /\ arena' \in ArenaType /\ plan' \in PlanType
         /\ Fits(Memory)' /\ plan'.pendingNd = 0
<1> DEFINE T == Budget(cfg)
           L == Clamp(cfg.lanes, 1, MaxLanes)
           packets == Larger(1, Smaller(Packet, L))
           base == [kernel |-> "ct", requested |-> Smaller(T, T),
                    packetCols |-> packets, step |-> 0, threads |-> 0, lanes |-> 0,
                    pendingNd |-> 0, pendingSpecial |-> [s \in Slots |-> 0], cached |-> {},
                    built |-> T]
<1>1. /\ {Size, MaxThreads, MaxLanes, Packet, Hardware} \subseteq Nat \ {0}
      /\ cfg \in [threads : Int, lanes : Int, inner : BOOLEAN, innerThreads : Int, nd : Nat]
  BY ArenaAssumption
<1>2. T \in 1..MaxThreads /\ L \in 1..MaxLanes
  <2>1. /\ Clamp(cfg.threads, 1, MaxThreads) \in 1..MaxThreads
        /\ \A x \in Int : Clamp(x, 1, MaxThreads) \in 1..MaxThreads
        /\ L \in 1..MaxLanes
    BY <1>1, ClampIs
  <2>2. (IF cfg.innerThreads > 0 THEN cfg.innerThreads ELSE Hardware) \in Int
    BY <1>1
  <2> QED BY <1>1, <2>1, <2>2 DEF Budget, Larger
<1> HIDE DEF T, L
<1>3. /\ vectors' = [rows |-> T * L, stage |-> T * L * Size, nd |-> cfg.nd, special |-> vectors.special]
      /\ arena' = Published(vectors', T, L)
  BY DEF Initialize, Shape, T, L
<1>4. T * L \in Nat /\ T * L * Size \in Nat
  <2>1. T * L \in Nat
    BY <1>1, <1>2
  <2> QED BY <1>1, <1>2, <2>1
<1>5. vectors' \in VectorsType
  BY <1>1, <1>3, <1>4 DEF TypeInv, VectorsType
<1>6. /\ arena' \in ArenaType /\ arena'.threads = T /\ arena'.lanes = L
      /\ arena'.rows = vectors'.rows /\ arena'.stage = vectors'.stage /\ arena'.nd = vectors'.nd
  <2>1. PICK v \in VectorsType : v = vectors'
    BY <1>5
  <2>2. T \in Nat /\ L \in Nat
    BY <1>1, <1>2
  <2>3. /\ Published(v, T, L) \in ArenaType
        /\ Published(v, T, L).threads = T /\ Published(v, T, L).lanes = L
        /\ Published(v, T, L).rows = v.rows /\ Published(v, T, L).stage = v.stage
        /\ Published(v, T, L).nd = v.nd
    BY <2>2 DEF Published, ArenaType, VectorsType
  <2>4. arena' = Published(v, T, L)
    BY <1>3, <2>1
  <2> QED BY <2>1, <2>3, <2>4
<1>7. packets \in 1..L
  BY <1>1, <1>2 DEF Larger, Smaller
<1>8. base \in PlanType
  <2>1. [s \in Slots |-> 0] \in Specials
    BY DEF Specials
  <2>2. Smaller(T, T) \in Nat /\ packets \in Nat /\ T \in Nat
    BY <1>1, <1>2, <1>7 DEF Smaller
  <2> HIDE DEF packets
  <2> QED BY <2>1, <2>2 DEF PlanType
<1>9. Effective(base, arena') = Smaller(T, Hardware)
  <2>1. base.requested = T
    BY <1>1, <1>2 DEF Smaller
  <2>2. Effective(base, arena') = Larger(1, Smaller(Smaller(T, Hardware), Smaller(MaxThreads, T)))
    BY <1>6, <2>1 DEF Effective
  <2> QED BY <1>1, <1>2, <2>2 DEF Larger, Smaller
<1>10. plan' = Fitted(base, Smaller(T, Hardware), packets, arena')
  BY <1>6, <1>9 DEF Initialize, Constructed, T
<1> HIDE DEF base, packets
<1>11. /\ plan' \in PlanType
       /\ plan'.threads = Larger(1, Smaller(Smaller(T, Hardware), T))
       /\ plan'.lanes = Larger(1, Smaller(packets, L))
       /\ plan'.requested = base.requested /\ plan'.packetCols = base.packetCols
       /\ plan'.pendingNd = base.pendingNd
  <2>1. Smaller(T, Hardware) \in Int /\ packets \in Int
    BY <1>1, <1>2, <1>7 DEF Smaller
  <2> QED BY <1>6, <1>8, <1>10, <2>1, FittedIs
<1>12. base.requested = T /\ base.packetCols = packets /\ base.pendingNd = 0
  BY <1>1, <1>2 DEF base, Smaller
<1>13. /\ plan'.threads \in 1..T /\ plan'.lanes \in 1..L /\ plan'.requested \in 1..T
       /\ Smaller(plan'.requested, Hardware) <= plan'.threads /\ plan'.packetCols # 0
  BY <1>1, <1>2, <1>7, <1>11, <1>12 DEF Larger, Smaller
<1>14. Fits(Memory)'
  BY <1>2, <1>3, <1>6, <1>13 DEF Fits, Memory
<1> QED BY <1>5, <1>6, <1>11, <1>12, <1>14

-----------------------------------------------------------------------------
\* The parts of the invariant that are about the memory, and the rest.
MemoryInv ==
  /\ vectors \in VectorsType /\ arena \in ArenaType /\ plan \in PlanType \cup {NoPlan}
  /\ plan # NoPlan => Fits(Memory) /\ plan.pendingNd = 0

\* A step that costs the plan no thread.
Tended == plan # NoPlan /\ plan' # NoPlan => Effective(plan', arena') = Effective(plan, arena)

(* A step that serves keeps the memory sound and loses no thread.            *)
LEMMA ServedStep ==
  ASSUME NEW m, Become(m), TypeInv, ArenaInv, plan # NoPlan, Serves(Memory, m)
  PROVE  MemoryInv' /\ plan' # NoPlan /\ Tended
BY ServesNext DEF MemoryInv, Tended

(* What the stage of a two-dimensional call says of its fields.              *)
LEMMA JobStages ==
  ASSUME job \in JobType
  PROVE  /\ job = None => job.stage = "none"
         /\ job # None => job.stage \in {"columns", "rows", "back"} /\ job.required \in Nat /\ job.same \in BOOLEAN
         /\ job.stage \in {"rows", "back"} =>
              /\ job # None /\ job.scratch \in Nat
              /\ [job EXCEPT !.stage = "back"] \in JobType
              /\ [job EXCEPT !.stage = "back"].stage = "back"
              /\ [job EXCEPT !.stage = "back"].required = job.required
              /\ [job EXCEPT !.stage = "back"].scratch = job.scratch
BY DEF JobType, None

(* A new plan finds vectors made for it.                                     *)
LEMMA InitializeStep ==
  ASSUME IInv, NEW cfg \in Configs, Initialize(cfg)
  PROVE  IInv'
<1>1. MemoryInv' /\ plan' # NoPlan
  BY InitializeBuilds, NoPlanIsNone DEF IInv, MemoryInv
<1>2. job' = None /\ prepared' = None
  BY DEF Initialize
<1>3. job'.stage = "none"
  BY <1>2 DEF None
<1> QED BY <1>1, <1>2, <1>3
     DEF IInv, TypeInv, ArenaInv, MemoryInv, JobType, ScratchSurvives, LanesAsAsked

(* Without a plan there is nothing to keep.                                  *)
LEMMA DiscardStep ==
  ASSUME IInv, DiscardPlan
  PROVE  IInv' /\ plan' = NoPlan
<1>1. job' = None /\ prepared' = None /\ plan' = NoPlan /\ UNCHANGED <<vectors, arena>>
  BY DEF DiscardPlan
<1>2. job'.stage = "none"
  BY <1>1 DEF None
<1> QED BY <1>1, <1>2 DEF IInv, TypeInv, ArenaInv, JobType, ScratchSurvives, LanesAsAsked

(* Tuning and kernel have no part in the plan's size.                        *)
LEMMA SettingStep ==
  ASSUME IInv, plan # NoPlan, UNCHANGED <<vectors, arena, job, prepared>>,
         NEW step \in Nat, NEW kernel \in {"ct", "stockham"},
         plan' = [plan EXCEPT !.step = step, !.kernel = kernel]
  PROVE  IInv' /\ Tended
<1>1. plan \in PlanType /\ Fits(Memory) /\ plan.pendingNd = 0
  BY DEF IInv, TypeInv, ArenaInv
<1>2. /\ plan' \in PlanType /\ plan'.pendingNd = 0 /\ plan'.requested = plan.requested
      /\ plan'.threads = plan.threads /\ plan'.lanes = plan.lanes
      /\ plan'.packetCols = plan.packetCols
  BY <1>1 DEF PlanType
<1>3. Fits(Memory)'
  BY <1>1, <1>2 DEF Fits, Memory
<1>4. Tended
  BY <1>2 DEF Tended, Effective
<1>5. TypeInv' /\ ArenaInv'
  BY <1>2, <1>3, NoPlanIsNone DEF IInv, TypeInv, ArenaInv
<1> QED BY <1>4, <1>5 DEF IInv, ScratchSurvives, LanesAsAsked

\* A dispatch within a step: the invariant, but for what becomes of the job.
LEMMA DispatchStep ==
  ASSUME IInv, plan # NoPlan, Dispatch
  PROVE  /\ MemoryInv' /\ plan' # NoPlan /\ Tended /\ vectors'.nd = vectors.nd
         /\ prepared' \in [asked : Nat, lanes : Nat, threads : Nat] \cup {None}
         /\ LanesAsAsked'
<1>1. PICK m : Become(m) /\ Serves(Memory, m) /\ m.vectors.nd = vectors.nd
  BY DispatchServes DEF IInv
<1>2. MemoryInv' /\ plan' # NoPlan /\ Tended
  BY <1>1, ServedStep DEF IInv
<1>3. vectors'.nd = vectors.nd
  BY <1>1 DEF Become
<1> QED BY <1>2, <1>3, DispatchServes DEF IInv, LanesAsAsked

(* A call on one axis prepares the plan and dispatches.                      *)
LEMMA ApplyAxisStep ==
  ASSUME IInv, ApplyAxis
  PROVE  IInv' /\ Tended
<1>1. plan # NoPlan /\ job = None /\ job' = None /\ Dispatch
  BY DEF ApplyAxis, Idle
<1>2. job'.stage = "none"
  BY <1>1 DEF None
<1> QED BY <1>1, <1>2, DispatchStep DEF IInv, TypeInv, ArenaInv, MemoryInv, JobType, ScratchSurvives

(* Reserving scratch and lanes ahead serves what is there.                   *)
LEMMA ReserveStep ==
  ASSUME IInv, NEW request \in Requests, Reserve(request)
  PROVE  IInv' /\ Tended
<1>1. plan # NoPlan /\ job = None /\ job' = None /\ prepared' = prepared
  BY DEF Reserve, Idle
<1>2. Become(Reserved(Memory, request).memory) /\ request \in Asks
  BY ArenaAssumption DEF Reserve, Asks
<1>3. Serves(Memory, Reserved(Memory, request).memory)
  BY <1>1, <1>2, PlanSound, ReservedServes DEF IInv
<1>4. MemoryInv' /\ plan' # NoPlan /\ Tended
  BY <1>1, <1>2, <1>3, ServedStep DEF IInv
<1>5. job'.stage = "none"
  BY <1>1 DEF None
<1> QED BY <1>1, <1>4, <1>5 DEF IInv, TypeInv, ArenaInv, MemoryInv, JobType, ScratchSurvives, LanesAsAsked

(* The column plan of a two-dimensional call prepares and dispatches.        *)
LEMMA FirstAxisStep ==
  ASSUME IInv, NEW width \in Widths, NEW same \in BOOLEAN, FirstAxis(width, same)
  PROVE  IInv' /\ Tended
<1>1. plan # NoPlan /\ Dispatch
      /\ job' = [stage |-> "columns", required |-> Size * width, same |-> same]
  BY DEF FirstAxis, Idle
<1>2. Size * width \in Nat
  BY ArenaAssumption
<1>3. job' \in JobType /\ job'.stage = "columns"
  BY <1>1, <1>2 DEF JobType
<1> QED BY <1>1, <1>3, DispatchStep DEF IInv, TypeInv, ArenaInv, MemoryInv, ScratchSurvives

(* The scratch pointer is taken from a vector that is long enough.           *)
LEMMA TakeScratchStep ==
  ASSUME IInv, TakeScratch
  PROVE  IInv' /\ Tended
<1> DEFINE m == NdEnsured(Memory, job.required)
<1>1. /\ job.stage = "columns" /\ Become(m) /\ prepared' = prepared
      /\ job' = [stage |-> "rows", required |-> job.required, same |-> job.same,
                 scratch |-> m.arena.nd]
  BY DEF TakeScratch
<1>2. job # None /\ job.required \in Nat /\ job.same \in BOOLEAN
  BY <1>1, JobStages DEF IInv, TypeInv
<1>3. plan # NoPlan /\ Sound(Memory)
  BY <1>2, PlanSound DEF IInv, ArenaInv
<1>4. Serves(Memory, m) /\ job.required <= m.vectors.nd
  BY <1>2, <1>3, NdEnsuredIs
<1> HIDE DEF m
<1>5. MemoryInv' /\ plan' # NoPlan /\ Tended
  BY <1>1, <1>3, <1>4, ServedStep DEF IInv
<1>6. vectors' = m.vectors /\ m.arena.nd = m.vectors.nd /\ m.arena.nd \in Nat
  BY <1>1, <1>4 DEF Become, Serves, Sound, Fits, MemoryType, ArenaType
<1>7. job' \in JobType /\ job'.scratch = m.arena.nd /\ job'.required = job.required
  BY <1>1, <1>2, <1>6 DEF JobType
<1>8. ScratchSurvives'
  BY <1>4, <1>6, <1>7 DEF ScratchSurvives
<1> QED BY <1>1, <1>5, <1>7, <1>8 DEF IInv, TypeInv, ArenaInv, MemoryInv, LanesAsAsked

(* The rows' dispatch leaves the vector the pointer points into as long as   *)
(* it was.                                                                   *)
LEMMA SecondAxisStep ==
  ASSUME IInv, SecondAxis
  PROVE  IInv' /\ Tended
<1>1. job.stage = "rows" /\ job' = [job EXCEPT !.stage = "back"]
  BY DEF SecondAxis
<1>2. /\ job # None /\ job' \in JobType /\ job'.required = job.required
      /\ job'.scratch = job.scratch /\ job'.stage = "back"
  BY <1>1, JobStages DEF IInv, TypeInv
<1>3. plan # NoPlan /\ job.scratch = vectors.nd /\ job.required <= vectors.nd
  BY <1>1, <1>2 DEF IInv, ArenaInv, ScratchSurvives
<1>4. /\ MemoryInv' /\ plan' # NoPlan /\ Tended /\ vectors'.nd = vectors.nd
      /\ prepared' \in [asked : Nat, lanes : Nat, threads : Nat] \cup {None}
      /\ LanesAsAsked'
  <2>1. CASE job.same
    BY <1>3, <2>1, DispatchStep DEF SecondAxis
  <2>2. CASE ~job.same
    <3>1. UNCHANGED <<vectors, arena, plan, prepared>>
      BY <2>2 DEF SecondAxis
    <3>2. Tended
      BY <3>1 DEF Tended
    <3>3. MemoryInv'
      BY <3>1 DEF MemoryInv, IInv, TypeInv, ArenaInv, Fits, Memory
    <3> QED BY <1>3, <3>1, <3>2, <3>3 DEF IInv, TypeInv, LanesAsAsked
  <2> QED BY <2>1, <2>2
<1>5. ScratchSurvives'
  BY <1>2, <1>3, <1>4 DEF ScratchSurvives
<1> QED BY <1>2, <1>4, <1>5 DEF IInv, TypeInv, ArenaInv, MemoryInv

(* The last step reads the scratch area, which is still where it was.        *)
LEMMA TransposeBackStep ==
  ASSUME IInv, TransposeBack
  PROVE  IInv' /\ Tended
<1>1. job' = None /\ UNCHANGED <<vectors, arena, plan, prepared>>
  BY DEF TransposeBack
<1>2. job'.stage = "none"
  BY <1>1 DEF None
<1>3. Tended
  BY <1>1 DEF Tended
<1>4. TypeInv' /\ ArenaInv'
  BY <1>1 DEF IInv, TypeInv, ArenaInv, JobType, Fits, Memory
<1> QED BY <1>1, <1>2, <1>3, <1>4 DEF IInv, ScratchSurvives, LanesAsAsked

(* Every step keeps the invariant, and none but a new plan costs threads.    *)
LEMMA StepKeeps ==
  ASSUME IInv, [Next]_vars
  PROVE  IInv' /\ ((\E cfg \in Configs : Initialize(cfg)) \/ Tended)
<1>1. CASE UNCHANGED vars
  <2>1. Tended
    BY <1>1 DEF Tended, vars
  <2> QED BY <1>1, <2>1 DEF vars, IInv, TypeInv, ArenaInv, ScratchSurvives, LanesAsAsked, Fits, Memory
<1>2. CASE \E cfg \in Configs : Initialize(cfg)
  BY <1>2, InitializeStep
<1>3. CASE DiscardPlan
  BY <1>3, DiscardStep DEF Tended
<1>4. ASSUME NEW k \in Steps, SetPacketStep(k)
      PROVE  IInv' /\ Tended
  <2>1. plan # NoPlan /\ plan' = [plan EXCEPT !.step = k] /\ UNCHANGED <<vectors, arena, job, prepared>>
    BY <1>4 DEF SetPacketStep, Idle
  <2>2. k \in Nat /\ plan \in PlanType /\ plan.kernel \in {"ct", "stockham"}
    BY <2>1, ArenaAssumption DEF IInv, TypeInv, PlanType
  <2>3. plan' = [plan EXCEPT !.step = k, !.kernel = plan.kernel]
    BY <2>1, <2>2 DEF PlanType
  <2> QED BY <2>1, <2>2, <2>3, SettingStep
<1>5. ASSUME NEW k \in {"ct", "stockham"}, UseKernel(k)
      PROVE  IInv' /\ Tended
  <2>1. plan # NoPlan /\ plan' = [plan EXCEPT !.kernel = k] /\ UNCHANGED <<vectors, arena, job, prepared>>
    BY <1>5 DEF UseKernel, Idle
  <2>2. plan \in PlanType /\ plan.step \in Nat
    BY <2>1 DEF IInv, TypeInv, PlanType
  <2>3. plan' = [plan EXCEPT !.step = plan.step, !.kernel = k]
    BY <2>1, <2>2 DEF PlanType
  <2> QED BY <2>1, <2>2, <2>3, SettingStep
<1>6. CASE ApplyAxis
  BY <1>6, ApplyAxisStep
<1>7. CASE \E request \in Requests : Reserve(request)
  BY <1>7, ReserveStep
<1>8. CASE \E width \in Widths, same \in BOOLEAN : FirstAxis(width, same)
  BY <1>8, FirstAxisStep
<1>9. CASE TakeScratch
  BY <1>9, TakeScratchStep
<1>10. CASE SecondAxis
  BY <1>10, SecondAxisStep
<1>11. CASE TransposeBack
  BY <1>11, TransposeBackStep
<1> QED BY <1>1, <1>2, <1>3, <1>4, <1>5, <1>6, <1>7, <1>8, <1>9, <1>10, <1>11 DEF Next

(* At the start there is no plan and nothing is allocated.                   *)
LEMMA InitInvariant == Init => IInv
<1> SUFFICES ASSUME Init PROVE IInv
  OBVIOUS
<1>1. [s \in Slots |-> 0] \in Specials
  BY DEF Specials
<1>2. vectors \in VectorsType /\ arena \in ArenaType
  BY <1>1 DEF Init, VectorsType, ArenaType
<1>3. job = None /\ job.stage = "none" /\ prepared = None /\ plan = NoPlan
  BY DEF Init, None
<1> QED BY <1>2, <1>3 DEF IInv, TypeInv, ArenaInv, JobType, ScratchSurvives, LanesAsAsked

-----------------------------------------------------------------------------
(* Every resize leaves an arena of its shape, a workspace within it, and the *)
(* plan at least the threads it may use (resize_arena_impl, ensure).         *)
THEOREM ArenaInvariant == Spec => []IInv
<1>1. IInv /\ [Next]_vars => IInv'
  BY StepKeeps
<1> QED BY InitInvariant, <1>1, PTL DEF Spec

(* Whatever sequence of resizes led there, the rows and slots that kernels   *)
(* index (Workspace::row_a, stockham_execute_axis) lie within the vectors.   *)
THEOREM KernelsStayInBounds == Spec => []BuffersInBounds
<1>1. IInv => BuffersInBounds
  BY FitsInBounds DEF IInv, ArenaInv, BuffersInBounds
<1> QED BY ArenaInvariant, <1>1, PTL

(* The transpose buffer fft_inplace_2d took the address of is neither moved  *)
(* nor shrunk by its second axis.                                            *)
THEOREM ScratchIsKept == Spec => []ScratchSurvives
<1>1. IInv => ScratchSurvives
  BY DEF IInv
<1> QED BY ArenaInvariant, <1>1, PTL

(* A dispatch gets the lanes it asks for, up to the limit, however small an  *)
(* arena an earlier request left (prepare_plan_workspace).                   *)
THEOREM DispatchGetsItsLanes == Spec => []LanesAsAsked
<1>1. IInv => LanesAsAsked
  BY DEF IInv
<1> QED BY ArenaInvariant, <1>1, PTL

(* No request lowers the number of threads a plan may use: requested_threads *)
(* shrinks at a resize (resize_arena_impl), but not below what it could use. *)
THEOREM NoResizeCostsThreads == Spec => ParallelismKept
<1>1. ASSUME IInv, [Next]_vars,
             plan # NoPlan, plan' # NoPlan, ~(\E cfg \in Configs : Initialize(cfg))
      PROVE  Effective(plan', arena') >= Effective(plan, arena)
  <2>1. Effective(plan', arena') = Effective(plan, arena)
    BY <1>1, StepKeeps DEF Tended
  <2>2. Effective(plan, arena) \in Nat
    <3>1. Sound(Memory) /\ Memory.plan = plan /\ Memory.arena = arena
      BY <1>1, PlanSound DEF IInv
    <3>2. /\ Effective(Memory.plan, Memory.arena) = Share(Memory)
          /\ Share(Memory) \in 1..Memory.plan.threads /\ Memory.plan.threads \in 1..MaxThreads
      BY <3>1, ShareIsEffective DEF Sound
    <3> QED BY <3>1, <3>2, ArenaAssumption
  <2> QED BY <2>1, <2>2
<1>2. IInv /\ [Next]_vars =>
        [plan # NoPlan /\ plan' # NoPlan /\ ~(\E cfg \in Configs : Initialize(cfg)) =>
           Effective(plan', arena') >= Effective(plan, arena)]_vars
  BY <1>1
<1> QED BY ArenaInvariant, <1>2, PTL DEF Spec, ParallelismKept
=============================================================================
