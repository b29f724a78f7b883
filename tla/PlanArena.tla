----------------------------- MODULE PlanArena -----------------------------
(***************************************************************************)
(* The scratch memory of a plan.  PlanEnvironment (plan_support.hpp) owns  *)
(* the vectors, the PlanArena (eigen_fft.hpp) publishes pointers into them *)
(* with the capacities they were sized for, and the Plan's workspace says  *)
(* how much of it a transform may use.  Kernels ask for lanes and threads  *)
(* before each dispatch, the two-dimensional transform for a transpose     *)
(* buffer, an algorithm for whatever it needs; each may resize the arena,  *)
(* to the size of that one request, which may be less than there was.      *)
(*                                                                         *)
(* A plan is used by one thread at a time (PlanCache).  An allocation that *)
(* fails half-way through a resize is not modelled.  useThreads is always  *)
(* TRUE: the default build allows no sequential fallback.                  *)
(***************************************************************************)
EXTENDS Integers, FiniteSets, Sequences, FiniteSetsExt

CONSTANTS
  Size,        (* N of the plan                                            *)
  MaxThreads,  (* Limits::kCompileTimeMaxThreads                           *)
  MaxLanes,    (* Limits::compile_time_max_lane_capacity()                 *)
  Packet,      (* complex numbers in a SIMD packet                         *)
  Hardware,    (* std::thread::hardware_concurrency()                      *)
  Slots,       (* the special buffers of the arena                         *)
  Configs,     (* runtime configurations an application may ask for        *)
  Steps,       (* values it gives tuning.packet_step, 0 for automatic      *)
  Widths,      (* columns of the matrices it transforms along both axes    *)
  Requests     (* advanced workspaces its own algorithms ask for           *)

ASSUME ArenaAssumption ==
  /\ {Size, MaxThreads, MaxLanes, Packet, Hardware} \subseteq Nat \ {0}
  /\ Configs \subseteq [threads : Int, lanes : Int, inner : BOOLEAN, innerThreads : Int, nd : Nat]
  /\ Steps \subseteq Nat /\ Widths \subseteq Nat \ {0}
  /\ Requests \subseteq [lanes : Nat, threads : Nat, nd : Nat,
                         special : Seq([slot : Nat, elements : Nat])]
  /\ Slots \subseteq Nat

VARIABLES
  vectors,   (* elements in the environment's vectors                      *)
  arena,     (* capacities, and the extents of what its pointers name      *)
  plan,      (* the Plan with its workspace and tuning, or NoPlan          *)
  job,       (* the two-dimensional transform that is under way, or None   *)
  prepared   (* what the last dispatch was given, or None                  *)

vars == <<vectors, arena, plan, job, prepared>>

NoPlan == [kernel |-> "no plan"]
None == [stage |-> "none"]

Larger(a, b) == IF a >= b THEN a ELSE b
Smaller(a, b) == IF a <= b THEN a ELSE b
Clamp(x, low, high) == Larger(low, Smaller(x, high))

\* compute_plan_arena_shape, of threads and lanes that are positive.
Shape(threads, lanes) == [rows |-> threads * lanes, stage |-> threads * lanes * Size]

\* The arena is pointed at the vectors and told the capacities.
Published(v, threads, lanes) ==
  [threads |-> threads, lanes |-> lanes, rows |-> v.rows, stage |-> v.stage,
   nd |-> v.nd, special |-> v.special]

\* Plan::effective_threads: what a dispatch may use.
Effective(p, a) ==
  Larger(1, Smaller(Smaller(p.requested, Hardware), Smaller(MaxThreads, a.threads)))

-----------------------------------------------------------------------------
(* The operators below take and return the memory as a record of the three *)
(* variables, because a request may resize it more than once.              *)
Memory == [vectors |-> vectors, arena |-> arena, plan |-> plan]

\* Workspace's limits, kept within an arena of that size.
Fitted(p, threads, lanes, a) ==
  [p EXCEPT !.threads = Larger(1, Smaller(threads, a.threads)),
            !.lanes = Larger(1, Smaller(lanes, a.lanes))]

\* Mutant: the arena's pointers are not set anew.
ResizedUnpublished(m, askedThreads, askedLanes) ==
  LET threads == Clamp(askedThreads, 1, MaxThreads)
      lanes == Clamp(askedLanes, 1, MaxLanes)
      shape == Shape(threads, lanes)
      v == [m.vectors EXCEPT !.rows = shape.rows, !.stage = shape.stage,
                             !.nd = Larger(@, m.plan.pendingNd)]
      a == [m.arena EXCEPT !.threads = threads, !.lanes = lanes, !.nd = v.nd]
  IN  [vectors |-> v, arena |-> a, plan |-> Fitted(m.plan, m.plan.threads, m.plan.lanes, a)]

\* Mutant: buffers get the size that is pending, even if it is less.
ResizedExactly(m, askedThreads, askedLanes) ==
  LET threads == Clamp(askedThreads, 1, MaxThreads)
      lanes == Clamp(askedLanes, 1, MaxLanes)
      shape == Shape(threads, lanes)
      v == [rows |-> shape.rows, stage |-> shape.stage, nd |-> m.plan.pendingNd,
            special |-> m.plan.pendingSpecial]
      a == Published(v, threads, lanes)
      p == [m.plan EXCEPT !.pendingNd = 0, !.pendingSpecial = [s \in Slots |-> 0]]
  IN  [vectors |-> v, arena |-> a, plan |-> Fitted(p, p.threads, p.lanes, a)]

\* What is asked of special buffers and of the nd buffer stays pending until a
\* resize, which never shrinks these two.
Regrown(m, threads, lanes) ==
  [rows |-> Shape(threads, lanes).rows, stage |-> Shape(threads, lanes).stage,
   nd |-> Larger(m.vectors.nd, m.plan.pendingNd),
   special |-> [s \in Slots |-> Larger(m.vectors.special[s], m.plan.pendingSpecial[s])]]
Settled(p, threads) ==
  [p EXCEPT !.requested = Smaller(p.requested, threads), !.pendingNd = 0,
            !.pendingSpecial = [s \in Slots |-> 0]]
Sized(m, threads, lanes) ==
  LET a == Published(Regrown(m, threads, lanes), threads, lanes)
  IN  [vectors |-> Regrown(m, threads, lanes), arena |-> a,
       plan |-> Fitted(Settled(m.plan, threads), m.plan.threads, m.plan.lanes, a)]

\* PlanEnvironment::resize_arena_impl.
Resized(m, askedThreads, askedLanes) ==
  Sized(m, Clamp(askedThreads, 1, MaxThreads), Clamp(askedLanes, 1, MaxLanes))

\* Mutant: looks at threads only.
EnsuredForThreads(m, threads, lanes) ==
  LET grown == IF threads > m.arena.threads THEN Resized(m, threads, lanes) ELSE m
  IN  [grown EXCEPT !.plan = Fitted(@, threads, lanes, grown.arena)]

\* Workspace::ensure.
Ensured(m, threads, lanes) ==
  LET grown == IF lanes > m.arena.lanes \/ threads > m.arena.threads
               THEN Resized(m, threads, lanes) ELSE m
  IN  [grown EXCEPT !.plan = Fitted(@, threads, lanes, grown.arena)]

\* Mutant: the transpose needs but one thread.
NdEnsuredAlone(m, required) ==
  IF required > m.arena.nd
  THEN Resized([m EXCEPT !.plan.pendingNd = required], 1, m.plan.lanes)
  ELSE m

\* Workspace::ensure_nd_buffer; the resize it asks for always suffices.
NdEnsured(m, required) ==
  IF required > m.arena.nd
  THEN Resized([m EXCEPT !.plan.pendingNd = required], m.plan.threads, m.plan.lanes)
  ELSE m

\* The special requests before the first that names no slot: only these become pending.
Accepted(special) ==
  {i \in DOMAIN special : \A j \in 1..i : special[j].slot \in Slots}
Wanted(special, a, s) ==
  {special[i].elements : i \in {j \in Accepted(special) : /\ special[j].slot = s
                                                          /\ special[j].elements > a.special[s]}}
Pending(m, special) ==
  [m EXCEPT !.plan.pendingSpecial =
     [s \in Slots |-> Max(Wanted(special, m.arena, s) \cup {m.plan.pendingSpecial[s]})]]

\* Room for the lanes and threads of a request, and for its special buffers.
Roomy(m, request) == m.arena.lanes >= request.lanes /\ m.arena.threads >= request.threads
Ample(m, special) ==
  \A i \in DOMAIN special : m.arena.special[special[i].slot] >= special[i].elements

NdGranted(m, request) ==
  IF request.nd > m.arena.nd
  THEN Resized([m EXCEPT !.plan.pendingNd = request.nd], m.plan.requested, Larger(1, request.lanes))
  ELSE m
WithRoom(m, request) ==
  Resized(m, Larger(request.threads, m.plan.requested), Larger(request.lanes, m.arena.lanes))
RoomGranted(m, request) == IF Roomy(m, request) THEN m ELSE WithRoom(m, request)
SpecialsGranted(m, request) ==
  IF request.special = <<>> THEN m ELSE WithRoom(Pending(m, request.special), request)

\* Plan::reserve_advanced_workspace: the answer, and the memory afterwards.
Reserved(m, request) ==
  LET roomy == RoomGranted(NdGranted(m, request), request)
      full == SpecialsGranted(roomy, request)
      No(x) == [ok |-> FALSE, memory |-> x]
  IN  IF request \in m.plan.cached THEN [ok |-> TRUE, memory |-> m]
      ELSE IF ~Roomy(roomy, request) THEN No(roomy)
      ELSE IF Accepted(request.special) # DOMAIN request.special
           THEN No(Pending(roomy, request.special))
      ELSE IF ~Ample(full, request.special) THEN No(full)
      ELSE [ok |-> TRUE, memory |-> [full EXCEPT !.plan.cached = @ \cup {request}]]

Become(m) == vectors' = m.vectors /\ arena' = m.arena /\ plan' = m.plan

-----------------------------------------------------------------------------
\* The outer threads of a configuration or, if more, the inner ones it allows.
Budget(cfg) ==
  LET outer == Clamp(cfg.threads, 1, MaxThreads)
      wanted == IF cfg.innerThreads > 0 THEN cfg.innerThreads ELSE Hardware
  IN  IF cfg.inner THEN Larger(outer, Clamp(wanted, 1, MaxThreads)) ELSE outer

\* A plan as its constructor leaves it in that arena: the workspace is warmed up
\* while the plan has no resizer yet.
Constructed(cfg, a) ==
  LET packetCols == Larger(1, Smaller(Packet, a.lanes))
      p == [kernel |-> "ct", requested |-> Smaller(Budget(cfg), a.threads),
            packetCols |-> packetCols, step |-> 0, threads |-> 0, lanes |-> 0,
            pendingNd |-> 0, pendingSpecial |-> [s \in Slots |-> 0], cached |-> {},
            built |-> Budget(cfg)]
  IN  Fitted(p, Effective(p, a), packetCols, a)

\* PlanEnvironment::initialize; the special buffers of an earlier plan stay.
Initialize(cfg) ==
  /\ job = None
  /\ LET lanes == Clamp(cfg.lanes, 1, MaxLanes)
         shape == Shape(Budget(cfg), lanes)
     IN  vectors' = [rows |-> shape.rows, stage |-> shape.stage, nd |-> cfg.nd,
                     special |-> vectors.special]
         /\ arena' = Published(vectors', Budget(cfg), lanes)
  /\ plan' = Constructed(cfg, arena')
  /\ prepared' = None
  /\ UNCHANGED job

\* PlanEnvironment::discard_plan.
DiscardPlan ==
  /\ job = None /\ plan # NoPlan
  /\ plan' = NoPlan /\ prepared' = None
  /\ UNCHANGED <<vectors, arena, job>>

Idle == job = None /\ plan # NoPlan

SetPacketStep(k) ==
  /\ Idle
  /\ plan' = [plan EXCEPT !.step = k]
  /\ UNCHANGED <<vectors, arena, job, prepared>>

UseKernel(k) ==
  /\ Idle
  /\ plan' = [plan EXCEPT !.kernel = k]
  /\ UNCHANGED <<vectors, arena, job, prepared>>

-----------------------------------------------------------------------------
\* What the Stockham kernel adds to the workspace every kernel asks for.
StockhamRequest(threads, lanes) ==
  [lanes |-> lanes, threads |-> threads, nd |-> 0, special |-> <<>>]

\* prepare_plan_workspace, and the number of lanes the kernel then works in.
Dispatch ==
  LET threads == Effective(plan, arena)
      asked == IF plan.step > 0 THEN plan.step ELSE plan.packetCols
      ready == Ensured(Memory, threads, asked)
      more == Reserved(ready, StockhamRequest(threads, asked)).memory
      m == IF plan.kernel = "ct" THEN ready ELSE more
      lanes == IF plan.kernel = "ct"
               THEN Smaller(asked, m.plan.lanes)
               ELSE Smaller(Smaller(asked, m.plan.lanes), m.arena.lanes)
  IN  /\ Become(m)
      /\ prepared' = [asked |-> asked, lanes |-> lanes, threads |-> threads]

\* fft_apply_axis on a batch of columns.
ApplyAxis ==
  /\ Idle
  /\ Dispatch
  /\ UNCHANGED job

\* An algorithm of the application's asks for an advanced workspace.
Reserve(request) ==
  /\ Idle
  /\ Become(Reserved(Memory, request).memory)
  /\ UNCHANGED <<job, prepared>>

\* fft_inplace_2d, along columns, ...
FirstAxis(width, same) ==
  /\ Idle /\ (same => width = Size)
  /\ Dispatch
  /\ job' = [stage |-> "columns", required |-> Size * width, same |-> same]

\* ... then into the transpose buffer, whose address it keeps, ...
TakeScratch ==
  /\ job.stage = "columns"
  /\ LET m == NdEnsured(Memory, job.required)
     IN  /\ Become(m)
         /\ job' = [stage |-> "rows", required |-> job.required, same |-> job.same,
                    scratch |-> m.arena.nd]
  /\ UNCHANGED prepared

\* ... along rows, by another plan or, if the matrix is square, the same, and back.
SecondAxis ==
  /\ job.stage = "rows"
  /\ IF job.same THEN Dispatch ELSE UNCHANGED <<vectors, arena, plan, prepared>>
  /\ job' = [job EXCEPT !.stage = "back"]

TransposeBack ==
  /\ job.stage = "back"
  /\ job' = None
  /\ UNCHANGED <<vectors, arena, plan, prepared>>

Init ==
  /\ vectors = [rows |-> 0, stage |-> 0, nd |-> 0, special |-> [s \in Slots |-> 0]]
  /\ arena = [threads |-> 0, lanes |-> 0, rows |-> 0, stage |-> 0, nd |-> 0,
              special |-> [s \in Slots |-> 0]]
  /\ plan = NoPlan
  /\ job = None
  /\ prepared = None

Next ==
  \/ \E cfg \in Configs : Initialize(cfg)
  \/ DiscardPlan
  \/ \E k \in Steps : SetPacketStep(k)
  \/ \E k \in {"ct", "stockham"} : UseKernel(k)
  \/ ApplyAxis
  \/ \E request \in Requests : Reserve(request)
  \/ \E width \in Widths, same \in BOOLEAN : FirstAxis(width, same)
  \/ TakeScratch \/ SecondAxis \/ TransposeBack

Spec == Init /\ [][Next]_vars

-----------------------------------------------------------------------------
(* What kernels index is there: the workspace's rows (Workspace::row_a,    *)
(* row_b, column_row), and in the Stockham buffers a slot for each thread  *)
(* of the arena, whatever sequence of resizes led there.                   *)
BuffersInBounds ==
  plan # NoPlan =>
    /\ \A t \in 0..(plan.threads - 1), l \in 0..(plan.lanes - 1) :
         t * arena.lanes + l < Smaller(arena.rows, vectors.rows)
    /\ \A slot \in 0..(arena.threads - 1) :
         (slot + 1) * Size * arena.lanes <= Smaller(arena.stage, vectors.stage)

(* The transpose buffer fft_inplace_2d took the address of (3203) is still *)
(* there, and large enough, when it transposes back, although the second   *)
(* axis may have resized the arena in between.                             *)
ScratchSurvives ==
  job.stage \in {"rows", "back"} =>
    job.scratch = vectors.nd /\ job.required <= vectors.nd

(* A dispatch works in as many lanes as were asked for, up to the limit,   *)
(* even when the two-dimensional transform or another request had shrunk   *)
(* the arena before (Workspace::ensure, prepare_plan_workspace).           *)
LanesAsAsked == prepared # None => prepared.lanes = Smaller(prepared.asked, MaxLanes)

(* No resize costs a plan parallelism: resize_arena_impl lowers            *)
(* requested_threads to what it was asked for and never raises it again,   *)
(* so nobody may ask for fewer threads than the plan could use.            *)
ParallelismKept ==
  [][plan # NoPlan /\ plan' # NoPlan /\ ~(\E cfg \in Configs : Initialize(cfg)) =>
       Effective(plan', arena') >= Effective(plan, arena)]_vars

-----------------------------------------------------------------------------
(* Promises the code does not keep; no run checks them.                    *)

(* reserve_advanced_workspace "returns true if the Plan (PlanArena) meets  *)
(* the request" (eigen_fft.hpp 2136): also in lanes and threads.           *)
CachedRequestsMet ==
  plan # NoPlan => \A r \in plan.cached : Roomy(Memory, r)

(* The arena a plan was built with has a Stockham slot for every worker of *)
(* the pool it was built for (3381 throws otherwise): so does any later.   *)
SlotForEveryWorker == plan # NoPlan => arena.threads >= plan.built
=============================================================================
