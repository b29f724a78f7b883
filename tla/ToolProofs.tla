-------------------------- MODULE ToolProofs ------------------------------
(***************************************************************************)
(* Proofs about the trace logger, for any number of threads and messages   *)
(* and any size of the buffers, and about the grid tools, for any grids,   *)
(* plans and configurations.                                               *)
(***************************************************************************)
EXTENDS TraceLogger, GridTools, Induction, SequenceTheorems

-----------------------------------------------------------------------------
(* Concatenating the buffers of a queue.  FlattenSeq is defined by a       *)
(* recursion over the prefixes of the queue; Prefix is its body.           *)

Prefix(f, s, i) == IF i = 1 THEN s[i] ELSE f[i - 1] \o s[i]

Flattens(f, s, n) == f = [i \in 1..n |-> Prefix(f, s, i)]

(* The recursion has a solution.                                             *)
LEMMA FlatteningExists ==
  ASSUME NEW s, NEW n \in Nat
  PROVE  \E f : Flattens(f, s, n)
<1> DEFINE T == {m \in Nat : \E f : Flattens(f, s, m)}
<1>1. 0 \in T
  <2> DEFINE f == [i \in 1..0 |-> s[i]]
  <2>1. f = [i \in 1..0 |-> Prefix(f, s, i)]
    OBVIOUS
  <2> QED BY <2>1 DEF Flattens
<1>2. ASSUME NEW m \in Nat, m \in T PROVE m + 1 \in T
  <2>1. PICK f : f = [i \in 1..m |-> Prefix(f, s, i)]
    BY <1>2 DEF Flattens
  <2> DEFINE new == Prefix(f, s, m + 1)
             g == [i \in 1..(m + 1) |-> IF i = m + 1 THEN new ELSE f[i]]
  <2>2. \A i \in 1..m : g[i] = f[i]
    OBVIOUS
  <2>3. g[m + 1] = new
    OBVIOUS
  <2>4. g = [i \in 1..(m + 1) |-> g[i]]
    OBVIOUS
  <2> HIDE DEF g
  <2>5. ASSUME NEW i \in 1..(m + 1) PROVE g[i] = Prefix(g, s, i)
    <3>1. i # 1 => i - 1 \in 1..m
      OBVIOUS
    <3>2. Prefix(g, s, i) = Prefix(f, s, i)
      BY <2>2, <3>1 DEF Prefix
    <3>3. CASE i = m + 1
      BY <2>3, <3>2, <3>3
    <3>4. CASE i # m + 1
      <4>1. i \in 1..m
        BY <3>4
      <4>2. f[i] = Prefix(f, s, i)
        BY <2>1, <4>1
      <4> QED BY <2>2, <3>2, <4>1, <4>2
    <3> QED BY <3>3, <3>4
  <2>6. Flattens(g, s, m + 1)
    BY <2>4, <2>5 DEF Flattens
  <2> QED BY <2>6
<1>3. n \in T
  <2> HIDE DEF T
  <2> QED BY <1>1, <1>2, SetInduction
<1> QED BY <1>3

(* It is built of messages, and depends only on the buffers it has reached.  *)
LEMMA FlatteningsAgree ==
  ASSUME NEW M, NEW s \in Seq(Seq(M)), NEW r, NEW n \in 0..Len(s), NEW m \in Nat, n <= m,
         \A i \in 1..n : r[i] = s[i],
         NEW f, Flattens(f, s, n), NEW g, Flattens(g, r, m)
  PROVE  \A i \in 1..n : f[i] = g[i] /\ f[i] \in Seq(M)
<1> DEFINE T == {k \in Nat : k \in 1..n => f[k] = g[k] /\ f[k] \in Seq(M)}
<1>1. 0 \in T
  OBVIOUS
<1>2. ASSUME NEW k \in Nat, k \in T PROVE k + 1 \in T
  <2> SUFFICES ASSUME k + 1 \in 1..n
               PROVE  f[k + 1] = g[k + 1] /\ f[k + 1] \in Seq(M)
    OBVIOUS
  <2>1. k + 1 \in 1..m /\ k + 1 \in 1..Len(s) /\ (k + 1) - 1 = k
    OBVIOUS
  <2>2. f[k + 1] = Prefix(f, s, k + 1) /\ g[k + 1] = Prefix(g, r, k + 1)
    BY <2>1 DEF Flattens
  <2>3. s[k + 1] \in Seq(M) /\ r[k + 1] = s[k + 1]
    BY <2>1, ElementOfSeq
  <2>4. CASE k = 0
    BY <2>2, <2>3, <2>4 DEF Prefix
  <2>5. CASE k # 0
    <3>1. f[k] = g[k] /\ f[k] \in Seq(M)
      BY <1>2, <2>5
    <3>2. k + 1 # 1
      BY <2>5
    <3>3. f[k + 1] = f[k] \o s[k + 1] /\ g[k + 1] = g[k] \o s[k + 1]
      BY <2>1, <2>2, <2>3, <3>2 DEF Prefix
    <3> QED BY <2>3, <3>1, <3>3, ConcatProperties
  <2> QED BY <2>4, <2>5
<1>3. Nat \subseteq T
  <2> HIDE DEF T
  <2> QED BY <1>1, <1>2, SetInduction
<1> QED BY <1>3

(* What FlattenSeq takes out of the recursion.                               *)
LEMMA FlattenSeqIs ==
  ASSUME NEW s, Len(s) \in Nat, Len(s) # 0
  PROVE  \E f : Flattens(f, s, Len(s)) /\ FlattenSeq(s) = f[Len(s)]
<1> DEFINE f == CHOOSE f : f = [i \in 1..Len(s) |-> Prefix(f, s, i)]
<1>1. FlattenSeq(s) = f[Len(s)]
  BY DEF FlattenSeq, Prefix
<1>2. Flattens(f, s, Len(s))
  BY FlatteningExists DEF Flattens
<1> HIDE DEF f
<1> QED BY <1>1, <1>2

(* Nothing queued, nothing to write.                                         *)
LEMMA FlattenNothing == FlattenSeq(<<>>) = <<>>
  BY EmptySeq DEF FlattenSeq

(* A buffer pushed on a queue comes after all that is queued.                *)
LEMMA FlattenAppend ==
  ASSUME NEW M, NEW s \in Seq(Seq(M)), NEW x \in Seq(M)
  PROVE  FlattenSeq(Append(s, x)) = FlattenSeq(s) \o x
<1> DEFINE n == Len(s)
           r == Append(s, x)
<1>1. /\ n \in Nat /\ r \in Seq(Seq(M)) /\ Len(r) = n + 1
      /\ (\A i \in 1..n : r[i] = s[i]) /\ r[n + 1] = x
  BY AppendProperties, LenProperties
<1> HIDE DEF n, r
<1>2. PICK g : Flattens(g, r, n + 1) /\ FlattenSeq(r) = g[n + 1]
  <2>1. Len(r) \in Nat /\ Len(r) # 0
    BY <1>1
  <2>2. \E g : Flattens(g, r, Len(r)) /\ FlattenSeq(r) = g[Len(r)]
    BY <2>1, FlattenSeqIs
  <2> QED BY <1>1, <2>2
<1>3. g[n + 1] = Prefix(g, r, n + 1)
  <2>1. n + 1 \in 1..(n + 1)
    BY <1>1
  <2> QED BY <1>2, <2>1 DEF Flattens
<1>4. CASE n = 0
  <2>1. s = <<>>
    BY <1>4, EmptySeq DEF n
  <2>2. g[n + 1] = x
    BY <1>1, <1>3, <1>4 DEF Prefix
  <2> QED BY <1>2, <2>1, <2>2, FlattenNothing, ConcatEmptySeq DEF r
<1>5. CASE n # 0
  <2>1. PICK f : Flattens(f, s, n) /\ FlattenSeq(s) = f[n]
    BY <1>1, <1>5, FlattenSeqIs DEF n
  <2>2. n \in 0..Len(s) /\ n + 1 \in Nat /\ n <= n + 1 /\ n \in 1..n
    BY <1>1, <1>5 DEF n
  <2>3. f[n] = g[n]
    <3>1. \A i \in 1..n : f[i] = g[i] /\ f[i] \in Seq(M)
      BY <1>1, <1>2, <2>1, <2>2, FlatteningsAgree
    <3> QED BY <2>2, <3>1
  <2>4. g[n + 1] = g[n] \o x
    BY <1>1, <1>3, <1>5 DEF Prefix
  <2> QED BY <1>2, <2>1, <2>3, <2>4 DEF r
<1> QED BY <1>4, <1>5

(* A queue of buffers of messages is written as messages.                    *)
LEMMA FlattenType ==
  ASSUME NEW M, NEW s \in Seq(Seq(M))
  PROVE  FlattenSeq(s) \in Seq(M)
<1>0. Len(s) \in Nat
  BY LenProperties
<1>1. CASE Len(s) = 0
  BY <1>1, FlattenNothing, EmptySeq
<1>2. CASE Len(s) # 0
  <2>1. PICK f : Flattens(f, s, Len(s)) /\ FlattenSeq(s) = f[Len(s)]
    BY <1>0, <1>2, FlattenSeqIs
  <2>2. Len(s) \in 0..Len(s) /\ Len(s) \in 1..Len(s)
    BY <1>0, <1>2
  <2>3. f[Len(s)] \in Seq(M)
    BY <1>0, <2>1, <2>2, FlatteningsAgree
  <2> QED BY <2>1, <2>3
<1> QED BY <1>1, <1>2

-----------------------------------------------------------------------------
(* The invariant.  Buffers that were taken out of the queue are in the      *)
(* hands of one thread only, and the destructor takes the rest when the    *)
(* background thread has ended, so that what is to be written keeps its    *)
(* order from hand to hand.                                                *)

Message == Threads \X Nat

TypeInv ==
  /\ logged \in [Threads -> Nat]
  /\ tls \in [Threads -> Seq(Message)]
  /\ {queue, work, drained} \subseteq Seq(Seq(Message))
  /\ file \in Seq(Message)
  /\ \A t \in Threads : Len(tls[t]) <= logged[t]

Hands ==
  /\ writer # "write" => work = <<>>
  /\ closer # "flush" => drained = <<>>
  /\ closer \in {"drain", "flush", "closed"} => writer = "ended"

LoggerInv == TypeInv /\ Hands /\ InOrder

(* What is to be written, with its parts named.                              *)
Parts(a, b, c, d) == a \o FlattenSeq(b) \o FlattenSeq(c) \o FlattenSeq(d)

(* A part that is empty can be left out, or its neighbour moved in its place.*)
LEMMA PartsMove ==
  ASSUME NEW M, NEW a \in Seq(M), NEW b \in Seq(Seq(M))
  PROVE  /\ Parts(a, <<>>, <<>>, b) = a \o FlattenSeq(b)
         /\ Parts(a, <<>>, b, <<>>) = a \o FlattenSeq(b)
         /\ Parts(a, b, <<>>, <<>>) = a \o FlattenSeq(b)
         /\ Parts(a, b, <<>>, <<>>) \in Seq(M)
<1>1. FlattenSeq(b) \in Seq(M) /\ <<>> \in Seq(M)
  BY FlattenType, EmptySeq
<1>2. a \o FlattenSeq(b) \in Seq(M)
  BY <1>1, ConcatProperties
<1>3. a \o <<>> = a /\ (a \o FlattenSeq(b)) \o <<>> = a \o FlattenSeq(b)
  BY <1>2, ConcatEmptySeq
<1> QED BY <1>2, <1>3, FlattenNothing DEF Parts

(* What was written moves with it.                                           *)
LEMMA PartsWritten ==
  ASSUME NEW M, NEW a \in Seq(M), NEW b \in Seq(Seq(M)), NEW c \in Seq(Seq(M)), NEW d \in Seq(Seq(M))
  PROVE  /\ Parts(a \o FlattenSeq(b), <<>>, c, d) = Parts(a, b, c, d)
         /\ Parts(a \o FlattenSeq(c), <<>>, <<>>, d) = Parts(a, <<>>, c, d)
<1>1. FlattenSeq(b) \in Seq(M) /\ FlattenSeq(c) \in Seq(M) /\ <<>> \in Seq(M)
  BY FlattenType, EmptySeq
<1>2. a \o FlattenSeq(b) \in Seq(M) /\ a \o FlattenSeq(c) \in Seq(M)
  BY <1>1, ConcatProperties
<1>3. /\ (a \o FlattenSeq(b)) \o <<>> = a \o FlattenSeq(b)
      /\ (a \o FlattenSeq(c)) \o <<>> = a \o FlattenSeq(c)
      /\ a \o <<>> = a
  BY <1>2, ConcatEmptySeq
<1> QED BY <1>3, FlattenNothing DEF Parts

(* A buffer that is pushed follows everything else.                          *)
LEMMA PartsAppend ==
  ASSUME NEW a \in Seq(Message), NEW b \in Seq(Seq(Message)),
         NEW c \in Seq(Seq(Message)), NEW d \in Seq(Seq(Message)),
         NEW x \in Seq(Message)
  PROVE  /\ Parts(a, b, c, Append(d, x)) = Parts(a, b, c, d) \o x
         /\ Parts(a, b, c, d) \in Seq(Message)
<1>1. FlattenSeq(b) \in Seq(Message) /\ FlattenSeq(c) \in Seq(Message) /\ FlattenSeq(d) \in Seq(Message)
  BY FlattenType
<1> DEFINE e == a \o FlattenSeq(b) \o FlattenSeq(c)
<1>2. e \in Seq(Message)
  <2>1. a \o FlattenSeq(b) \in Seq(Message)
    BY <1>1, ConcatProperties
  <2> QED BY <1>1, <2>1, ConcatProperties
<1>3. e \o FlattenSeq(d) \in Seq(Message)
  BY <1>1, <1>2, ConcatProperties
<1>4. Parts(a, b, c, d) = e \o FlattenSeq(d)
  BY DEF Parts
<1>5. Parts(a, b, c, Append(d, x)) = e \o (FlattenSeq(d) \o x)
  BY FlattenAppend DEF Parts
<1> HIDE DEF e
<1>6. (e \o FlattenSeq(d)) \o x = e \o (FlattenSeq(d) \o x)
  BY <1>1, <1>2, ConcatAssociative, SMTT(30)
<1> QED BY <1>3, <1>4, <1>5, <1>6

(* The trail before and after a step, by its parts.                          *)
LEMMA TrailIs ==
  /\ Trail = Parts(file, work, drained, queue)
  /\ Trail' = Parts(file', work', drained', queue')
  /\ TypeInv => /\ file \in Seq(Message) /\ work \in Seq(Seq(Message))
                /\ drained \in Seq(Seq(Message)) /\ queue \in Seq(Seq(Message))
BY DEF Trail, Parts, TypeInv

(* InOrder depends on the trail and the threads' buffers only.               *)
LEMMA OrderKept ==
  ASSUME InOrder, Trail' = Trail, logged' = logged, tls' = tls
  PROVE  InOrder'
BY DEF InOrder, Ordered, Pushed

(* A message joins its thread's buffer with the next number.                 *)
LEMMA LogKeeps ==
  ASSUME LoggerInv, NEW t \in Threads, Log(t)
  PROVE  LoggerInv'
<1> DEFINE n == logged[t] + 1
           x == tls[t]
<1>1. n \in Nat /\ x \in Seq(Message) /\ <<t, n>> \in Message
  BY DEF LoggerInv, TypeInv, Message
<1>2. logged' = [logged EXCEPT ![t] = n] /\ tls' = [tls EXCEPT ![t] = Append(x, <<t, n>>)]
  BY DEF Log, LoggerInv, TypeInv
<1>3. /\ Append(x, <<t, n>>) \in Seq(Message) /\ Len(x) \in Nat
      /\ Len(Append(x, <<t, n>>)) = Len(x) + 1
      /\ \A i \in 1..Len(x) : Append(x, <<t, n>>)[i] = x[i]
      /\ Append(x, <<t, n>>)[Len(x) + 1] = <<t, n>>
  BY <1>1, AppendProperties, LenProperties
<1>4. TypeInv'
  BY <1>1, <1>2, <1>3 DEF LoggerInv, TypeInv, Log
<1>5. Hands'
  BY DEF LoggerInv, Hands, Log
<1>6. Trail' = Trail
  BY DEF Log, Trail
<1>7. \A u \in Threads : Pushed(u)' = Pushed(u)
  BY <1>1, <1>2, <1>3 DEF Pushed, LoggerInv, TypeInv
<1>8. ASSUME NEW u \in Threads PROVE tls'[u] = [i \in 1..Len(tls'[u]) |-> <<u, Pushed(u)' + i>>]
  <2>1. tls[u] = [i \in 1..Len(tls[u]) |-> <<u, Pushed(u) + i>>]
    BY DEF LoggerInv, InOrder
  <2>2. CASE u # t
    BY <1>2, <1>7, <2>1, <2>2 DEF LoggerInv, TypeInv
  <2>3. CASE u = t
    <3>1. tls'[u] = Append(x, <<t, n>>)
      BY <1>2, <2>3 DEF LoggerInv, TypeInv
    <3>2. Pushed(t) + Len(x) + 1 = n
      BY <1>1, <1>3 DEF Pushed, LoggerInv, TypeInv
    <3>3. ASSUME NEW i \in 1..(Len(x) + 1)
          PROVE  Append(x, <<t, n>>)[i] = <<t, Pushed(t) + i>>
      <4>1. CASE i \in 1..Len(x)
        BY <1>3, <2>1, <2>3, <4>1
      <4>2. CASE i = Len(x) + 1
        <5>1. Pushed(t) \in Int
          BY <1>1, <1>3 DEF Pushed, LoggerInv, TypeInv
        <5>2. Pushed(t) + i = n
          BY <1>3, <3>2, <4>2, <5>1
        <5> QED BY <1>3, <4>2, <5>2
      <4> QED BY <1>3, <4>1, <4>2
    <3>4. Append(x, <<t, n>>) = [i \in 1..(Len(x) + 1) |-> Append(x, <<t, n>>)[i]]
      BY <1>3
    <3>5. Append(x, <<t, n>>) = [i \in 1..(Len(x) + 1) |-> <<t, Pushed(t) + i>>]
      BY <3>3, <3>4
    <3> QED BY <1>3, <1>7, <2>3, <3>1, <3>5
  <2> QED BY <2>2, <2>3
<1>9. Ordered(Trail)' /\ ToSet(Trail)' = UNION {{u} \X (1..Pushed(u)') : u \in Threads}
  BY <1>6, <1>7 DEF LoggerInv, InOrder, Ordered, ToSet
<1> QED BY <1>4, <1>5, <1>8, <1>9 DEF LoggerInv, InOrder

(* A buffer joins the queue behind everything that was pushed before.        *)
LEMMA PushKeeps ==
  ASSUME LoggerInv, NEW t \in Threads, Push(t)
  PROVE  LoggerInv'
<1> DEFINE x == tls[t]
           p == Pushed(t)
           L == Len(Trail)
<1>1. /\ x \in Seq(Message) /\ Len(x) \in Nat /\ logged[t] \in Nat /\ Len(x) <= logged[t]
      /\ p \in Nat /\ p + Len(x) = logged[t] /\ \A i \in 1..Len(x) : x[i] = <<t, p + i>>
  <2>1. x = [i \in 1..Len(x) |-> <<t, p + i>>]
    BY DEF LoggerInv, InOrder
  <2>2. x \in Seq(Message) /\ Len(x) \in Nat /\ logged[t] \in Nat /\ Len(x) <= logged[t]
    BY LenProperties DEF LoggerInv, TypeInv
  <2>3. p = logged[t] - Len(x)
    BY DEF Pushed
  <2> QED BY <2>1, <2>2, <2>3
<1>2. tls' = [tls EXCEPT ![t] = <<>>] /\ logged' = logged
  BY DEF Push
<1>3. Append(queue, x) \in Seq(Seq(Message)) /\ <<>> \in Seq(Message) /\ Len(<<>>) = 0
  BY <1>1, AppendProperties, EmptySeq DEF LoggerInv, TypeInv
<1>4. TypeInv'
  BY <1>1, <1>2, <1>3 DEF LoggerInv, TypeInv, Push
<1>5. Hands'
  BY DEF LoggerInv, Hands, Push
<1>6. Trail' = Trail \o x /\ Trail \in Seq(Message)
  <2>1. Trail' = Parts(file, work, drained, Append(queue, x))
    BY TrailIs DEF Push
  <2>2. /\ file \in Seq(Message) /\ work \in Seq(Seq(Message))
        /\ drained \in Seq(Seq(Message)) /\ queue \in Seq(Seq(Message))
    BY TrailIs DEF LoggerInv
  <2>3. /\ Parts(file, work, drained, Append(queue, x)) = Parts(file, work, drained, queue) \o x
        /\ Parts(file, work, drained, queue) \in Seq(Message)
    <3>1. x \in Seq(Message)
      BY <1>1
    <3> HIDE DEF x
    <3> QED BY <2>2, <3>1, PartsAppend
  <2> QED BY <2>1, <2>3, TrailIs
<1>7. /\ L \in Nat /\ DOMAIN Trail = 1..L /\ DOMAIN Trail' = 1..(L + Len(x))
      /\ \A k \in 1..L : Trail'[k] = Trail[k]
      /\ \A i \in 1..Len(x) : Trail'[L + i] = <<t, p + i>>
  <2>1. Trail \o x \in Seq(Message) /\ Len(Trail \o x) = L + Len(x)
    BY <1>1, <1>6, ConcatProperties
  <2>2. \A i \in 1..(L + Len(x)) : (Trail \o x)[i] = IF i <= L THEN Trail[i] ELSE x[i - L]
    BY <1>1, <1>6, ConcatProperties
  <2>3. L \in Nat /\ DOMAIN Trail = 1..L /\ DOMAIN (Trail \o x) = 1..(L + Len(x))
    BY <1>6, <2>1, LenProperties
  <2> HIDE DEF L
  <2>4. \A k \in 1..L : (Trail \o x)[k] = Trail[k]
    BY <1>1, <2>2, <2>3
  <2>5. ASSUME NEW i \in 1..Len(x) PROVE (Trail \o x)[L + i] = x[i]
    <3>1. L + i \in 1..(L + Len(x)) /\ ~(L + i <= L) /\ (L + i) - L = i
      BY <1>1, <2>3
    <3> QED BY <2>2, <3>1
  <2> QED BY <1>1, <1>6, <2>3, <2>4, <2>5
<1>8. \A u \in Threads : Pushed(u)' = IF u = t THEN p + Len(x) ELSE Pushed(u)
  BY <1>1, <1>2, <1>3 DEF Pushed, LoggerInv, TypeInv
<1>9. ASSUME NEW k \in 1..L
      PROVE  \E u \in Threads : \E i \in 1..Pushed(u) : Trail[k] = <<u, i>>
  <2>1. Trail[k] \in ToSet(Trail)
    BY <1>7 DEF ToSet
  <2>2. Trail[k] \in UNION {{u} \X (1..Pushed(u)) : u \in Threads}
    BY <2>1 DEF LoggerInv, InOrder
  <2> QED BY <2>2
<1> HIDE DEF x, p, L
<1>10. Ordered(Trail)'
  <2> SUFFICES ASSUME NEW k \in 1..(L + Len(x)), NEW l \in 1..(L + Len(x)), k < l,
                      Trail'[k][1] = Trail'[l][1]
               PROVE  Trail'[k][2] < Trail'[l][2]
    BY <1>7 DEF Ordered
  <2>1. CASE l \in 1..L
    <3>1. k \in 1..L
      BY <1>7, <2>1
    <3> QED BY <1>7, <2>1, <3>1 DEF LoggerInv, InOrder, Ordered
  <2>2. CASE l \notin 1..L
    <3>1. l - L \in 1..Len(x) /\ l = L + (l - L)
      BY <1>1, <1>7, <2>2
    <3>2. Trail'[l] = <<t, p + (l - L)>>
      BY <1>7, <3>1
    <3>3. CASE k \in 1..L
      <4>1. PICK u \in Threads : \E i \in 1..Pushed(u) : Trail[k] = <<u, i>>
        BY <1>9, <3>3
      <4>2. PICK i \in 1..Pushed(u) : Trail[k] = <<u, i>>
        BY <4>1
      <4>3. Trail'[k] = <<u, i>> /\ u = t
        BY <1>7, <3>2, <3>3, <4>2
      <4>4. i \in 1..p
        BY <4>3 DEF p
      <4> QED BY <1>1, <1>7, <3>1, <3>2, <4>3, <4>4
    <3>4. CASE k \notin 1..L
      <4>1. k - L \in 1..Len(x) /\ k = L + (k - L)
        BY <1>1, <1>7, <3>4
      <4>2. Trail'[k] = <<t, p + (k - L)>>
        BY <1>7, <4>1
      <4> QED BY <1>1, <1>7, <3>1, <3>2, <4>1, <4>2
    <3> QED BY <3>3, <3>4
  <2> QED BY <2>1, <2>2
<1>11. ToSet(Trail)' = UNION {{u} \X (1..Pushed(u)') : u \in Threads}
  <2>1. ASSUME NEW m \in ToSet(Trail)'
        PROVE  m \in UNION {{u} \X (1..Pushed(u)') : u \in Threads}
    <3>1. PICK k \in 1..(L + Len(x)) : m = Trail'[k]
      BY <1>7 DEF ToSet
    <3>2. CASE k \in 1..L
      <4>1. PICK u \in Threads : \E i \in 1..Pushed(u) : Trail[k] = <<u, i>>
        BY <1>9, <3>2
      <4>2. PICK i \in 1..Pushed(u) : m = <<u, i>>
        BY <1>7, <3>1, <3>2, <4>1
      <4>3. i \in 1..Pushed(u)'
        BY <1>1, <1>8 DEF p
      <4> QED BY <4>2, <4>3
    <3>3. CASE k \notin 1..L
      <4>1. k - L \in 1..Len(x) /\ k = L + (k - L)
        BY <1>1, <1>7, <3>3
      <4>2. m = <<t, p + (k - L)>>
        BY <1>7, <3>1, <4>1
      <4>3. p + (k - L) \in 1..Pushed(t)'
        BY <1>1, <1>7, <1>8, <4>1
      <4> QED BY <4>2, <4>3
    <3> QED BY <3>2, <3>3
  <2>2. ASSUME NEW u \in Threads, NEW i \in 1..Pushed(u)'
        PROVE  <<u, i>> \in ToSet(Trail)'
    <3>1. CASE i \in 1..Pushed(u)
      <4>1. <<u, i>> \in UNION {{v} \X (1..Pushed(v)) : v \in Threads}
        BY <3>1
      <4>2. <<u, i>> \in ToSet(Trail)
        BY <4>1 DEF LoggerInv, InOrder
      <4>3. PICK k \in 1..L : <<u, i>> = Trail[k]
        BY <1>7, <4>2 DEF ToSet
      <4>4. k \in 1..(L + Len(x)) /\ Trail'[k] = <<u, i>>
        BY <1>1, <1>7, <4>3
      <4> QED BY <1>7, <4>4 DEF ToSet
    <3>2. CASE i \notin 1..Pushed(u)
      <4>1. u = t
        BY <1>8, <3>2
      <4>2. i \in 1..(p + Len(x)) /\ i \notin 1..p
        BY <1>8, <3>2, <4>1 DEF p
      <4>3. i - p \in 1..Len(x) /\ p + (i - p) = i
        BY <1>1, <4>2
      <4>4. L + (i - p) \in 1..(L + Len(x)) /\ Trail'[L + (i - p)] = <<t, i>>
        BY <1>1, <1>7, <4>3
      <4> QED BY <1>7, <4>1, <4>4 DEF ToSet
    <3> QED BY <3>1, <3>2
  <2> QED BY <2>1, <2>2
<1>12. ASSUME NEW u \in Threads PROVE tls'[u] = [i \in 1..Len(tls'[u]) |-> <<u, Pushed(u)' + i>>]
  <2>1. CASE u # t
    BY <1>2, <1>8, <2>1 DEF LoggerInv, TypeInv, InOrder
  <2>2. CASE u = t
    <3>1. tls'[u] = <<>>
      BY <1>2, <2>2 DEF LoggerInv, TypeInv
    <3>2. [i \in 1..0 |-> <<u, Pushed(u)' + i>>] = <<>>
      OBVIOUS
    <3> QED BY <1>3, <3>1, <3>2
  <2> QED BY <2>1, <2>2
<1> QED BY <1>4, <1>5, <1>10, <1>11, <1>12 DEF LoggerInv, InOrder

(* The background thread takes the queue when its hands are empty.           *)
LEMMA TakeKeeps ==
  ASSUME LoggerInv, Take
  PROVE  LoggerInv'
<1>1. work = <<>> /\ drained = <<>> /\ work' = queue /\ queue' = <<>>
  BY DEF LoggerInv, Hands, Take
<1>2. UNCHANGED <<logged, tls, file, drained, closer>>
  BY DEF Take, logging
<1>3. TypeInv'
  BY <1>1, <1>2 DEF LoggerInv, TypeInv
<1>4. Hands'
  BY <1>1, <1>2 DEF LoggerInv, Hands, Take
<1>5. Trail' = Trail
  <2>1. /\ file \in Seq(Message) /\ work \in Seq(Seq(Message))
        /\ drained \in Seq(Seq(Message)) /\ queue \in Seq(Seq(Message))
    BY TrailIs DEF LoggerInv
  <2> QED BY <1>1, <1>2, <2>1, TrailIs, PartsMove
<1> QED BY <1>2, <1>3, <1>4, <1>5, OrderKept DEF LoggerInv

(* It writes them before anybody can write what came later.                  *)
LEMMA WriteKeeps ==
  ASSUME LoggerInv, Write
  PROVE  LoggerInv'
<1>1. file' = file \o FlattenSeq(work) /\ work' = <<>>
  BY DEF Write
<1>2. UNCHANGED <<logged, tls, queue, drained, closer>>
  BY DEF Write, logging
<1>3. FlattenSeq(work) \in Seq(Message) /\ <<>> \in Seq(Seq(Message))
  BY FlattenType, EmptySeq DEF LoggerInv, TypeInv
<1>4. file' \in Seq(Message)
  BY <1>1, <1>3, ConcatProperties DEF LoggerInv, TypeInv
<1>5. TypeInv'
  BY <1>1, <1>2, <1>3, <1>4 DEF LoggerInv, TypeInv
<1>6. Hands'
  BY <1>1, <1>2 DEF LoggerInv, Hands, Write
<1>7. Trail' = Trail
  <2>1. /\ file \in Seq(Message) /\ work \in Seq(Seq(Message))
        /\ drained \in Seq(Seq(Message)) /\ queue \in Seq(Seq(Message))
    BY TrailIs DEF LoggerInv
  <2> QED BY <1>1, <1>2, <2>1, TrailIs, PartsWritten
<1> QED BY <1>2, <1>5, <1>6, <1>7, OrderKept DEF LoggerInv

(* The destructor takes the rest once the background thread has ended, ...   *)
LEMMA DrainKeeps ==
  ASSUME LoggerInv, Drain
  PROVE  LoggerInv'
<1>1. work = <<>> /\ drained = <<>> /\ drained' = queue /\ queue' = <<>>
  BY DEF LoggerInv, Hands, Drain
<1>2. UNCHANGED <<logged, tls, file, work, writer>>
  BY DEF Drain, logging
<1>3. TypeInv'
  BY <1>1, <1>2 DEF LoggerInv, TypeInv
<1>4. Hands'
  BY <1>1, <1>2 DEF LoggerInv, Hands, Drain
<1>5. Trail' = Trail
  <2>1. /\ file \in Seq(Message) /\ work \in Seq(Seq(Message))
        /\ drained \in Seq(Seq(Message)) /\ queue \in Seq(Seq(Message))
    BY TrailIs DEF LoggerInv
  <2> QED BY <1>1, <1>2, <2>1, TrailIs, PartsMove
<1> QED BY <1>2, <1>3, <1>4, <1>5, OrderKept DEF LoggerInv

(* ... and writes it behind everything that thread wrote.                    *)
LEMMA CloseKeeps ==
  ASSUME LoggerInv, Close
  PROVE  LoggerInv'
<1>1. file' = file \o FlattenSeq(drained) /\ drained' = <<>> /\ work = <<>>
  BY DEF LoggerInv, Hands, Close
<1>2. UNCHANGED <<logged, tls, queue, work, writer>>
  BY DEF Close, logging
<1>3. FlattenSeq(drained) \in Seq(Message) /\ <<>> \in Seq(Seq(Message))
  BY FlattenType, EmptySeq DEF LoggerInv, TypeInv
<1>4. file' \in Seq(Message)
  BY <1>1, <1>3, ConcatProperties DEF LoggerInv, TypeInv
<1>5. TypeInv'
  BY <1>1, <1>2, <1>3, <1>4 DEF LoggerInv, TypeInv
<1>6. Hands'
  BY <1>1, <1>2 DEF LoggerInv, Hands, Close
<1>7. Trail' = Trail
  <2>1. /\ file \in Seq(Message) /\ work \in Seq(Seq(Message))
        /\ drained \in Seq(Seq(Message)) /\ queue \in Seq(Seq(Message))
    BY TrailIs DEF LoggerInv
  <2> QED BY <1>1, <1>2, <2>1, TrailIs, PartsWritten
<1> QED BY <1>2, <1>5, <1>6, <1>7, OrderKept DEF LoggerInv

(* The other steps move no message: looks at the flag, notifications, waits. *)
LEMMA OtherStepsKeep ==
  ASSUME LoggerInv,
         \/ \E t \in Threads : Notify(t)
         \/ CheckRunning \/ TimesOut \/ Stop \/ NotifyWriter \/ Join
         \/ UNCHANGED vars
  PROVE  LoggerInv'
<1>1. UNCHANGED <<logged, tls, queue, work, drained, file>>
  BY DEF Notify, CheckRunning, TimesOut, Stop, NotifyWriter, Join, vars, logging
<1>2. TypeInv'
  BY <1>1 DEF LoggerInv, TypeInv
<1>3. Hands'
  BY <1>1 DEF LoggerInv, Hands, Notify, CheckRunning, TimesOut, Stop, NotifyWriter, Join, vars, Woken
<1>4. Trail' = Trail
  BY <1>1 DEF Trail
<1> QED BY <1>1, <1>2, <1>3, <1>4, OrderKept DEF LoggerInv

(* Nothing is logged before the first message.                               *)
LEMMA LoggerInit == Init => LoggerInv
<1> SUFFICES ASSUME Init PROVE LoggerInv
  OBVIOUS
<1>0. \A t \in Threads : logged[t] = 0 /\ tls[t] = <<>> /\ Len(tls[t]) = 0
  BY DEF Init
<1>1. TypeInv
  <2>1. <<>> \in Seq(Message) /\ <<>> \in Seq(Seq(Message))
    BY EmptySeq
  <2>2. logged \in [Threads -> Nat] /\ tls \in [Threads -> Seq(Message)]
    BY <2>1 DEF Init
  <2>3. \A t \in Threads : Len(tls[t]) <= logged[t]
    BY <1>0
  <2>4. queue = <<>> /\ work = <<>> /\ drained = <<>> /\ file = <<>>
    BY DEF Init
  <2> QED BY <2>1, <2>2, <2>3, <2>4 DEF TypeInv
<1>2. Hands
  BY DEF Init, Hands
<1>3. Trail = <<>>
  <2>1. Parts(<<>>, <<>>, <<>>, <<>>) = <<>> \o FlattenSeq(<<>>)
    BY EmptySeq, PartsMove
  <2>2. <<>> \o <<>> = <<>>
    BY EmptySeq, ConcatEmptySeq
  <2> QED BY <2>1, <2>2, FlattenNothing DEF Init, Trail, Parts
<1>4. \A t \in Threads : Pushed(t) = 0
  BY <1>0 DEF Pushed
<1>5. DOMAIN <<>> = {}
  OBVIOUS
<1>6. Ordered(Trail) /\ ToSet(Trail) = {}
  BY <1>3, <1>5 DEF Ordered, ToSet
<1>7. UNION {{t} \X (1..Pushed(t)) : t \in Threads} = {}
  BY <1>4
<1>8. ASSUME NEW t \in Threads PROVE tls[t] = [i \in 1..Len(tls[t]) |-> <<t, Pushed(t) + i>>]
  <2>1. tls[t] = <<>> /\ Len(<<>>) = 0
    BY EmptySeq DEF Init
  <2>2. [i \in 1..0 |-> <<t, Pushed(t) + i>>] = <<>>
    OBVIOUS
  <2> QED BY <2>1, <2>2
<1> QED BY <1>1, <1>2, <1>6, <1>7, <1>8 DEF LoggerInv, InOrder

(* Messages of one thread are written once each and in the order they were   *)
(* logged, whatever the threads do and whenever the program ends: of the     *)
(* queue, the background thread's hands and the destructor's, an earlier one *)
(* is always emptied before a later one is written.                          *)
THEOREM MessagesStayInOrder == Spec => []InOrder
<1>1. LoggerInv /\ [Next]_vars => LoggerInv'
  <2> SUFFICES ASSUME LoggerInv, [Next]_vars PROVE LoggerInv'
    OBVIOUS
  <2>1. CASE \E t \in Threads : Log(t)
    BY <2>1, LogKeeps
  <2>2. CASE \E t \in Threads : Push(t)
    BY <2>2, PushKeeps
  <2>3. CASE Take
    BY <2>3, TakeKeeps
  <2>4. CASE Write
    BY <2>4, WriteKeeps
  <2>5. CASE Drain
    BY <2>5, DrainKeeps
  <2>6. CASE Close
    BY <2>6, CloseKeeps
  <2>7. CASE \/ \E t \in Threads : Notify(t)
             \/ CheckRunning \/ TimesOut \/ Stop \/ NotifyWriter \/ Join
             \/ UNCHANGED vars
    BY <2>7, OtherStepsKeep
  <2> QED BY <2>1, <2>2, <2>3, <2>4, <2>5, <2>6, <2>7 DEF Next, LogStep, WriterStep, CloserStep
<1>2. LoggerInv => InOrder
  BY DEF LoggerInv
<1> QED BY LoggerInit, <1>1, <1>2, PTL DEF Spec

-----------------------------------------------------------------------------
(* Sums of integers.                                                         *)

AddedAt(g, f, k) == IF k = 0 THEN 0 ELSE g[k - 1] + f[k - 1]

(* The recursion has a solution up to any number, ...                        *)
LEMMA AddedUpto ==
  ASSUME NEW f, NEW n \in Nat
  PROVE  \E g : g = [k \in 0..n |-> AddedAt(g, f, k)]
<1> DEFINE T == {m \in Nat : \E g : g = [k \in 0..m |-> AddedAt(g, f, k)]}
<1>1. 0 \in T
  <2> DEFINE g == [k \in 0..0 |-> 0]
  <2>1. \A k \in 0..0 : AddedAt(g, f, k) = 0
    BY DEF AddedAt
  <2>2. g = [k \in 0..0 |-> AddedAt(g, f, k)]
    BY <2>1
  <2> QED BY <2>2
<1>2. ASSUME NEW m \in Nat, m \in T PROVE m + 1 \in T
  <2>1. PICK g : g = [k \in 0..m |-> AddedAt(g, f, k)]
    BY <1>2
  <2> DEFINE new == AddedAt(g, f, m + 1)
             e == [k \in 0..(m + 1) |-> IF k = m + 1 THEN new ELSE g[k]]
  <2>2. \A k \in 0..m : e[k] = g[k]
    OBVIOUS
  <2>3. e[m + 1] = new
    OBVIOUS
  <2>4. e = [k \in 0..(m + 1) |-> e[k]]
    OBVIOUS
  <2> HIDE DEF e
  <2>5. ASSUME NEW k \in 0..(m + 1) PROVE e[k] = AddedAt(e, f, k)
    <3>1. k # 0 => k - 1 \in 0..m
      OBVIOUS
    <3>2. AddedAt(e, f, k) = AddedAt(g, f, k)
      BY <2>2, <3>1 DEF AddedAt
    <3>3. CASE k = m + 1
      BY <2>3, <3>2, <3>3
    <3>4. CASE k # m + 1
      <4>1. k \in 0..m
        BY <3>4
      <4>2. g[k] = AddedAt(g, f, k)
        BY <2>1, <4>1
      <4> QED BY <2>2, <3>2, <4>1, <4>2
    <3> QED BY <3>3, <3>4
  <2>6. e = [k \in 0..(m + 1) |-> AddedAt(e, f, k)]
    BY <2>4, <2>5
  <2> QED BY <2>6
<1>3. n \in T
  <2> HIDE DEF T
  <2> QED BY <1>1, <1>2, SetInduction
<1> QED BY <1>3

(* ... only one ...                                                          *)
LEMMA AddedAgree ==
  ASSUME NEW f, NEW n \in Nat,
         NEW g, \A k \in 0..n : g[k] = AddedAt(g, f, k),
         NEW e, \A k \in 0..n : e[k] = AddedAt(e, f, k)
  PROVE  \A k \in 0..n : g[k] = e[k]
<1> DEFINE T == {k \in Nat : k <= n => g[k] = e[k]}
<1>1. 0 \in T
  <2>1. 0 \in 0..n
    OBVIOUS
  <2>2. g[0] = AddedAt(g, f, 0) /\ e[0] = AddedAt(e, f, 0)
    BY <2>1
  <2> QED BY <2>2 DEF AddedAt
<1>2. ASSUME NEW k \in Nat, k \in T PROVE k + 1 \in T
  <2> SUFFICES ASSUME k + 1 <= n PROVE g[k + 1] = e[k + 1]
    OBVIOUS
  <2>1. g[k] = e[k] /\ k + 1 \in 0..n /\ k + 1 # 0 /\ (k + 1) - 1 = k
    BY <1>2
  <2>2. g[k + 1] = AddedAt(g, f, k + 1) /\ e[k + 1] = AddedAt(e, f, k + 1)
    BY <2>1
  <2> QED BY <2>1, <2>2 DEF AddedAt
<1>3. Nat \subseteq T
  <2> HIDE DEF T
  <2> QED BY <1>1, <1>2, SetInduction
<1> QED BY <1>3

(* ... and so a sum is the sum of all terms but the last, and the last.      *)
LEMMA AddedLaws ==
  ASSUME NEW f
  PROVE  Added(f, 0) = 0 /\ \A n \in Nat : Added(f, n + 1) = Added(f, n) + f[n]
<1> DEFINE Upto(n) == CHOOSE g : g = [k \in 0..n |-> AddedAt(g, f, k)]
           sum == [n \in Nat |-> Upto(n)[n]]
           all == CHOOSE g : g = [n \in Nat |-> AddedAt(g, f, n)]
<1>1. \A n \in Nat : Upto(n) = [k \in 0..n |-> AddedAt(Upto(n), f, k)]
  BY AddedUpto
<1> HIDE DEF Upto
<1>2. ASSUME NEW n \in Nat PROVE sum[n] = AddedAt(sum, f, n)
  <2>1. Upto(n)[n] = AddedAt(Upto(n), f, n)
    BY <1>1
  <2>2. CASE n = 0
    BY <2>1, <2>2 DEF AddedAt
  <2>3. CASE n # 0
    <3>1. n - 1 \in Nat /\ n - 1 <= n /\ n - 1 \in 0..(n - 1)
      BY <2>3
    <3>2. \A k \in 0..(n - 1) : Upto(n - 1)[k] = Upto(n)[k]
      <4>1. /\ \A k \in 0..(n - 1) : Upto(n - 1)[k] = AddedAt(Upto(n - 1), f, k)
            /\ \A k \in 0..n : Upto(n)[k] = AddedAt(Upto(n), f, k)
        BY <1>1, <3>1
      <4> DEFINE low == Upto(n - 1)
                 high == Upto(n)
                 m == n - 1
      <4>2. m \in Nat /\ (\A k \in 0..m : low[k] = AddedAt(low, f, k))
            /\ \A k \in 0..m : high[k] = AddedAt(high, f, k)
        BY <3>1, <4>1
      <4> HIDE DEF sum, all, low, high, m
      <4>3. \A k \in 0..m : low[k] = high[k]
        BY ONLY <4>2, AddedAgree
      <4> QED BY <4>3 DEF low, high, m
    <3>3. Upto(n - 1)[n - 1] = Upto(n)[n - 1]
      BY <3>1, <3>2
    <3>4. sum[n - 1] = Upto(n)[n - 1]
      BY <3>1, <3>3
    <3> QED BY <2>1, <2>3, <3>4 DEF AddedAt
  <2> QED BY <2>2, <2>3
<1>3. sum = [n \in Nat |-> sum[n]]
  OBVIOUS
<1> HIDE DEF sum
<1>4. sum = [n \in Nat |-> AddedAt(sum, f, n)]
  BY <1>2, <1>3
<1>5. all = [n \in Nat |-> AddedAt(all, f, n)]
  BY <1>4
<1>6. \A n : Added(f, n) = all[n]
  BY DEF Added, AddedAt
<1> HIDE DEF all
<1>7. \A n \in Nat : all[n] = AddedAt(all, f, n)
  BY <1>5
<1>8. ASSUME NEW n \in Nat PROVE all[n + 1] = all[n] + f[n]
  <2>1. n + 1 \in Nat /\ n + 1 # 0 /\ (n + 1) - 1 = n
    OBVIOUS
  <2> QED BY <1>7, <2>1 DEF AddedAt
<1> QED BY <1>6, <1>7, <1>8 DEF AddedAt

(* A sum of integers is an integer, which depends on its terms only.         *)
LEMMA AddedType ==
  ASSUME NEW n \in Nat, NEW f, \A k \in 0..(n - 1) : f[k] \in Int
  PROVE  Added(f, n) \in Int
<1> DEFINE T == {m \in Nat : m <= n => Added(f, m) \in Int}
<1>1. 0 \in T
  BY AddedLaws
<1>2. ASSUME NEW m \in Nat, m \in T PROVE m + 1 \in T
  <2> SUFFICES ASSUME m + 1 <= n PROVE Added(f, m + 1) \in Int
    OBVIOUS
  <2>1. Added(f, m) \in Int /\ f[m] \in Int
    BY <1>2
  <2> QED BY <2>1, AddedLaws
<1> HIDE DEF T
<1>3. n \in T
  BY <1>1, <1>2, SetInduction
<1> QED BY <1>3 DEF T

(* Sums of the same terms are the same.                                      *)
LEMMA AddedSame ==
  ASSUME NEW n \in Nat, NEW f, NEW g, \A k \in 0..(n - 1) : f[k] = g[k]
  PROVE  Added(f, n) = Added(g, n)
<1> DEFINE T == {m \in Nat : m <= n => Added(f, m) = Added(g, m)}
<1>1. 0 \in T
  BY AddedLaws
<1>2. ASSUME NEW m \in Nat, m \in T PROVE m + 1 \in T
  <2> SUFFICES ASSUME m + 1 <= n PROVE Added(f, m + 1) = Added(g, m + 1)
    OBVIOUS
  <2>1. Added(f, m) = Added(g, m) /\ f[m] = g[m]
    BY <1>2
  <2>2. Added(f, m + 1) = Added(f, m) + f[m] /\ Added(g, m + 1) = Added(g, m) + g[m]
    BY AddedLaws
  <2> QED BY <2>1, <2>2
<1> HIDE DEF T
<1>3. n \in T
  BY <1>1, <1>2, SetInduction
<1> QED BY <1>3 DEF T

(* It may be taken from the other end, ...                                   *)
LEMMA AddedBackwards ==
  ASSUME NEW n \in Nat, NEW f, \A k \in 0..(n - 1) : f[k] \in Int,
         NEW g, \A k \in 0..(n - 1) : g[k] = f[n - 1 - k]
  PROVE  Added(g, n) = Added(f, n)
<1> DEFINE T == {m \in Nat : m <= n => Added(g, m) + Added(f, n - m) = Added(f, n)}
<1>1. 0 \in T
  <2>1. Added(f, n) \in Int /\ n - 0 = n
    BY AddedType
  <2> QED BY <2>1, AddedLaws
<1>2. ASSUME NEW m \in Nat, m \in T PROVE m + 1 \in T
  <2> SUFFICES ASSUME m + 1 <= n PROVE Added(g, m + 1) + Added(f, n - (m + 1)) = Added(f, n)
    OBVIOUS
  <2> DEFINE r == n - (m + 1)
  <2>1. r \in Nat /\ r \in 0..(n - 1) /\ r + 1 = n - m /\ r = n - 1 - m /\ m \in 0..(n - 1)
    OBVIOUS
  <2> HIDE DEF r
  <2>2. Added(g, m + 1) = Added(g, m) + g[m] /\ Added(f, r + 1) = Added(f, r) + f[r]
    BY <2>1, AddedLaws
  <2>3. Added(g, m) + Added(f, n - m) = Added(f, n) /\ g[m] = f[r] /\ f[r] \in Int
    BY <1>2, <2>1
  <2>4. Added(f, r) \in Int
    BY <2>1, AddedType
  <2>5. \A k \in 0..(m - 1) : g[k] \in Int
    <3> SUFFICES ASSUME NEW k \in 0..(m - 1) PROVE g[k] \in Int
      OBVIOUS
    <3>1. k \in 0..(n - 1) /\ n - 1 - k \in 0..(n - 1)
      OBVIOUS
    <3> QED BY <3>1
  <2>6. Added(g, m) \in Int
    BY <2>5, AddedType
  <2>7. Added(g, m + 1) + Added(f, r) = Added(g, m) + Added(f, r + 1)
    BY <2>2, <2>3, <2>4, <2>6
  <2> QED BY <2>1, <2>3, <2>7 DEF r
<1> HIDE DEF T
<1>3. n \in T
  BY <1>1, <1>2, SetInduction
<1>4. Added(g, n) + Added(f, 0) = Added(f, n)
  BY <1>3 DEF T
<1>5. \A k \in 0..(n - 1) : g[k] \in Int
  <2> SUFFICES ASSUME NEW k \in 0..(n - 1) PROVE g[k] \in Int
    OBVIOUS
  <2>1. n - 1 - k \in 0..(n - 1)
    OBVIOUS
  <2> QED BY <2>1
<1>6. Added(g, n) \in Int
  BY <1>5, AddedType
<1> QED BY <1>4, <1>6, AddedLaws

(* ... is its only term that is not zero, ...                                *)
LEMMA AddedOne ==
  ASSUME NEW n \in Nat, NEW j \in 0..(n - 1), NEW f, f[j] \in Int,
         \A k \in 0..(n - 1) : k # j => f[k] = 0
  PROVE  Added(f, n) = f[j]
<1> DEFINE T == {m \in Nat : m <= n => Added(f, m) = IF m > j THEN f[j] ELSE 0}
<1>1. 0 \in T
  BY AddedLaws
<1>2. ASSUME NEW m \in Nat, m \in T PROVE m + 1 \in T
  <2> SUFFICES ASSUME m + 1 <= n PROVE Added(f, m + 1) = IF m + 1 > j THEN f[j] ELSE 0
    OBVIOUS
  <2>1. Added(f, m) = IF m > j THEN f[j] ELSE 0
    BY <1>2
  <2>2. m # j => f[m] = 0
    OBVIOUS
  <2>3. Added(f, m + 1) = Added(f, m) + f[m]
    BY AddedLaws
  <2> QED BY <2>1, <2>2, <2>3
<1> HIDE DEF T
<1>3. n \in T
  BY <1>1, <1>2, SetInduction
<1> QED BY <1>3 DEF T

(* ... and at least each of its terms if none is negative.                   *)
LEMMA AddedReaches ==
  ASSUME NEW n \in Nat, NEW f, \A k \in 0..(n - 1) : f[k] \in Nat
  PROVE  Added(f, n) \in Nat /\ \A j \in 0..(n - 1) : f[j] <= Added(f, n)
<1> DEFINE T == {m \in Nat : m <= n => Added(f, m) \in Nat /\ \A j \in 0..(m - 1) : f[j] <= Added(f, m)}
<1>1. 0 \in T
  BY AddedLaws
<1>2. ASSUME NEW m \in Nat, m \in T PROVE m + 1 \in T
  <2> SUFFICES ASSUME m + 1 <= n
               PROVE  /\ Added(f, m + 1) \in Nat
                      /\ \A j \in 0..m : f[j] <= Added(f, m + 1)
    OBVIOUS
  <2>1. Added(f, m) \in Nat /\ (\A j \in 0..(m - 1) : f[j] <= Added(f, m)) /\ f[m] \in Nat
    BY <1>2
  <2>2. Added(f, m + 1) = Added(f, m) + f[m]
    BY AddedLaws
  <2>3. ASSUME NEW j \in 0..m PROVE f[j] <= Added(f, m + 1)
    <3>1. CASE j = m
      BY <2>1, <2>2, <3>1
    <3>2. CASE j # m
      <4>1. j \in 0..(m - 1) /\ j \in 0..(n - 1)
        BY <3>2
      <4>2. f[j] <= Added(f, m) /\ f[j] \in Nat
        BY <2>1, <4>1
      <4> QED BY <2>1, <2>2, <4>2
    <3> QED BY <3>1, <3>2
  <2> QED BY <2>1, <2>2, <2>3
<1> HIDE DEF T
<1>3. n \in T
  BY <1>1, <1>2, SetInduction
<1> QED BY <1>3 DEF T

-----------------------------------------------------------------------------
(* Grids of some shape.                                                      *)

Polar == [mag : Int, phase : {0, 1}]

\* A grid of values in V: what all fields are once a call has started.
IsGrid(g) ==
  g = [form |-> g.form, times |-> g.times, freqs |-> g.freqs, cells |-> g.cells,
       tstep |-> g.tstep, fstep |-> g.fstep]

Shaped(g, V) ==
  /\ IsGrid(g)
  /\ g.times \in Nat \ {0} /\ g.freqs \in Nat \ {0}
  /\ g.cells \in [0..(g.times * g.freqs - 1) -> V]

SameFrame(g, h) == h.freqs = g.freqs /\ h.tstep = g.tstep /\ h.fstep = g.fstep

(* Cells are counted row by row.                                             *)
LEMMA CellIndex ==
  ASSUME NEW T \in Nat \ {0}, NEW F \in Nat \ {0}, NEW t \in 0..(T - 1), NEW f \in 0..(F - 1)
  PROVE  t * F + f \in 0..(T * F - 1) /\ (t * F + f) \div F = t /\ (t * F + f) % F = f
<1>1. t * F + F <= T * F
  <2>1. (t + 1) * F <= T * F /\ (t + 1) * F = t * F + F
    OBVIOUS
  <2> QED BY <2>1
<1>2. t * F \in Nat /\ T * F \in Nat
  OBVIOUS
<1>3. t * F + f \in 0..(T * F - 1)
  BY <1>1, <1>2
<1> QED BY <1>3, DivisionOf

(* Every place in the buffer is a cell's.                                    *)
LEMMA IndexCell ==
  ASSUME NEW T \in Nat \ {0}, NEW F \in Nat \ {0}, NEW i \in 0..(T * F - 1)
  PROVE  i \div F \in 0..(T - 1) /\ i % F \in 0..(F - 1) /\ i = (i \div F) * F + (i % F)
<1>1. T * F \in Nat /\ i \in Nat /\ i < T * F
  OBVIOUS
<1>2. i \div F \in Nat /\ i % F \in 0..(F - 1) /\ i = F * (i \div F) + (i % F)
  BY <1>1, Division
<1>3. i \div F < T
  BY <1>1, DivisionBelow
<1> QED BY <1>2, <1>3

Cells(g) == (0..(g.times - 1)) \X (0..(g.freqs - 1))
CellAt(g, p) == At(g, p[1], p[2])

(* The cells of a grid are values, ...                                       *)
LEMMA AtType ==
  ASSUME NEW V, NEW g, Shaped(g, V), NEW t \in 0..(g.times - 1), NEW f \in 0..(g.freqs - 1)
  PROVE  At(g, t, f) \in V
<1>1. t * g.freqs + f \in 0..(g.times * g.freqs - 1)
  BY CellIndex DEF Shaped
<1> QED BY <1>1 DEF Shaped, At

(* ... and make the grid.                                                    *)
LEMMA SameCells ==
  ASSUME NEW V, NEW W, NEW g, NEW h, Shaped(g, V), Shaped(h, W), g.form = h.form,
         g.times = h.times, SameFrame(g, h), \A p \in Cells(g) : CellAt(g, p) = CellAt(h, p)
  PROVE  g = h
<1>1. ASSUME NEW i \in 0..(g.times * g.freqs - 1) PROVE g.cells[i] = h.cells[i]
  <2> DEFINE T == g.times
             F == g.freqs
             t == i \div F
             f == i % F
  <2>1. T \in Nat \ {0} /\ F \in Nat \ {0} /\ i \in 0..(T * F - 1)
    BY DEF Shaped
  <2> HIDE DEF T, F
  <2>2. t \in 0..(T - 1) /\ f \in 0..(F - 1) /\ i = t * F + f
    BY <2>1, IndexCell
  <2> HIDE DEF t, f
  <2>3. <<t, f>> \in Cells(g)
    BY <2>2 DEF Cells, T, F
  <2>4. At(g, t, f) = At(h, t, f)
    BY <2>3 DEF CellAt
  <2> QED BY <2>2, <2>4 DEF At, SameFrame, F
<1>2. /\ g.cells = [i \in 0..(g.times * g.freqs - 1) |-> g.cells[i]]
      /\ h.cells = [i \in 0..(g.times * g.freqs - 1) |-> h.cells[i]]
  BY DEF Shaped, SameFrame
<1>3. g.cells = h.cells
  BY <1>1, <1>2
<1> QED BY <1>3 DEF Shaped, SameFrame, IsGrid

\* The cells of h are filled with the values c.
FilledWith(h, c) ==
  /\ IsGrid(h) /\ h.times \in Nat \ {0} /\ h.freqs \in Nat \ {0}
  /\ h.cells = [i \in 0..(h.times * h.freqs - 1) |-> c[<<i \div h.freqs, i % h.freqs>>]]

(* A grid filled with values is a grid of values, ...                        *)
LEMMA FilledType ==
  ASSUME NEW V, NEW h, NEW c, FilledWith(h, c), \A p \in Cells(h) : c[p] \in V
  PROVE  Shaped(h, V)
<1> DEFINE T == h.times
           F == h.freqs
<1>1. /\ T \in Nat \ {0} /\ F \in Nat \ {0}
      /\ h.cells = [i \in 0..(T * F - 1) |-> c[<<i \div F, i % F>>]]
  BY DEF FilledWith
<1> HIDE DEF T, F
<1>2. ASSUME NEW i \in 0..(T * F - 1) PROVE c[<<i \div F, i % F>>] \in V
  <2>1. i \div F \in 0..(T - 1) /\ i % F \in 0..(F - 1)
    BY <1>1, IndexCell
  <2>2. <<i \div F, i % F>> \in Cells(h)
    BY <2>1 DEF Cells, T, F
  <2> QED BY <2>2
<1>3. h.cells \in [0..(T * F - 1) -> V]
  BY <1>1, <1>2
<1> QED BY <1>3 DEF Shaped, FilledWith, T, F

(* ... and each is in its cell.                                              *)
LEMMA FilledValues ==
  ASSUME NEW h, NEW c, FilledWith(h, c), NEW p \in Cells(h)
  PROVE  CellAt(h, p) = c[p]
<1> DEFINE T == h.times
           F == h.freqs
<1>1. /\ T \in Nat \ {0} /\ F \in Nat \ {0}
      /\ h.cells = [i \in 0..(T * F - 1) |-> c[<<i \div F, i % F>>]]
  BY DEF FilledWith
<1> HIDE DEF T, F
<1>2. PICK t \in 0..(T - 1), f \in 0..(F - 1) : p = <<t, f>>
  BY DEF Cells, T, F
<1> DEFINE i == t * F + f
<1>3. i \in 0..(T * F - 1) /\ i \div F = t /\ i % F = f
  <2>1. T \in Nat \ {0} /\ F \in Nat \ {0} /\ t \in 0..(T - 1) /\ f \in 0..(F - 1)
    BY <1>1
  <2> QED BY ONLY <2>1, CellIndex
<1>4. CellAt(h, p) = h.cells[i]
  BY <1>2 DEF At, CellAt, F
<1> HIDE DEF i
<1>5. h.cells[i] = c[<<i \div F, i % F>>]
  BY <1>1, <1>3
<1> QED BY <1>2, <1>3, <1>4, <1>5

\* The same, where the loop computes the value d[i] of cell i.
FilledFrom(h, c, d) ==
  /\ IsGrid(h) /\ h.times \in Nat \ {0} /\ h.freqs \in Nat \ {0}
  /\ h.cells = [i \in 0..(h.times * h.freqs - 1) |-> d[i]]
  /\ \A i \in 0..(h.times * h.freqs - 1) :
       <<i \div h.freqs, i % h.freqs>> \in Cells(h) => d[i] = c[<<i \div h.freqs, i % h.freqs>>]

(* So is one filled by a loop over the buffer.                               *)
LEMMA FilledFromCells ==
  ASSUME NEW h, NEW c, NEW d, FilledFrom(h, c, d)
  PROVE  FilledWith(h, c)
<1>1. ASSUME NEW i \in 0..(h.times * h.freqs - 1)
      PROVE  d[i] = c[<<i \div h.freqs, i % h.freqs>>]
  <2> DEFINE T == h.times
             F == h.freqs
  <2>1. T \in Nat \ {0} /\ F \in Nat \ {0} /\ i \in 0..(T * F - 1)
    BY DEF FilledFrom
  <2> HIDE DEF T, F
  <2>2. i \div F \in 0..(T - 1) /\ i % F \in 0..(F - 1)
    BY <2>1, IndexCell
  <2>3. <<i \div F, i % F>> \in Cells(h)
    BY <2>2 DEF Cells, T, F
  <2> QED BY <2>3 DEF F, FilledFrom
<1> QED BY <1>1 DEF FilledWith, FilledFrom

-----------------------------------------------------------------------------
(* What each step puts into a cell.                                          *)

(* Between two integers there are integers.                                  *)
LEMMA LerpType ==
  ASSUME NEW a \in Int, NEW b \in Int, NEW k \in Int, NEW n \in Nat \ {0}
  PROVE  Lerp(a, b, k, n) \in Int
<1> DEFINE m == (b - a) * k
<1>1. m \in Int
  OBVIOUS
<1> HIDE DEF m
<1>2. m \div n \in Int
  BY <1>1
<1> QED BY <1>2 DEF Lerp, m

\* What a refined grid has in cell (t, f).
UpCell(g, ut, uf, t, f) ==
  LET Neighbour(x, n) == Smaller(x + 1, n - 1)
      t0 == t \div ut  f0 == f \div uf
      t1 == Neighbour(t0, g.times)  f1 == Neighbour(f0, g.freqs)
  IN  Lerp(Lerp(At(g, t0, f0), At(g, t1, f0), t % ut, ut),
           Lerp(At(g, t0, f1), At(g, t1, f1), t % ut, ut), f % uf, uf)

(* A refined cell is an integer, ...                                         *)
LEMMA UpCellType ==
  ASSUME NEW g, Shaped(g, Int), NEW ut \in Nat \ {0}, NEW uf \in Nat \ {0},
         NEW t \in 0..(g.times * ut - 1), NEW f \in 0..(g.freqs * uf - 1)
  PROVE  UpCell(g, ut, uf, t, f) \in Int
<1> DEFINE T == g.times
           F == g.freqs
           t0 == t \div ut
           f0 == f \div uf
           t1 == Smaller(t0 + 1, T - 1)
           f1 == Smaller(f0 + 1, F - 1)
<1>1. T \in Nat \ {0} /\ F \in Nat \ {0} /\ t \in 0..(T * ut - 1) /\ f \in 0..(F * uf - 1)
  BY DEF Shaped
<1> HIDE DEF T, F
<1>2. t0 \in 0..(T - 1) /\ f0 \in 0..(F - 1) /\ t % ut \in Int /\ f % uf \in Int
  <2>1. t0 \in 0..(T - 1) /\ t % ut \in 0..(ut - 1)
    BY <1>1, IndexCell
  <2>2. f0 \in 0..(F - 1) /\ f % uf \in 0..(uf - 1)
    BY <1>1, IndexCell
  <2> QED BY <2>1, <2>2
<1> HIDE DEF t0, f0
<1>3. t1 \in 0..(T - 1) /\ f1 \in 0..(F - 1)
  BY <1>1, <1>2 DEF Smaller
<1> HIDE DEF t1, f1
<1>4. /\ At(g, t0, f0) \in Int /\ At(g, t1, f0) \in Int
      /\ At(g, t0, f1) \in Int /\ At(g, t1, f1) \in Int
  BY <1>2, <1>3, AtType DEF T, F
<1> DEFINE low == Lerp(At(g, t0, f0), At(g, t1, f0), t % ut, ut)
           high == Lerp(At(g, t0, f1), At(g, t1, f1), t % ut, ut)
<1>5. low \in Int /\ high \in Int
  BY <1>2, <1>4, LerpType
<1> HIDE DEF low, high
<1>6. Lerp(low, high, f % uf, uf) \in Int
  BY <1>2, <1>5, LerpType
<1> QED BY <1>6 DEF UpCell, low, high, t0, f0, t1, f1, T, F

(* ... and is where upsample_complex puts it (ft_tools.hpp 144-181).         *)
LEMMA UpsampledCells ==
  ASSUME NEW g, Shaped(g, Int), NEW ut \in Nat \ {0}, NEW uf \in Nat \ {0},
         NEW h, h = UpsampledComplex(g, ut, uf)
  PROVE  /\ Shaped(h, Int) /\ h.form = g.form
         /\ h.times = g.times * ut /\ h.freqs = g.freqs * uf
         /\ h.tstep = g.tstep \div ut /\ h.fstep = g.fstep \div uf
         /\ \A p \in Cells(h) : CellAt(h, p) = UpCell(g, ut, uf, p[1], p[2])
<1> DEFINE c == [p \in Cells(h) |-> UpCell(g, ut, uf, p[1], p[2])]
<1>1. h = [form |-> g.form, times |-> g.times * ut, freqs |-> g.freqs * uf,
           cells |-> [i \in 0..((g.times * ut) * (g.freqs * uf) - 1) |->
                        UpCell(g, ut, uf, i \div (g.freqs * uf), i % (g.freqs * uf))],
           tstep |-> g.tstep \div ut, fstep |-> g.fstep \div uf]
  BY DEF UpsampledComplex, Filled, UpCell, Shaped, IsGrid
<1>2. /\ h.form = g.form /\ h.times = g.times * ut /\ h.freqs = g.freqs * uf
      /\ h.tstep = g.tstep \div ut /\ h.fstep = g.fstep \div uf /\ IsGrid(h)
      /\ h.times \in Nat \ {0} /\ h.freqs \in Nat \ {0}
      /\ h.cells = [i \in 0..(h.times * h.freqs - 1) |-> UpCell(g, ut, uf, i \div h.freqs, i % h.freqs)]
  <2>1. /\ h.form = g.form /\ h.times = g.times * ut /\ h.freqs = g.freqs * uf
        /\ h.tstep = g.tstep \div ut /\ h.fstep = g.fstep \div uf
        /\ h.cells = [i \in 0..((g.times * ut) * (g.freqs * uf) - 1) |->
                        UpCell(g, ut, uf, i \div (g.freqs * uf), i % (g.freqs * uf))]
    BY <1>1
  <2>2. IsGrid(h)
    BY <1>1 DEF IsGrid
  <2>3. g.times * ut \in Nat \ {0} /\ g.freqs * uf \in Nat \ {0}
    BY DEF Shaped
  <2> QED BY <2>1, <2>2, <2>3
<1>3. ASSUME NEW p \in Cells(h) PROVE UpCell(g, ut, uf, p[1], p[2]) \in Int
  <2>1. p[1] \in 0..(g.times * ut - 1) /\ p[2] \in 0..(g.freqs * uf - 1)
    BY <1>2 DEF Cells
  <2> QED BY <2>1, UpCellType
<1>4. \A p \in Cells(h) : c[p] = UpCell(g, ut, uf, p[1], p[2]) /\ c[p] \in Int
  BY <1>3
<1> HIDE DEF c
<1>5. FilledWith(h, c)
  <2>1. ASSUME NEW i \in 0..(h.times * h.freqs - 1)
        PROVE  c[<<i \div h.freqs, i % h.freqs>>] = UpCell(g, ut, uf, i \div h.freqs, i % h.freqs)
    <3> DEFINE T == h.times
               F == h.freqs
    <3>1. T \in Nat \ {0} /\ F \in Nat \ {0} /\ i \in 0..(T * F - 1)
      BY <1>2
    <3> HIDE DEF T, F
    <3>2. i \div F \in 0..(T - 1) /\ i % F \in 0..(F - 1)
      BY <3>1, IndexCell
    <3>3. <<i \div F, i % F>> \in Cells(h)
      BY <3>2 DEF Cells, T, F
    <3> QED BY <1>4, <3>3 DEF F
  <2> QED BY <1>2, <2>1 DEF FilledWith
<1>6. Shaped(h, Int) /\ \A p \in Cells(h) : CellAt(h, p) = c[p]
  BY <1>4, <1>5, FilledType, FilledValues
<1> QED BY <1>2, <1>4, <1>6

-----------------------------------------------------------------------------
(* Totals and means of blocks.                                               *)

RowTotal(g, t, cols) ==
  Added([f \in 0..(g.freqs - 1) |-> IF f \in cols THEN At(g, t, f) ELSE 0], g.freqs)

(* A total is the sum of the totals of its rows.                             *)
LEMMA TotalByRows ==
  ASSUME NEW g, NEW rows, NEW cols
  PROVE  Total(g, rows, cols) =
           Added([t \in 0..(g.times - 1) |-> IF t \in rows THEN RowTotal(g, t, cols) ELSE 0], g.times)
BY DEF Total, RowTotal

(* They are integers, ...                                                    *)
LEMMA RowTotalType ==
  ASSUME NEW g, Shaped(g, Int), NEW t \in 0..(g.times - 1), NEW cols
  PROVE  RowTotal(g, t, cols) \in Int
<1> DEFINE r == [f \in 0..(g.freqs - 1) |-> IF f \in cols THEN At(g, t, f) ELSE 0]
<1>1. \A f \in 0..(g.freqs - 1) : At(g, t, f) \in Int
  BY AtType
<1>2. \A f \in 0..(g.freqs - 1) : r[f] \in Int
  BY <1>1
<1>3. g.freqs \in Nat
  BY DEF Shaped
<1> HIDE DEF r
<1>4. Added(r, g.freqs) \in Int
  BY <1>2, <1>3, AddedType
<1> QED BY <1>4 DEF RowTotal, r

(* A total of integers is an integer.                                        *)
LEMMA TotalType ==
  ASSUME NEW g, Shaped(g, Int), NEW rows, NEW cols
  PROVE  Total(g, rows, cols) \in Int
<1> DEFINE s == [t \in 0..(g.times - 1) |-> IF t \in rows THEN RowTotal(g, t, cols) ELSE 0]
<1>1. \A t \in 0..(g.times - 1) : s[t] \in Int
  BY RowTotalType
<1>2. g.times \in Nat
  BY DEF Shaped
<1> HIDE DEF s
<1>3. Added(s, g.times) \in Int
  BY <1>1, <1>2, AddedType
<1> QED BY <1>3, TotalByRows DEF s

(* ... and at least each of their cells if none is negative.                 *)
LEMMA RowTotalReaches ==
  ASSUME NEW g, Shaped(g, Nat), NEW t \in 0..(g.times - 1), NEW cols
  PROVE  /\ RowTotal(g, t, cols) \in Nat
         /\ \A f \in 0..(g.freqs - 1) : f \in cols => At(g, t, f) <= RowTotal(g, t, cols)
<1> DEFINE r == [f \in 0..(g.freqs - 1) |-> IF f \in cols THEN At(g, t, f) ELSE 0]
<1>1. \A f \in 0..(g.freqs - 1) : At(g, t, f) \in Nat
  BY AtType
<1>2. \A f \in 0..(g.freqs - 1) : r[f] \in Nat /\ (f \in cols => r[f] = At(g, t, f))
  BY <1>1
<1>3. g.freqs \in Nat
  BY DEF Shaped
<1> HIDE DEF r
<1>4. Added(r, g.freqs) \in Nat /\ \A f \in 0..(g.freqs - 1) : r[f] <= Added(r, g.freqs)
  BY <1>2, <1>3, AddedReaches
<1>5. RowTotal(g, t, cols) = Added(r, g.freqs)
  BY DEF RowTotal, r
<1> QED BY <1>2, <1>4, <1>5

(* A total of naturals is at least each of its cells.                        *)
LEMMA TotalReaches ==
  ASSUME NEW g, Shaped(g, Nat), NEW rows, NEW cols
  PROVE  /\ Total(g, rows, cols) \in Nat
         /\ \A t \in 0..(g.times - 1) : \A f \in 0..(g.freqs - 1) :
              t \in rows /\ f \in cols => At(g, t, f) <= Total(g, rows, cols)
<1> DEFINE s == [t \in 0..(g.times - 1) |-> IF t \in rows THEN RowTotal(g, t, cols) ELSE 0]
<1>1. \A t \in 0..(g.times - 1) : s[t] \in Nat /\ (t \in rows => s[t] = RowTotal(g, t, cols))
  BY RowTotalReaches
<1>2. g.times \in Nat
  BY DEF Shaped
<1> HIDE DEF s
<1>3. Added(s, g.times) \in Nat /\ \A t \in 0..(g.times - 1) : s[t] <= Added(s, g.times)
  BY <1>1, <1>2, AddedReaches
<1>4. Total(g, rows, cols) = Added(s, g.times)
  BY TotalByRows DEF s
<1>5. ASSUME NEW t \in 0..(g.times - 1), NEW f \in 0..(g.freqs - 1), t \in rows, f \in cols
      PROVE  At(g, t, f) <= Total(g, rows, cols)
  <2>1. At(g, t, f) <= RowTotal(g, t, cols) /\ RowTotal(g, t, cols) \in Nat
    BY <1>5, RowTotalReaches
  <2>2. RowTotal(g, t, cols) <= Total(g, rows, cols)
    BY <1>1, <1>3, <1>4, <1>5
  <2>3. At(g, t, f) \in Nat
    BY AtType
  <2> QED BY <1>3, <1>4, <2>1, <2>2, <2>3
<1> QED BY <1>3, <1>4, <1>5

\* What a mean divides by is the total of this grid.
Ones(g) == [g EXCEPT !.cells = [i \in DOMAIN @ |-> 1]]

(* All cells of that grid are one.                                           *)
LEMMA OnesCells ==
  ASSUME NEW V, NEW g, Shaped(g, V)
  PROVE  /\ Shaped(Ones(g), Nat) /\ Ones(g).times = g.times /\ Ones(g).freqs = g.freqs
         /\ \A t \in 0..(g.times - 1) : \A f \in 0..(g.freqs - 1) : At(Ones(g), t, f) = 1
<1> DEFINE h == Ones(g)
<1>1. h = [form |-> g.form, times |-> g.times, freqs |-> g.freqs,
           cells |-> [i \in 0..(g.times * g.freqs - 1) |-> 1], tstep |-> g.tstep, fstep |-> g.fstep]
  <2>1. DOMAIN g.cells = 0..(g.times * g.freqs - 1)
    BY DEF Shaped
  <2>2. [i \in DOMAIN g.cells |-> 1] = [i \in 0..(g.times * g.freqs - 1) |-> 1]
    BY <2>1
  <2>3. IsGrid(g)
    BY DEF Shaped
  <2>4. h = [form |-> g.form, times |-> g.times, freqs |-> g.freqs,
             cells |-> [i \in DOMAIN g.cells |-> 1], tstep |-> g.tstep, fstep |-> g.fstep]
    BY <2>3 DEF Ones, IsGrid
  <2> QED BY <2>2, <2>4
<1>2. /\ h.times = g.times /\ h.freqs = g.freqs
      /\ h.cells = [i \in 0..(g.times * g.freqs - 1) |-> 1]
  BY <1>1
<1> HIDE DEF h
<1>a. IsGrid(h)
  BY <1>1 DEF IsGrid
<1>3. Shaped(h, Nat)
  BY <1>2, <1>a DEF Shaped
<1>4. ASSUME NEW t \in 0..(g.times - 1), NEW f \in 0..(g.freqs - 1) PROVE At(h, t, f) = 1
  <2>1. t * g.freqs + f \in 0..(g.times * g.freqs - 1)
    BY CellIndex DEF Shaped
  <2> QED BY <1>2, <2>1 DEF At
<1> QED BY <1>2, <1>3, <1>4 DEF h

(* A mean is a total divided by a total of ones.                             *)
LEMMA MeanByOnes ==
  ASSUME NEW g, NEW rows, NEW cols
  PROVE  Mean(g, rows, cols) = Total(g, rows, cols) \div Total(Ones(g), rows, cols)
BY DEF Mean, Ones

(* The mean of a block that is not empty.                                    *)
LEMMA MeanType ==
  ASSUME NEW g, Shaped(g, Int), NEW rows, NEW cols,
         NEW t \in 0..(g.times - 1), t \in rows, NEW f \in 0..(g.freqs - 1), f \in cols
  PROVE  /\ Mean(g, rows, cols) \in Int
         /\ Shaped(g, Nat) => Mean(g, rows, cols) \in Nat
<1> DEFINE n == Total(Ones(g), rows, cols)
           s == Total(g, rows, cols)
<1>1. n \in Nat /\ n >= 1
  <2>1. /\ Shaped(Ones(g), Nat) /\ t \in 0..(Ones(g).times - 1) /\ f \in 0..(Ones(g).freqs - 1)
        /\ At(Ones(g), t, f) = 1
    BY OnesCells
  <2> QED BY <2>1, TotalReaches
<1>2. s \in Int /\ (Shaped(g, Nat) => s \in Nat)
  BY TotalType, TotalReaches
<1> HIDE DEF n, s
<1>3. s \div n \in Int /\ (s \in Nat => s \div n \in Nat)
  <2>1. s \div n \in Int
    BY <1>1, <1>2
  <2>2. ASSUME s \in Nat PROVE s \div n \in Nat
    <3>1. n \in Nat \ {0}
      BY <1>1
    <3> QED BY ONLY <2>2, <3>1, Division
  <2> QED BY <2>1, <2>2
<1> QED BY <1>2, <1>3, MeanByOnes DEF n, s

-----------------------------------------------------------------------------
(* Steps that go from cell to cell.                                          *)

Place(g, p) == p[1] * g.freqs + p[2]

(* A cell is a place of the buffer.                                          *)
LEMMA PlaceOf ==
  ASSUME NEW V, NEW g, Shaped(g, V), NEW p \in Cells(g)
  PROVE  /\ Place(g, p) \in 0..(g.times * g.freqs - 1)
         /\ CellAt(g, p) = g.cells[Place(g, p)] /\ CellAt(g, p) \in V
<1> DEFINE T == g.times
           F == g.freqs
           t == p[1]
           f == p[2]
<1>1. T \in Nat \ {0} /\ F \in Nat \ {0} /\ t \in 0..(T - 1) /\ f \in 0..(F - 1)
  BY DEF Shaped, Cells
<1> HIDE DEF T, F, t, f
<1>2. t * F + f \in 0..(T * F - 1)
  BY ONLY <1>1, CellIndex
<1>3. Place(g, p) \in 0..(g.times * g.freqs - 1)
  BY <1>2 DEF Place, T, F, t, f
<1>4. CellAt(g, p) = g.cells[Place(g, p)]
  BY DEF CellAt, At, Place
<1> QED BY <1>3, <1>4 DEF Shaped

\* h has a value for each cell of g.
Cellwise(g, h) ==
  /\ IsGrid(h) /\ h.times = g.times /\ SameFrame(g, h)
  /\ h.cells = [i \in DOMAIN g.cells |-> h.cells[i]]

(* A step from place to place goes from cell to cell.                        *)
LEMMA CellwiseCells ==
  ASSUME NEW V, NEW g, Shaped(g, V), NEW W, NEW h, Cellwise(g, h),
         \A i \in DOMAIN g.cells : h.cells[i] \in W
  PROVE  /\ Shaped(h, W) /\ Cells(h) = Cells(g)
         /\ \A p \in Cells(g) : /\ Place(g, p) \in DOMAIN g.cells
                                /\ CellAt(g, p) = g.cells[Place(g, p)]
                                /\ CellAt(h, p) = h.cells[Place(g, p)]
<1>1. DOMAIN g.cells = 0..(g.times * g.freqs - 1)
  BY DEF Shaped
<1>2. h.cells \in [0..(g.times * g.freqs - 1) -> W]
  BY <1>1 DEF Cellwise
<1>3. Shaped(h, W)
  BY <1>2 DEF Shaped, Cellwise, SameFrame
<1>4. Cells(h) = Cells(g)
  BY DEF Cells, Cellwise, SameFrame
<1>5. ASSUME NEW p \in Cells(g)
      PROVE  /\ Place(g, p) \in DOMAIN g.cells
             /\ CellAt(g, p) = g.cells[Place(g, p)] /\ CellAt(h, p) = h.cells[Place(g, p)]
  <2>1. Place(h, p) = Place(g, p)
    BY DEF Place, Cellwise, SameFrame
  <2> QED BY <1>1, <1>3, <1>4, <2>1, PlaceOf
<1> QED BY <1>3, <1>4, <1>5

(* What a polar sample is, and what a complex sample is as a polar one.      *)
LEMMA Conversions ==
  /\ \A x \in Polar : ToComplex(x) \in Int
  /\ \A v \in Int : ToPolar(v) \in Polar /\ ToPolar(v).mag \in Nat /\ ToComplex(ToPolar(v)) = v
<1>1. \A x \in Polar : ToComplex(x) \in Int
  BY DEF ToComplex, Polar
<1>2. ASSUME NEW v \in Int
      PROVE  ToPolar(v) \in Polar /\ ToPolar(v).mag \in Nat /\ ToComplex(ToPolar(v)) = v
  <2>1. CASE v < 0
    BY <2>1 DEF ToPolar, ToComplex, Polar, Magnitude
  <2>2. CASE v >= 0
    BY <2>2 DEF ToPolar, ToComplex, Polar, Magnitude
  <2> QED BY <2>1, <2>2
<1> QED BY <1>1, <1>2

(* A field turned complex, ...                                               *)
LEMMA PolarToComplexCells ==
  ASSUME NEW g, Shaped(g, Polar), NEW h, h = PolarToComplex(g)
  PROVE  /\ Shaped(h, Int) /\ h.form = "complex" /\ h.times = g.times /\ SameFrame(g, h)
         /\ Cells(h) = Cells(g) /\ \A p \in Cells(g) : CellAt(h, p) = ToComplex(CellAt(g, p))
<1>1. h = [form |-> "complex", times |-> g.times, freqs |-> g.freqs,
           cells |-> [i \in DOMAIN g.cells |-> ToComplex(g.cells[i])],
           tstep |-> g.tstep, fstep |-> g.fstep]
  BY DEF PolarToComplex, Shaped, IsGrid
<1>2. /\ h.form = "complex" /\ h.times = g.times /\ SameFrame(g, h)
      /\ h.cells = [i \in DOMAIN g.cells |-> ToComplex(g.cells[i])]
  BY <1>1 DEF SameFrame
<1>3. Cellwise(g, h)
  <2>1. IsGrid(h)
    BY <1>1 DEF IsGrid
  <2> QED BY <1>2, <2>1 DEF Cellwise
<1>4. \A i \in DOMAIN g.cells : h.cells[i] = ToComplex(g.cells[i]) /\ h.cells[i] \in Int
  <2>1. \A i \in DOMAIN g.cells : g.cells[i] \in Polar
    BY DEF Shaped
  <2> QED BY <1>2, <2>1, Conversions
<1> QED BY <1>2, <1>3, <1>4, CellwiseCells

(* ... and one turned polar, cell by cell.                                   *)
LEMMA ComplexToPolarCells ==
  ASSUME NEW g, Shaped(g, Int), NEW h, h = ComplexToPolar(g)
  PROVE  /\ Shaped(h, Polar) /\ h.form = "polar" /\ h.times = g.times /\ SameFrame(g, h)
         /\ Cells(h) = Cells(g) /\ \A p \in Cells(g) : CellAt(h, p) = ToPolar(CellAt(g, p))
<1>1. h = [form |-> "polar", times |-> g.times, freqs |-> g.freqs,
           cells |-> [i \in DOMAIN g.cells |-> ToPolar(g.cells[i])],
           tstep |-> g.tstep, fstep |-> g.fstep]
  BY DEF ComplexToPolar, Shaped, IsGrid
<1>2. /\ h.form = "polar" /\ h.times = g.times /\ SameFrame(g, h)
      /\ h.cells = [i \in DOMAIN g.cells |-> ToPolar(g.cells[i])]
  BY <1>1 DEF SameFrame
<1>3. Cellwise(g, h)
  <2>1. IsGrid(h)
    BY <1>1 DEF IsGrid
  <2> QED BY <1>2, <2>1 DEF Cellwise
<1>4. \A i \in DOMAIN g.cells : h.cells[i] = ToPolar(g.cells[i]) /\ h.cells[i] \in Polar
  <2>1. \A i \in DOMAIN g.cells : g.cells[i] \in Int
    BY DEF Shaped
  <2> QED BY <1>2, <2>1, Conversions
<1> QED BY <1>2, <1>3, <1>4, CellwiseCells

Quantizer == [on : BOOLEAN, base : Int, step : Int, mix : Int, sharp : BOOLEAN]
Booster == [on : BOOLEAN, kt : Int, kf : Int, brightness : Int, contrast : Int, clamp : BOOLEAN]

\* A field of either form.
Field(g) ==
  /\ g.form \in {"complex", "polar"}
  /\ g.form = "complex" => Shaped(g, Int)
  /\ g.form = "polar" => Shaped(g, Polar)

\* g and h have the same bins.
SameBins(g, h) == h.form = g.form /\ h.times = g.times /\ SameFrame(g, h)

(* A quantized magnitude is an integer, and not negative if it was not.      *)
LEMMA RoundedType ==
  ASSUME NEW m \in Int, NEW step \in Int
  PROVE  Rounded(m, step) \in Int /\ (m \in Nat => Rounded(m, step) \in Nat) /\ Rounded(0, step) = 0
<1>1. CASE step <= 0
  BY <1>1 DEF Rounded
<1>2. CASE step > 0
  <2> DEFINE a == 2 * m + step
             b == 2 * step
             q == a \div b
  <2>1. a \in Int /\ b \in Nat \ {0} /\ (m \in Nat => a \in Nat)
    BY <1>2
  <2> HIDE DEF a, b
  <2>2. q \in Int
    BY <2>1
  <2>3. ASSUME m \in Nat PROVE q \in Nat
    BY <2>1, <2>3, Division
  <2> HIDE DEF q
  <2>4. q * step \in Int /\ (q \in Nat => q * step \in Nat)
    BY <1>2, <2>2
  <2>5. Rounded(m, step) = q * step
    BY <1>2 DEF Rounded, q, a, b
  <2>6. Rounded(0, step) = 0
    <3>1. (0 + step) \div (2 * step) = 0
      <4>1. 0 * (2 * step) + step = step /\ 2 * step \in Nat \ {0} /\ step \in Nat /\ step < 2 * step
        BY <1>2
      <4> DEFINE n == 2 * step
      <4>2. n \in Nat \ {0} /\ step < n /\ step \in Nat /\ 0 * n + step = step
        BY <4>1
      <4> HIDE DEF n
      <4>3. (0 * n + step) \div n = 0
        BY <4>2, DivisionOf
      <4> QED BY <4>2, <4>3 DEF n
    <3> QED BY <1>2, <3>1 DEF Rounded
  <2> QED BY <2>3, <2>4, <2>5, <2>6
<1> QED BY <1>1, <1>2

(* So is what the harmonic weight leaves of it.                              *)
LEMMA AdjustedType ==
  ASSUME NEW q \in Quantizer, NEW m \in Int, NEW freq
  PROVE  /\ Adjusted(q, m, freq) \in Int /\ (m \in Nat => Adjusted(q, m, freq) \in Nat)
         /\ Adjusted(q, 0, freq) = 0
<1> DEFINE w == Weight(q, freq)
           r == Rounded(m, q.step)
<1>1. w \in 0..2
  BY DEF Weight, Smaller, Quantizer
<1>2. r \in Int /\ (m \in Nat => r \in Nat) /\ Rounded(0, q.step) = 0
  BY RoundedType DEF Quantizer
<1> HIDE DEF w, r
<1>3. w = 0 \/ w = 1 \/ w = 2
  BY <1>1
<1>4. Lerp(m, r, w, 2) \in Int /\ (m \in Nat => Lerp(m, r, w, 2) \in Nat)
  <2>1. CASE w = 0
    BY <2>1, <1>2 DEF Lerp
  <2>2. CASE w = 1
    BY <2>2, <1>2 DEF Lerp
  <2>3. CASE w = 2
    BY <2>3, <1>2 DEF Lerp
  <2> QED BY <1>3, <2>1, <2>2, <2>3
<1>5. Lerp(0, 0, w, 2) = 0
  BY <1>3 DEF Lerp
<1> QED BY <1>2, <1>4, <1>5 DEF Adjusted, w, r

QuantizedCell(form, q, x, freq) ==
  IF form = "polar" THEN [x EXCEPT !.mag = Adjusted(q, @, freq)]
  ELSE IF x = 0 THEN x
  ELSE IF x < 0 THEN -Larger(Adjusted(q, Magnitude(x), freq), 0)
  ELSE Larger(Adjusted(q, Magnitude(x), freq), 0)

(* A quantized field has the same bins, each quantized.                      *)
LEMMA QuantizedCells ==
  ASSUME NEW g, Field(g), NEW q \in Quantizer, NEW h, h = Quantized(g, q)
  PROVE  /\ Field(h) /\ SameBins(g, h)
         /\ \A p \in Cells(g) :
              CellAt(h, p) = IF ~q.on \/ q.mix <= 0 THEN CellAt(g, p)
                             ELSE QuantizedCell(g.form, q, CellAt(g, p), g.fstep * p[2])
<1>1. CASE ~q.on \/ q.mix <= 0
  BY <1>1 DEF Quantized, SameBins, SameFrame
<1>2. CASE ~(~q.on \/ q.mix <= 0)
  <2> DEFINE V == IF g.form = "polar" THEN Polar ELSE Int
             c == [p \in Cells(g) |-> QuantizedCell(g.form, q, CellAt(g, p), g.fstep * p[2])]
             d == [i \in 0..(g.times * g.freqs - 1) |->
                    QuantizedCell(g.form, q, At(g, i \div g.freqs, i % g.freqs), g.fstep * (i % g.freqs))]
  <2>1. Shaped(g, V)
    BY DEF Field
  <2>2. h = [form |-> g.form, times |-> g.times, freqs |-> g.freqs,
             cells |-> d, tstep |-> g.tstep, fstep |-> g.fstep]
    BY <1>2, <2>1 DEF Quantized, Filled, QuantizedCell, Shaped, IsGrid
  <2>3. h.form = g.form /\ h.times = g.times /\ SameFrame(g, h) /\ h.cells = d
    BY <2>2 DEF SameFrame
  <2>4. IsGrid(h) /\ h.times \in Nat \ {0} /\ h.freqs \in Nat \ {0}
    BY <2>1, <2>2 DEF IsGrid, Shaped
  <2>5. Cells(h) = Cells(g)
    BY <2>3 DEF Cells, SameFrame
  <2>6. ASSUME NEW p \in Cells(g) PROVE QuantizedCell(g.form, q, CellAt(g, p), g.fstep * p[2]) \in V
    <3> DEFINE x == CellAt(g, p)
               freq == g.fstep * p[2]
    <3>1. x \in V
      BY <2>1, PlaceOf
    <3> HIDE DEF x, freq
    <3>2. CASE g.form = "polar"
      <4>1. x \in Polar /\ Adjusted(q, x.mag, freq) \in Int
        BY <3>1, <3>2, AdjustedType DEF Polar
      <4> QED BY <3>2, <4>1 DEF QuantizedCell, Polar, x, freq
    <3>3. CASE g.form # "polar"
      <4>1. x \in Int /\ Magnitude(x) \in Int
        BY <3>1, <3>3 DEF Magnitude
      <4>2. Adjusted(q, Magnitude(x), freq) \in Int
        BY <4>1, AdjustedType
      <4> QED BY <3>3, <4>1, <4>2 DEF QuantizedCell, Larger, x, freq
    <3> QED BY <3>2, <3>3
  <2>7. \A p \in Cells(h) :
          c[p] = QuantizedCell(g.form, q, CellAt(g, p), g.fstep * p[2]) /\ c[p] \in V
    BY <2>5, <2>6
  <2>8. \A i \in 0..(h.times * h.freqs - 1) :
          <<i \div h.freqs, i % h.freqs>> \in Cells(h) => d[i] = c[<<i \div h.freqs, i % h.freqs>>]
    BY <2>3, <2>5 DEF SameFrame, CellAt
  <2>9. h.cells = [i \in 0..(h.times * h.freqs - 1) |-> d[i]]
    BY <2>3 DEF SameFrame
  <2> HIDE DEF c, d, V
  <2>10. FilledWith(h, c)
    <3>1. FilledFrom(h, c, d)
      BY <2>4, <2>8, <2>9 DEF FilledFrom
    <3> QED BY <3>1, FilledFromCells
  <2>11. \A p \in Cells(h) : c[p] \in V
    BY <2>7
  <2>12. Shaped(h, V) /\ \A p \in Cells(h) : CellAt(h, p) = c[p]
    BY <2>10, <2>11, FilledType, FilledValues
  <2>13. Field(h)
    BY <2>3, <2>12 DEF Field, V
  <2>14. SameBins(g, h)
    BY <2>3 DEF SameBins
  <2>15. ASSUME NEW p \in Cells(g)
         PROVE  CellAt(h, p) = QuantizedCell(g.form, q, CellAt(g, p), g.fstep * p[2])
    BY <2>5, <2>7, <2>12
  <2> QED BY <1>2, <2>13, <2>14, <2>15
<1> QED BY <1>1, <1>2

\* The magnitude of a sample.
MagOf(form, x) == IF form = "polar" THEN x.mag ELSE Magnitude(x)

(* They are integers on the same bins.                                       *)
LEMMA MagsCells ==
  ASSUME NEW g, Field(g), NEW h, h = Mags(g)
  PROVE  /\ Shaped(h, Int) /\ SameBins(g, h) /\ Cells(h) = Cells(g)
         /\ \A p \in Cells(g) : CellAt(h, p) = MagOf(g.form, CellAt(g, p))
<1> DEFINE V == IF g.form = "polar" THEN Polar ELSE Int
<1>1. Shaped(g, V)
  BY DEF Field
<1>2. h = [form |-> g.form, times |-> g.times, freqs |-> g.freqs,
           cells |-> [i \in DOMAIN g.cells |-> MagOf(g.form, g.cells[i])],
           tstep |-> g.tstep, fstep |-> g.fstep]
  <2>1. IsGrid(g)
    BY <1>1 DEF Shaped
  <2>2. CASE g.form = "polar"
    BY <2>1, <2>2 DEF Mags, MagOf, IsGrid
  <2>3. CASE g.form # "polar"
    BY <2>1, <2>3 DEF Mags, MagOf, IsGrid
  <2> QED BY <2>2, <2>3
<1>3. /\ h.form = g.form /\ h.times = g.times /\ SameFrame(g, h)
      /\ h.cells = [i \in DOMAIN g.cells |-> MagOf(g.form, g.cells[i])]
  BY <1>2 DEF SameFrame
<1>4. Cellwise(g, h)
  <2>1. IsGrid(h)
    BY <1>2 DEF IsGrid
  <2> QED BY <1>3, <2>1 DEF Cellwise
<1>5. \A i \in DOMAIN g.cells : h.cells[i] = MagOf(g.form, g.cells[i]) /\ h.cells[i] \in Int
  <2>1. ASSUME NEW i \in DOMAIN g.cells PROVE MagOf(g.form, g.cells[i]) \in Int
    <3>1. g.cells[i] \in V
      BY <1>1 DEF Shaped
    <3>2. CASE g.form = "polar"
      <4>1. g.cells[i] \in Polar
        BY <3>1, <3>2
      <4> QED BY <3>2, <4>1 DEF MagOf, Polar
    <3>3. CASE g.form # "polar"
      <4>1. g.cells[i] \in Int
        BY <3>1, <3>3
      <4> QED BY <3>3, <4>1 DEF MagOf, Magnitude
    <3> QED BY <3>2, <3>3
  <2> QED BY <1>3, <2>1
<1> HIDE DEF V
<1>6. /\ Shaped(h, Int) /\ Cells(h) = Cells(g)
      /\ \A p \in Cells(g) : /\ Place(g, p) \in DOMAIN g.cells
                             /\ CellAt(g, p) = g.cells[Place(g, p)]
                             /\ CellAt(h, p) = h.cells[Place(g, p)]
  BY <1>1, <1>4, <1>5, CellwiseCells
<1>7. SameBins(g, h)
  BY <1>3 DEF SameBins
<1>8. \A p \in Cells(g) : CellAt(h, p) = MagOf(g.form, CellAt(g, p))
  BY <1>5, <1>6
<1> QED BY <1>6, <1>7, <1>8

\* The rows or columns of the window around x.
Around(x, n, kernel) == {r \in 0..(n - 1) : Within(r, x, kernel)}

(* A mean around a cell is a number, and so is the cell boosted by it.       *)
LEMMA LiftedType ==
  ASSUME NEW g, Shaped(g, Int), NEW c \in Booster,
         NEW t \in 0..(g.times - 1), NEW f \in 0..(g.freqs - 1)
  PROVE  /\ Mean(g, Around(t, g.times, c.kt), Around(f, g.freqs, c.kf)) \in Int
         /\ Shaped(g, Nat) => Mean(g, Around(t, g.times, c.kt), Around(f, g.freqs, c.kf)) \in Nat
         /\ Lifted(g, c, t, f) \in Int
<1> DEFINE rows == Around(t, g.times, c.kt)
           cols == Around(f, g.freqs, c.kf)
           mean == Mean(g, rows, cols)
           x == At(g, t, f)
<1>1. c.kt \in Int /\ c.kf \in Int /\ c.contrast \in Int /\ c.brightness \in Int
  BY DEF Booster
<1>2. ASSUME NEW k \in Int, NEW y \in Int PROVE Within(y, y, k)
  <2>1. Magnitude(y - y) = 0
    BY DEF Magnitude
  <2>2. CASE k <= 0
    BY <2>2 DEF Within
  <2>3. CASE k > 0
    BY <2>1, <2>3 DEF Within
  <2> QED BY <2>2, <2>3
<1>3. t \in rows /\ f \in cols
  BY <1>1, <1>2 DEF Around
<1>4. mean \in Int /\ (Shaped(g, Nat) => mean \in Nat)
  BY <1>3, MeanType
<1>5. x \in Int
  BY AtType
<1>6. Lifted(g, c, t, f) =
        LET boosted == mean + ((x - mean) * (2 + c.contrast)) \div 2 + c.brightness
        IN  IF c.clamp THEN Larger(boosted, 0) ELSE boosted
  BY DEF Lifted, Around
<1> HIDE DEF mean, x
<1> DEFINE m == (x - mean) * (2 + c.contrast)
<1>7. m \in Int
  BY <1>1, <1>4, <1>5
<1> HIDE DEF m
<1>8. Lifted(g, c, t, f) \in Int
  <2>1. m \div 2 \in Int
    BY <1>7
  <2> QED BY <1>1, <1>4, <1>6, <2>1 DEF Larger, m
<1> QED BY <1>4, <1>8 DEF mean

\* A sample with another magnitude.
Relight(form, x, m) ==
  IF form = "polar" THEN [x EXCEPT !.mag = m] ELSE IF x < 0 THEN -m ELSE m

(* A boosted field has the same bins, each boosted by what was around it.    *)
LEMMA BoostedCells ==
  ASSUME NEW g, Field(g), NEW c \in Booster, NEW h, h = Boosted(g, c)
  PROVE  /\ Field(h) /\ SameBins(g, h)
         /\ \A p \in Cells(g) :
              CellAt(h, p) = IF ~c.on THEN CellAt(g, p)
                             ELSE Relight(g.form, CellAt(g, p), Lifted(Mags(g), c, p[1], p[2]))
<1>1. CASE ~c.on
  BY <1>1 DEF Boosted, SameBins, SameFrame
<1>2. CASE c.on
  <2> DEFINE V == IF g.form = "polar" THEN Polar ELSE Int
             mags == Mags(g)
             e == [p \in Cells(g) |-> Lifted(mags, c, p[1], p[2])]
             d == [i \in 0..(g.times * g.freqs - 1) |-> Lifted(mags, c, i \div g.freqs, i % g.freqs)]
             lit == [form |-> g.form, times |-> g.times, freqs |-> g.freqs,
                     cells |-> d, tstep |-> g.tstep, fstep |-> g.fstep]
  <2>1. Shaped(g, V)
    BY DEF Field
  <2>2. Shaped(mags, Int) /\ SameBins(g, mags) /\ Cells(mags) = Cells(g)
    BY MagsCells
  <2>3. h = Relit(g, lit)
    <3>1. IsGrid(mags) /\ mags.form = g.form /\ mags.times = g.times /\ mags.freqs = g.freqs
          /\ mags.tstep = g.tstep /\ mags.fstep = g.fstep
      BY <2>2 DEF Shaped, SameBins, SameFrame
    <3> HIDE DEF mags
    <3>2. [i \in 0..(mags.times * mags.freqs - 1) |->
             Lifted(mags, c, i \div mags.freqs, i % mags.freqs)] = d
      BY <3>1
    <3> HIDE DEF d
    <3>3. [mags EXCEPT !.cells = d] = lit
      BY <3>1 DEF IsGrid
    <3>4. h = Relit(g, [mags EXCEPT !.cells = [i \in 0..(mags.times * mags.freqs - 1) |->
                          Lifted(mags, c, i \div mags.freqs, i % mags.freqs)]])
      BY <1>2 DEF Boosted, Filled, mags
    <3> QED BY <3>2, <3>3, <3>4
  <2>4. \A p \in Cells(lit) : e[p] = Lifted(mags, c, p[1], p[2]) /\ e[p] \in Int
    <3>1. Cells(lit) = Cells(g)
      BY DEF Cells
    <3>2. ASSUME NEW p \in Cells(g) PROVE Lifted(mags, c, p[1], p[2]) \in Int
      <4>1. p[1] \in 0..(mags.times - 1) /\ p[2] \in 0..(mags.freqs - 1)
        BY <2>2 DEF Cells
      <4> HIDE DEF mags
      <4> QED BY <2>2, <4>1, LiftedType
    <3> QED BY <3>1, <3>2
  <2>5. FilledWith(lit, e)
    <3>1. lit.times = g.times /\ lit.freqs = g.freqs /\ lit.cells = d /\ Cells(lit) = Cells(g)
      BY DEF Cells
    <3>2. IsGrid(lit)
      BY DEF IsGrid
    <3>3. g.times \in Nat \ {0} /\ g.freqs \in Nat \ {0}
      BY <2>1 DEF Shaped
    <3>4. \A i \in 0..(lit.times * lit.freqs - 1) :
            <<i \div lit.freqs, i % lit.freqs>> \in Cells(lit) =>
              d[i] = e[<<i \div lit.freqs, i % lit.freqs>>]
      BY <3>1
    <3>5. d = [i \in 0..(lit.times * lit.freqs - 1) |-> d[i]]
      BY <3>1
    <3> HIDE DEF e, d, lit, mags
    <3>6. FilledFrom(lit, e, d)
      BY <3>1, <3>2, <3>3, <3>4, <3>5 DEF FilledFrom
    <3> QED BY <3>6, FilledFromCells
  <2>6. Shaped(lit, Int) /\ SameBins(g, lit)
    <3>1. SameBins(g, lit)
      BY DEF SameBins, SameFrame
    <3> HIDE DEF e, d, lit, mags
    <3> QED BY <2>4, <2>5, <3>1, FilledType
  <2>7. \A p \in Cells(lit) : CellAt(lit, p) = e[p]
    <3> HIDE DEF e, d, lit, mags
    <3> QED BY <2>5, FilledValues
  <2> HIDE DEF lit, e, d, mags
  <2>8. h = [form |-> g.form, times |-> g.times, freqs |-> g.freqs,
             cells |-> [i \in DOMAIN g.cells |-> Relight(g.form, g.cells[i], lit.cells[i])],
             tstep |-> g.tstep, fstep |-> g.fstep]
    BY <2>1, <2>3 DEF Relit, Relight, Shaped, IsGrid
  <2>9. /\ h.form = g.form /\ h.times = g.times /\ SameFrame(g, h)
        /\ h.cells = [i \in DOMAIN g.cells |-> Relight(g.form, g.cells[i], lit.cells[i])]
    BY <2>8 DEF SameFrame
  <2>10. Cellwise(g, h)
    <3>1. IsGrid(h)
      BY <2>8 DEF IsGrid
    <3> QED BY <2>9, <3>1 DEF Cellwise
  <2>11. \A i \in DOMAIN g.cells :
           h.cells[i] = Relight(g.form, g.cells[i], lit.cells[i]) /\ h.cells[i] \in V
    <3> SUFFICES ASSUME NEW i \in DOMAIN g.cells
                 PROVE  Relight(g.form, g.cells[i], lit.cells[i]) \in V
      BY <2>9
    <3>1. g.cells[i] \in V /\ lit.cells[i] \in Int
      BY <2>1, <2>6 DEF Shaped, SameBins, SameFrame
    <3>2. CASE g.form = "polar"
      <4>1. g.cells[i] \in Polar
        BY <3>1, <3>2
      <4> QED BY <3>1, <3>2, <4>1 DEF Relight, Polar
    <3>3. CASE g.form # "polar"
      BY <3>1, <3>3 DEF Relight
    <3> QED BY <3>2, <3>3
  <2> HIDE DEF V
  <2>12. Shaped(h, V) /\ \A p \in Cells(g) : /\ Place(g, p) \in DOMAIN g.cells
                                             /\ CellAt(g, p) = g.cells[Place(g, p)]
                                             /\ CellAt(h, p) = h.cells[Place(g, p)]
    BY <2>1, <2>10, <2>11, CellwiseCells
  <2>13. ASSUME NEW p \in Cells(g)
         PROVE  CellAt(h, p) = Relight(g.form, CellAt(g, p), Lifted(mags, c, p[1], p[2]))
    <3>1. Cells(lit) = Cells(g) /\ Place(lit, p) = Place(g, p)
      BY <2>6 DEF Cells, Place, SameBins, SameFrame
    <3>2. lit.cells[Place(g, p)] = Lifted(mags, c, p[1], p[2])
      BY <2>4, <2>6, <2>7, <3>1, PlaceOf
    <3> QED BY <2>11, <2>12, <3>2
  <2>14. Field(h)
    BY <2>9, <2>12 DEF Field, V
  <2>15. SameBins(g, h)
    BY <2>9 DEF SameBins
  <2> QED BY <1>2, <2>13, <2>14, <2>15 DEF mags
<1> QED BY <1>1, <1>2

\* What a coarsened grid has in cell (t, f).
Blocks(n, d) == (n + d - 1) \div d
BlockOf(x, d, n) == (x * d)..(Smaller(x * d + d, n) - 1)

DownCell(g, dt, df, energy, t, f) ==
  LET rows == BlockOf(t, dt, g.times)  cols == BlockOf(f, df, g.freqs)
  IN  IF energy THEN Mean(g, rows, cols) ELSE Total(g, rows, cols)

(* Each block has a first bin.                                               *)
LEMMA BlocksBegin ==
  ASSUME NEW n \in Nat \ {0}, NEW d \in Nat \ {0}
  PROVE  /\ Blocks(n, d) \in Nat \ {0}
         /\ \A x \in 0..(Blocks(n, d) - 1) : x * d \in 0..(n - 1) /\ x * d \in BlockOf(x, d, n)
<1> DEFINE m == n + d - 1
           q == m \div d
<1>1. m \in Nat /\ m >= d
  OBVIOUS
<1> HIDE DEF m
<1>2. q \in Nat /\ m % d \in 0..(d - 1) /\ m = d * q + (m % d)
  BY <1>1, Division
<1> HIDE DEF q
<1>3. q # 0
  <2> SUFFICES ASSUME q = 0 PROVE FALSE
    OBVIOUS
  <2>1. d * q = 0
    OBVIOUS
  <2> QED BY <1>1, <1>2, <2>1
<1>4. ASSUME NEW x \in 0..(q - 1) PROVE x * d \in 0..(n - 1)
  <2>1. x \in Nat /\ (x + 1) * d <= q * d /\ (x + 1) * d = x * d + d /\ q * d = d * q /\ x * d \in Nat
    BY <1>2
  <2>2. x * d + d <= m
    BY <1>2, <2>1
  <2> QED BY <2>1, <2>2 DEF m
<1>5. ASSUME NEW x \in 0..(q - 1) PROVE x * d \in BlockOf(x, d, n)
  <2> DEFINE a == x * d
  <2>1. a \in 0..(n - 1)
    BY <1>4
  <2> HIDE DEF a
  <2>2. a \in a..(Smaller(a + d, n) - 1)
    BY <2>1 DEF Smaller
  <2> QED BY <2>2 DEF BlockOf, a
<1> QED BY <1>2, <1>3, <1>4, <1>5 DEF Blocks, q, m

(* A coarse cell is an integer, ...                                          *)
LEMMA DownCellType ==
  ASSUME NEW g, Shaped(g, Int), NEW dt \in Nat \ {0}, NEW df \in Nat \ {0}, NEW energy,
         NEW t \in 0..(Blocks(g.times, dt) - 1), NEW f \in 0..(Blocks(g.freqs, df) - 1)
  PROVE  DownCell(g, dt, df, energy, t, f) \in Int
<1> DEFINE T == g.times
           F == g.freqs
           rows == BlockOf(t, dt, T)
           cols == BlockOf(f, df, F)
           a == t * dt
           b == f * df
<1>1. T \in Nat \ {0} /\ F \in Nat \ {0}
  BY DEF Shaped
<1>2. a \in 0..(T - 1) /\ a \in rows
  <2> HIDE DEF T
  <2> QED BY <1>1, BlocksBegin DEF T
<1>3. b \in 0..(F - 1) /\ b \in cols
  BY <1>1, BlocksBegin
<1> HIDE DEF rows, cols, a, b
<1>4. Mean(g, rows, cols) \in Int /\ Total(g, rows, cols) \in Int
  BY <1>2, <1>3, MeanType, TotalType
<1> QED BY <1>4 DEF DownCell, rows, cols

(* ... and is where downsample_complex puts it.                              *)
LEMMA DownsampledCells ==
  ASSUME NEW g, Shaped(g, Int), NEW dt \in Nat \ {0}, NEW df \in Nat \ {0}, NEW energy,
         NEW h, h = DownsampledComplex(g, dt, df, energy)
  PROVE  /\ Shaped(h, Int) /\ h.form = g.form
         /\ h.times = Blocks(g.times, dt) /\ h.freqs = Blocks(g.freqs, df)
         /\ h.tstep = g.tstep * dt /\ h.fstep = g.fstep * df
         /\ \A p \in Cells(h) : CellAt(h, p) = DownCell(g, dt, df, energy, p[1], p[2])
<1> DEFINE c == [p \in Cells(h) |-> DownCell(g, dt, df, energy, p[1], p[2])]
           d == [i \in 0..(Blocks(g.times, dt) * Blocks(g.freqs, df) - 1) |->
                  DownCell(g, dt, df, energy, i \div Blocks(g.freqs, df), i % Blocks(g.freqs, df))]
<1>1. h = [form |-> g.form, times |-> Blocks(g.times, dt), freqs |-> Blocks(g.freqs, df),
           cells |-> d, tstep |-> g.tstep * dt, fstep |-> g.fstep * df]
  BY DEF DownsampledComplex, Filled, DownCell, BlockOf, Blocks, Shaped, IsGrid
<1> HIDE DEF d
<1>2. /\ h.form = g.form /\ h.times = Blocks(g.times, dt) /\ h.freqs = Blocks(g.freqs, df)
      /\ h.tstep = g.tstep * dt /\ h.fstep = g.fstep * df /\ h.cells = d
  BY <1>1
<1>3. IsGrid(h)
  BY <1>1 DEF IsGrid
<1>4. h.times \in Nat \ {0} /\ h.freqs \in Nat \ {0}
  <2>1. g.times \in Nat \ {0} /\ g.freqs \in Nat \ {0}
    BY DEF Shaped
  <2> QED BY <1>2, <2>1, BlocksBegin
<1>5. ASSUME NEW p \in Cells(h) PROVE DownCell(g, dt, df, energy, p[1], p[2]) \in Int
  <2>1. p[1] \in 0..(Blocks(g.times, dt) - 1) /\ p[2] \in 0..(Blocks(g.freqs, df) - 1)
    BY <1>2 DEF Cells
  <2> QED BY <2>1, DownCellType
<1>6. \A p \in Cells(h) : c[p] = DownCell(g, dt, df, energy, p[1], p[2]) /\ c[p] \in Int
  BY <1>5
<1>7. \A i \in 0..(h.times * h.freqs - 1) :
        <<i \div h.freqs, i % h.freqs>> \in Cells(h) => d[i] = c[<<i \div h.freqs, i % h.freqs>>]
  BY <1>2 DEF d
<1>8. d = [i \in 0..(h.times * h.freqs - 1) |-> d[i]]
  BY <1>2 DEF d
<1> HIDE DEF c
<1>9. FilledWith(h, c)
  <2>1. FilledFrom(h, c, d)
    BY <1>2, <1>3, <1>4, <1>7, <1>8 DEF FilledFrom
  <2> QED BY <2>1, FilledFromCells
<1>10. Shaped(h, Int) /\ \A p \in Cells(h) : CellAt(h, p) = c[p]
  BY <1>6, <1>9, FilledType, FilledValues
<1>11. \A p \in Cells(h) : CellAt(h, p) = DownCell(g, dt, df, energy, p[1], p[2])
  BY <1>6, <1>10
<1> QED BY <1>2, <1>10, <1>11

-----------------------------------------------------------------------------
(* The two forms of a field.                                                 *)

\* Polar samples as they come out of a conversion, and with magnitudes at all.
Plain(g) == \A p \in Cells(g) : CellAt(g, p) = ToPolar(ToComplex(CellAt(g, p)))
Unsigned(g) == \A p \in Cells(g) : CellAt(g, p).mag \in Nat

\* g and z are the same field, g in polar and z in complex form.
Forms(g, z) ==
  /\ Shaped(g, Polar) /\ g.form = "polar" /\ Shaped(z, Int) /\ z.form = "complex"
  /\ z = PolarToComplex(g)

(* It is enough that they agree in every cell.                               *)
LEMMA FormsMeet ==
  ASSUME NEW g, NEW z, Shaped(g, Polar), g.form = "polar", Shaped(z, Int), z.form = "complex",
         z.times = g.times, SameFrame(g, z),
         \A p \in Cells(g) : CellAt(z, p) = ToComplex(CellAt(g, p))
  PROVE  Forms(g, z)
<1> DEFINE h == PolarToComplex(g)
<1>1. /\ Shaped(h, Int) /\ h.form = "complex" /\ h.times = g.times /\ SameFrame(g, h)
      /\ Cells(h) = Cells(g) /\ \A p \in Cells(g) : CellAt(h, p) = ToComplex(CellAt(g, p))
  BY PolarToComplexCells
<1> HIDE DEF h
<1>2. z.form = h.form /\ z.times = h.times /\ SameFrame(z, h) /\ Cells(z) = Cells(g)
  BY <1>1 DEF SameFrame, Cells
<1>3. \A p \in Cells(z) : CellAt(z, p) = CellAt(h, p)
  BY <1>1, <1>2
<1>4. z = h
  BY <1>1, <1>2, <1>3, SameCells
<1> QED BY <1>4 DEF Forms, h

(* They do agree in every cell.                                              *)
LEMMA FormsPart ==
  ASSUME NEW g, NEW z, Forms(g, z)
  PROVE  /\ z.times = g.times /\ SameFrame(g, z) /\ Cells(z) = Cells(g)
         /\ \A p \in Cells(g) : CellAt(g, p) \in Polar /\ CellAt(z, p) = ToComplex(CellAt(g, p))
<1>1. \A p \in Cells(g) : CellAt(g, p) \in Polar
  BY PlaceOf DEF Forms
<1> QED BY <1>1, PolarToComplexCells DEF Forms

(* A complex field and its polar form.                                       *)
LEMMA Unconverted ==
  ASSUME NEW z, Shaped(z, Int), z.form = "complex"
  PROVE  Forms(ComplexToPolar(z), z) /\ Plain(ComplexToPolar(z))
<1> DEFINE g == ComplexToPolar(z)
<1>1. /\ Shaped(g, Polar) /\ g.form = "polar" /\ g.times = z.times /\ SameFrame(z, g)
      /\ Cells(g) = Cells(z) /\ \A p \in Cells(z) : CellAt(g, p) = ToPolar(CellAt(z, p))
  BY ComplexToPolarCells
<1> HIDE DEF g
<1>2. \A p \in Cells(g) : CellAt(z, p) = ToComplex(CellAt(g, p))
  <2>1. \A p \in Cells(z) : CellAt(z, p) \in Int
    BY PlaceOf
  <2> QED BY <1>1, <2>1, Conversions
<1>3. SameFrame(g, z)
  BY <1>1 DEF SameFrame
<1>4. Forms(g, z)
  BY <1>1, <1>2, <1>3, FormsMeet
<1>5. Plain(g)
  BY <1>1, <1>2 DEF Plain
<1> QED BY <1>4, <1>5 DEF g

(* Plain samples have magnitudes, and the phase of their sign.               *)
LEMMA PlainSamples ==
  ASSUME NEW x \in Polar, x = ToPolar(ToComplex(x))
  PROVE  /\ x.mag \in Nat /\ x.mag = Magnitude(ToComplex(x))
         /\ (x.phase = 1 <=> ToComplex(x) < 0) /\ (ToComplex(x) = 0 => x.mag = 0 /\ x.phase = 0)
<1> DEFINE v == ToComplex(x)
<1>1. v \in Int
  BY Conversions
<1> HIDE DEF v
<1>2. x = [mag |-> Magnitude(v), phase |-> IF v < 0 THEN 1 ELSE 0]
  BY DEF ToPolar, v
<1>3. x.mag = Magnitude(v) /\ x.phase = IF v < 0 THEN 1 ELSE 0
  BY <1>2
<1> QED BY <1>1, <1>3 DEF Magnitude, v

(* Resampling keeps the forms together.                                      *)
LEMMA UpsampledForms ==
  ASSUME NEW g, NEW z, Forms(g, z), Plain(g), NEW ut \in Nat \ {0}, NEW uf \in Nat \ {0}
  PROVE  Forms(Upsampled(g, ut, uf), Upsampled(z, ut, uf)) /\ Plain(Upsampled(g, ut, uf))
<1>1. CASE ut <= 1 /\ uf <= 1
  BY <1>1 DEF Upsampled
<1>2. CASE ~(ut <= 1 /\ uf <= 1)
  <2> DEFINE k == UpsampledComplex(z, ut, uf)
  <2>1. z = PolarToComplex(g) /\ Shaped(z, Int) /\ z.form = "complex" /\ g.form = "polar"
    BY DEF Forms
  <2>2. Upsampled(z, ut, uf) = k /\ Upsampled(g, ut, uf) = ComplexToPolar(k)
    BY <1>2, <2>1 DEF Upsampled
  <2>3. Shaped(k, Int) /\ k.form = "complex"
    BY <2>1, UpsampledCells
  <2> HIDE DEF k
  <2> QED BY <2>2, <2>3, Unconverted
<1> QED BY <1>1, <1>2

(* Coarsening does as well.                                                  *)
LEMMA DownsampledForms ==
  ASSUME NEW g, NEW z, Forms(g, z), NEW dt \in Nat \ {0}, NEW df \in Nat \ {0}, NEW energy
  PROVE  Forms(Downsampled(g, dt, df, energy), Downsampled(z, dt, df, energy))
<1>1. CASE dt <= 1 /\ df <= 1
  BY <1>1 DEF Downsampled
<1>2. CASE ~(dt <= 1 /\ df <= 1)
  <2> DEFINE k == DownsampledComplex(z, dt, df, energy)
  <2>1. z = PolarToComplex(g) /\ Shaped(z, Int) /\ z.form = "complex" /\ g.form = "polar"
    BY DEF Forms
  <2>2. Downsampled(z, dt, df, energy) = k /\ Downsampled(g, dt, df, energy) = ComplexToPolar(k)
    BY <1>2, <2>1 DEF Downsampled
  <2>3. Shaped(k, Int) /\ k.form = "complex"
    BY <2>1, DownsampledCells
  <2> HIDE DEF k
  <2> QED BY <2>2, <2>3, Unconverted
<1> QED BY <1>1, <1>2

(* So does quantizing, of plain samples.                                     *)
LEMMA QuantizedForms ==
  ASSUME NEW g, NEW z, Forms(g, z), Plain(g), NEW q \in Quantizer
  PROVE  /\ Forms(Quantized(g, q), Quantized(z, q)) /\ Unsigned(Quantized(g, q))
         /\ ~q.on => Plain(Quantized(g, q))
<1> DEFINE h == Quantized(g, q)
           k == Quantized(z, q)
<1>1. /\ z.times = g.times /\ SameFrame(g, z) /\ Cells(z) = Cells(g)
      /\ \A p \in Cells(g) : CellAt(g, p) \in Polar /\ CellAt(z, p) = ToComplex(CellAt(g, p))
  BY FormsPart
<1>2. g.form = "polar" /\ z.form = "complex" /\ Field(g) /\ Field(z)
  BY DEF Forms, Field
<1>3. CASE ~q.on \/ q.mix <= 0
  <2>1. h = g /\ k = z
    BY <1>3 DEF Quantized
  <2>2. Unsigned(g)
    BY <1>1, PlainSamples DEF Unsigned, Plain
  <2> QED BY <2>1, <2>2
<1>4. CASE ~(~q.on \/ q.mix <= 0)
  <2>1. /\ Field(h) /\ SameBins(g, h)
        /\ \A p \in Cells(g) : CellAt(h, p) = QuantizedCell("polar", q, CellAt(g, p), g.fstep * p[2])
    BY <1>2, <1>4, QuantizedCells
  <2>2. /\ Field(k) /\ SameBins(z, k)
        /\ \A p \in Cells(z) : CellAt(k, p) = QuantizedCell("complex", q, CellAt(z, p), z.fstep * p[2])
    BY <1>2, <1>4, QuantizedCells
  <2> HIDE DEF h, k
  <2>3. h.form = "polar" /\ k.form = "complex" /\ Shaped(h, Polar) /\ Shaped(k, Int)
    BY <1>2, <2>1, <2>2 DEF Field, SameBins
  <2>4. k.times = h.times /\ SameFrame(h, k) /\ Cells(h) = Cells(g)
    BY <1>1, <2>1, <2>2 DEF SameBins, SameFrame, Cells
  <2>5. ASSUME NEW p \in Cells(g)
        PROVE  CellAt(h, p).mag \in Nat /\ CellAt(k, p) = ToComplex(CellAt(h, p))
    <3> DEFINE x == CellAt(g, p)
               v == CellAt(z, p)
               freq == g.fstep * p[2]
               a == Adjusted(q, x.mag, freq)
    <3>1. x \in Polar /\ x = ToPolar(ToComplex(x)) /\ v = ToComplex(x) /\ v \in Int
      BY <1>1, Conversions DEF Plain
    <3>2. z.fstep * p[2] = freq
      BY <1>1 DEF SameFrame
    <3> HIDE DEF freq
    <3>3. CellAt(h, p) = [x EXCEPT !.mag = a]
      BY <2>1 DEF QuantizedCell, freq
    <3>4. CellAt(k, p) = QuantizedCell("complex", q, v, freq)
      BY <1>1, <2>2, <3>2
    <3> HIDE DEF x, v
    <3>5. /\ x.mag \in Nat /\ x.mag = Magnitude(v)
          /\ (x.phase = 1 <=> v < 0) /\ (v = 0 => x.mag = 0 /\ x.phase = 0)
      BY <3>1, PlainSamples
    <3>6. a \in Nat /\ (x.mag = 0 => a = 0)
      BY <3>5, AdjustedType
    <3>7. CellAt(k, p) = IF v < 0 THEN -a ELSE IF v = 0 THEN 0 ELSE a
      BY <3>1, <3>4, <3>5, <3>6 DEF QuantizedCell, Larger
    <3> HIDE DEF a
    <3>8. CellAt(h, p).mag = a /\ CellAt(h, p).phase = x.phase /\ x.phase \in {0, 1}
      BY <3>1, <3>3 DEF Polar
    <3>9. ToComplex(CellAt(h, p)) = IF x.phase = 0 THEN a ELSE -a
      BY <3>8 DEF ToComplex
    <3> QED BY <3>1, <3>5, <3>6, <3>7, <3>8, <3>9
  <2>6. Forms(h, k)
    BY <2>3, <2>4, <2>5, FormsMeet
  <2>7. Unsigned(h)
    BY <2>4, <2>5 DEF Unsigned
  <2> QED BY <1>4, <2>6, <2>7 DEF h, k
<1> QED BY <1>3, <1>4

(* Totals and means depend on cells only, whatever else a grid is.           *)
LEMMA LiftedSame ==
  ASSUME NEW g, NEW h, IsGrid(g), IsGrid(h), g.times = h.times, g.freqs = h.freqs,
         g.cells = h.cells, NEW c, NEW t, NEW f
  PROVE  Lifted(g, c, t, f) = Lifted(h, c, t, f)
<1>1. \A a, b : At(g, a, b) = At(h, a, b)
  BY DEF At
<1>2. \A rows, cols : Total(g, rows, cols) = Total(h, rows, cols)
  BY DEF Total, At
<1>3. \A rows, cols : Total(Ones(g), rows, cols) = Total(Ones(h), rows, cols)
  <2> DEFINE a == Ones(g)
             b == Ones(h)
  <2>1. a.times = g.times /\ a.freqs = g.freqs /\ a.cells = [i \in DOMAIN g.cells |-> 1]
    BY DEF Ones, IsGrid
  <2>2. b.times = h.times /\ b.freqs = h.freqs /\ b.cells = [i \in DOMAIN h.cells |-> 1]
    BY DEF Ones, IsGrid
  <2>3. a.times = b.times /\ a.freqs = b.freqs /\ a.cells = b.cells
    BY <2>1, <2>2
  <2> HIDE DEF a, b
  <2>4. \A rows, cols : Total(a, rows, cols) = Total(b, rows, cols)
    BY <2>3 DEF Total, At
  <2> QED BY <2>4 DEF a, b
<1>4. \A rows, cols : Mean(g, rows, cols) = Mean(h, rows, cols)
  BY <1>2, <1>3, MeanByOnes
<1> QED BY <1>1, <1>4 DEF Lifted

(* A magnitude of zero stays zero if contrast is not lowered, brightness not *)
(* raised, and the result cut off at zero.                                   *)
LEMMA DarkStaysDark ==
  ASSUME NEW g, Shaped(g, Nat), NEW c \in Booster, c.clamp, c.brightness <= 0, c.contrast >= 0,
         NEW t \in 0..(g.times - 1), NEW f \in 0..(g.freqs - 1), At(g, t, f) = 0
  PROVE  Lifted(g, c, t, f) = 0
<1> DEFINE mean == Mean(g, Around(t, g.times, c.kt), Around(f, g.freqs, c.kf))
           m == (0 - mean) * (2 + c.contrast)
<1>1. c.contrast \in Nat /\ c.brightness \in Int
  BY DEF Booster
<1>2. Shaped(g, Int)
  BY DEF Shaped
<1>3. mean \in Nat
  BY <1>2, LiftedType
<1>4. Lifted(g, c, t, f) = Larger(mean + m \div 2 + c.brightness, 0)
  BY DEF Lifted, Around
<1> HIDE DEF mean
<1>5. m \in Int /\ m <= -(2 * mean)
  <2>1. mean * c.contrast \in Nat /\ m = -(2 * mean) - mean * c.contrast
    BY <1>1, <1>3
  <2> QED BY <1>3, <2>1
<1> HIDE DEF m
<1>6. m \div 2 <= -mean /\ m \div 2 \in Int
  BY <1>3, <1>5
<1> QED BY <1>1, <1>3, <1>4, <1>6 DEF Larger

\* A booster that lifts no magnitude from zero, where a phase would matter.
KeepsDark(c) == c.clamp /\ c.brightness <= 0 /\ c.contrast >= 0

(* Two forms boosted are two forms of one field.                             *)
LEMMA BoostedForms ==
  ASSUME NEW g, NEW z, Forms(g, z), Unsigned(g), NEW c \in Booster,
         ~c.on \/ Plain(g) \/ KeepsDark(c)
  PROVE  Forms(Boosted(g, c), Boosted(z, c))
<1> DEFINE h == Boosted(g, c)
           k == Boosted(z, c)
           mags == Mags(g)
           sizes == Mags(z)
<1>1. /\ z.times = g.times /\ SameFrame(g, z) /\ Cells(z) = Cells(g)
      /\ \A p \in Cells(g) : CellAt(g, p) \in Polar /\ CellAt(z, p) = ToComplex(CellAt(g, p))
  BY FormsPart
<1>2. g.form = "polar" /\ z.form = "complex" /\ Field(g) /\ Field(z)
  BY DEF Forms, Field
<1>3. CASE ~c.on
  BY <1>3 DEF Boosted
<1>4. CASE c.on
  <2>1. /\ Field(h) /\ SameBins(g, h)
        /\ \A p \in Cells(g) :
             CellAt(h, p) = Relight("polar", CellAt(g, p), Lifted(mags, c, p[1], p[2]))
    BY <1>2, <1>4, BoostedCells
  <2>2. /\ Field(k) /\ SameBins(z, k)
        /\ \A p \in Cells(z) :
             CellAt(k, p) = Relight("complex", CellAt(z, p), Lifted(sizes, c, p[1], p[2]))
    BY <1>2, <1>4, BoostedCells
  <2>3. /\ Shaped(mags, Int) /\ SameBins(g, mags) /\ Cells(mags) = Cells(g)
        /\ \A p \in Cells(g) : CellAt(mags, p) = CellAt(g, p).mag
    BY <1>2, MagsCells DEF MagOf
  <2>4. /\ Shaped(sizes, Int) /\ SameBins(z, sizes) /\ Cells(sizes) = Cells(z)
        /\ \A p \in Cells(z) : CellAt(sizes, p) = Magnitude(CellAt(z, p))
    BY <1>2, MagsCells DEF MagOf
  <2> HIDE DEF h, k, mags, sizes
  <2>5. ASSUME NEW p \in Cells(g) PROVE CellAt(mags, p) = CellAt(sizes, p) /\ CellAt(mags, p) \in Nat
    <3> DEFINE x == CellAt(g, p)
    <3>1. x \in Polar /\ x.mag \in Nat
      BY <1>1 DEF Unsigned
    <3>2. CellAt(sizes, p) = Magnitude(ToComplex(x)) /\ CellAt(mags, p) = x.mag
      BY <1>1, <2>3, <2>4
    <3> HIDE DEF x
    <3> QED BY <3>1, <3>2 DEF ToComplex, Magnitude
  <2>6. mags.cells = sizes.cells /\ mags.times = sizes.times /\ mags.freqs = sizes.freqs
    <3>1. mags.times = sizes.times /\ SameFrame(mags, sizes) /\ mags.times = g.times /\ mags.freqs = g.freqs
      BY <1>1, <2>3, <2>4 DEF SameBins, SameFrame
    <3> DEFINE e == [mags EXCEPT !.form = "complex"]
    <3>2. /\ e.form = "complex" /\ e.times = mags.times /\ e.freqs = mags.freqs
          /\ e.tstep = mags.tstep /\ e.fstep = mags.fstep /\ e.cells = mags.cells /\ IsGrid(e)
      <4>1. IsGrid(mags)
        BY <2>3 DEF Shaped
      <4> QED BY <4>1 DEF IsGrid
    <3> HIDE DEF e
    <3>3. Shaped(e, Int) /\ SameFrame(e, sizes) /\ Cells(e) = Cells(g)
      BY <2>3, <3>1, <3>2 DEF Shaped, SameFrame, Cells
    <3>4. \A p \in Cells(e) : CellAt(e, p) = CellAt(sizes, p)
      <4>1. \A p : CellAt(e, p) = CellAt(mags, p)
        BY <3>2 DEF CellAt, At
      <4> QED BY <2>5, <3>3, <4>1
    <3>5. e.form = sizes.form /\ e.times = sizes.times
      BY <1>2, <2>4, <3>1, <3>2 DEF SameBins
    <3>6. e = sizes
      BY <2>4, <3>3, <3>4, <3>5, SameCells
    <3> QED BY <3>1, <3>2, <3>6 DEF SameFrame
  <2>7. \A t, f : Lifted(mags, c, t, f) = Lifted(sizes, c, t, f)
    BY <2>3, <2>4, <2>6, LiftedSame DEF Shaped
  <2>8. Shaped(mags, Nat)
    <3>1. ASSUME NEW i \in 0..(mags.times * mags.freqs - 1) PROVE mags.cells[i] \in Nat
      <4> DEFINE T == mags.times
                 F == mags.freqs
                 p == <<i \div F, i % F>>
      <4>1. T \in Nat \ {0} /\ F \in Nat \ {0} /\ i \in 0..(T * F - 1)
        BY <2>3 DEF Shaped
      <4> HIDE DEF T, F
      <4>2. i \div F \in 0..(T - 1) /\ i % F \in 0..(F - 1) /\ i = (i \div F) * F + (i % F)
        BY <4>1, IndexCell
      <4>3. p \in Cells(mags) /\ p[1] * F + p[2] = i
        BY <4>2 DEF Cells, T, F
      <4> HIDE DEF p
      <4>4. CellAt(mags, p) = mags.cells[i]
        BY <4>3 DEF CellAt, At, F
      <4> QED BY <2>3, <2>5, <4>3, <4>4
    <3>2. mags.cells = [i \in 0..(mags.times * mags.freqs - 1) |-> mags.cells[i]]
      BY <2>3 DEF Shaped
    <3> QED BY <2>3, <3>1, <3>2 DEF Shaped
  <2>9. ASSUME NEW p \in Cells(g) PROVE CellAt(k, p) = ToComplex(CellAt(h, p))
    <3> DEFINE x == CellAt(g, p)
               v == CellAt(z, p)
               l == Lifted(mags, c, p[1], p[2])
    <3>1. x \in Polar /\ x.mag \in Nat /\ v = ToComplex(x) /\ v \in Int
      BY <1>1, Conversions DEF Unsigned
    <3>2. p[1] \in 0..(mags.times - 1) /\ p[2] \in 0..(mags.freqs - 1)
      BY <2>3 DEF Cells
    <3>3. l \in Int
      BY <2>3, <3>2, LiftedType
    <3>4. CellAt(h, p) = [x EXCEPT !.mag = l] /\ CellAt(k, p) = IF v < 0 THEN -l ELSE l
      BY <1>1, <2>1, <2>2, <2>7 DEF Relight
    <3>5. ASSUME x.mag = 0, KeepsDark(c) PROVE l = 0
      <4>1. At(mags, p[1], p[2]) = 0
        BY <2>3, <3>5 DEF CellAt
      <4> QED BY <2>8, <3>2, <3>5, <4>1, DarkStaysDark DEF KeepsDark
    <3>6. Plain(g) => x = ToPolar(ToComplex(x))
      BY DEF Plain
    <3> HIDE DEF x, v, l
    <3>7. ToComplex(CellAt(h, p)) = IF x.phase = 0 THEN l ELSE -l
      BY <3>1, <3>3, <3>4 DEF ToComplex, Polar
    <3>8. (v < 0 <=> x.phase = 1) \/ l = 0
      <4>1. CASE Plain(g)
        BY <3>1, <3>6, <4>1, PlainSamples
      <4>2. CASE KeepsDark(c)
        <5>1. CASE x.mag = 0
          BY <3>5, <4>2, <5>1
        <5>2. CASE x.mag # 0
          BY <3>1, <5>2 DEF ToComplex, Polar
        <5> QED BY <5>1, <5>2
      <4> QED BY <1>4, <4>1, <4>2
    <3> QED BY <3>1, <3>3, <3>4, <3>7, <3>8 DEF Polar
  <2>10. h.form = "polar" /\ k.form = "complex" /\ Shaped(h, Polar) /\ Shaped(k, Int)
    BY <1>2, <2>1, <2>2 DEF Field, SameBins
  <2>11. k.times = h.times /\ SameFrame(h, k) /\ Cells(h) = Cells(g)
    BY <1>1, <2>1, <2>2 DEF SameBins, SameFrame, Cells
  <2>12. Forms(h, k)
    BY <2>9, <2>10, <2>11, FormsMeet
  <2> QED BY <2>12 DEF h, k
<1> QED BY <1>3, <1>4

-----------------------------------------------------------------------------
(* What a call computes.                                                     *)

Calls == [form : {"complex", "polar"}, grid : Grids, plan : Plans,
          quant : Quantizers, contrast : Contrasts]

Valid(c) == ValidShape(c.grid.times, c.grid.freqs)
AsComplex(c) == [c EXCEPT !.form = "complex"]

(* What the types of the constants make of a call's arguments.               *)
LEMMA CallTypes ==
  ASSUME NEW c \in Calls
  PROVE  /\ c.form \in {"complex", "polar"} /\ c.quant \in Quantizer /\ c.contrast \in Booster
         /\ Factor(c.plan.upT) \in Nat \ {0} /\ Factor(c.plan.upF) \in Nat \ {0}
         /\ Factor(c.plan.downT) \in Nat \ {0} /\ Factor(c.plan.downF) \in Nat \ {0}
         /\ Step(c.plan.step) \in Nat \ {0}
         /\ c.grid \in [times : Int, freqs : Int, cells : [0..(c.grid.times * c.grid.freqs - 1) -> Int]]
         /\ AsComplex(c) \in Calls /\ AsComplex(c).form = "complex" /\ AsComplex(c).grid = c.grid
         /\ AsComplex(c).plan = c.plan /\ AsComplex(c).quant = c.quant
         /\ AsComplex(c).contrast = c.contrast
<1>1. /\ c.form \in {"complex", "polar"} /\ c.grid \in Grids /\ c.plan \in Plans
      /\ c.quant \in Quantizers /\ c.contrast \in Contrasts
  BY DEF Calls
<1>2. c.quant \in Quantizer /\ c.contrast \in Booster
  BY <1>1, GridAssumption DEF Quantizer, Booster
<1>3. c.plan \in [upT : Int, upF : Int, downT : Int, downF : Int, energy : BOOLEAN, step : Nat]
  BY <1>1, GridAssumption
<1>4. \A n \in Int : Factor(n) \in Nat \ {0}
  BY DEF Factor, Larger
<1>5. \A n \in Nat : Step(n) \in Nat \ {0}
  BY GridAssumption DEF Step
<1>6. /\ Factor(c.plan.upT) \in Nat \ {0} /\ Factor(c.plan.upF) \in Nat \ {0}
      /\ Factor(c.plan.downT) \in Nat \ {0} /\ Factor(c.plan.downF) \in Nat \ {0}
      /\ Step(c.plan.step) \in Nat \ {0}
  BY <1>3, <1>4, <1>5
<1>7. c.grid \in [times : Int, freqs : Int, cells : [0..(c.grid.times * c.grid.freqs - 1) -> Int]]
  BY <1>1, GridAssumption
<1>8. /\ AsComplex(c) \in Calls /\ AsComplex(c).form = "complex" /\ AsComplex(c).grid = c.grid
      /\ AsComplex(c).plan = c.plan /\ AsComplex(c).quant = c.quant
      /\ AsComplex(c).contrast = c.contrast
  BY DEF AsComplex, Calls
<1> QED BY <1>1, <1>2, <1>6, <1>7, <1>8

(* A call loads its grid, which a polar call has in polar form.              *)
LEMMA LoadedField ==
  ASSUME NEW c \in Calls, Valid(c), NEW z, z = Loaded(AsComplex(c))
  PROVE  /\ Shaped(z, Int) /\ z.form = "complex" /\ z.times = c.grid.times /\ z.freqs = c.grid.freqs
         /\ z.tstep = Step(c.plan.step) /\ z.fstep = Step(c.plan.step)
         /\ z.cells = c.grid.cells
         /\ c.form = "complex" => Loaded(c) = z
         /\ c.form = "polar" => Loaded(c) = ComplexToPolar(z)
<1>1. z = [form |-> "complex", times |-> c.grid.times, freqs |-> c.grid.freqs,
           cells |-> c.grid.cells, tstep |-> Step(c.plan.step), fstep |-> Step(c.plan.step)]
  BY CallTypes DEF Loaded
<1>2. /\ z.form = "complex" /\ z.times = c.grid.times /\ z.freqs = c.grid.freqs
      /\ z.tstep = Step(c.plan.step) /\ z.fstep = Step(c.plan.step) /\ z.cells = c.grid.cells
  BY <1>1
<1>3. IsGrid(z)
  BY <1>1 DEF IsGrid
<1>4. /\ c.grid.times \in Nat \ {0} /\ c.grid.freqs \in Nat \ {0}
      /\ c.grid.cells \in [0..(c.grid.times * c.grid.freqs - 1) -> Int]
  <2>1. c.grid.times \in Int /\ c.grid.freqs \in Int
        /\ c.grid.cells \in [0..(c.grid.times * c.grid.freqs - 1) -> Int]
    BY CallTypes
  <2> QED BY <2>1 DEF Valid, ValidShape
<1>5. Shaped(z, Int)
  BY <1>2, <1>3, <1>4 DEF Shaped
<1>6. /\ c.form = "complex" => Loaded(c) = z
      /\ c.form = "polar" => Loaded(c) = ComplexToPolar(z)
  BY <1>1 DEF Loaded
<1> QED BY <1>2, <1>5, <1>6

\* When FormsAgree promises something.
Agreeable(c) == ~c.quant.on \/ ~c.contrast.on \/ KeepsDark(c.contrast)

(* Then the two calls end in two forms of one field.                         *)
LEMMA PipedForms ==
  ASSUME NEW c \in Calls, Valid(c), c.form = "polar", Agreeable(c)
  PROVE  Forms(Piped(c), Piped(AsComplex(c)))
<1> DEFINE cc == AsComplex(c)
           z0 == Loaded(cc)
           z1 == Refined(z0, cc)
           z2 == Quantized(z1, cc.quant)
           z3 == Boosted(z2, cc.contrast)
           g0 == Loaded(c)
           g1 == Refined(g0, c)
           g2 == Quantized(g1, c.quant)
           g3 == Boosted(g2, c.contrast)
<1>1. /\ Factor(c.plan.upT) \in Nat \ {0} /\ Factor(c.plan.upF) \in Nat \ {0}
      /\ Factor(c.plan.downT) \in Nat \ {0} /\ Factor(c.plan.downF) \in Nat \ {0}
      /\ c.quant \in Quantizer /\ c.contrast \in Booster
      /\ cc.plan = c.plan /\ cc.quant = c.quant /\ cc.contrast = c.contrast
  BY CallTypes
<1>2. Forms(g0, z0) /\ Plain(g0)
  BY LoadedField, Unconverted
<1> HIDE DEF z0, g0, cc
<1>3. Forms(g1, z1) /\ Plain(g1)
  BY <1>1, <1>2, UpsampledForms DEF Refined
<1> HIDE DEF z1, g1
<1>4. Forms(g2, z2) /\ Unsigned(g2) /\ (~c.quant.on => Plain(g2))
  BY <1>1, <1>3, QuantizedForms
<1> HIDE DEF z2, g2
<1>5. Forms(g3, z3)
  <2>1. ~c.contrast.on \/ Plain(g2) \/ KeepsDark(c.contrast)
    BY <1>4 DEF Agreeable
  <2> QED BY <1>1, <1>4, <2>1, BoostedForms
<1> HIDE DEF z3, g3
<1>6. Forms(Coarsened(g3, c), Coarsened(z3, cc))
  BY <1>1, <1>5, DownsampledForms DEF Coarsened
<1> QED BY <1>6 DEF Piped, g3, z3, g2, z2, g1, z1, g0, z0, cc

-----------------------------------------------------------------------------
(* The steps of a call.                                                      *)

GridStages ==
  /\ pc \in {"start", "upsample", "quantize", "contrast", "downsample", "return", "returned"}
  /\ call \in Calls
  /\ pc \notin {"start", "returned"} => Valid(call)
  /\ pc # "returned" => result = None /\ buffer = Loaded(call).cells
  /\ pc = "upsample" => field = Loaded(call)
  /\ pc = "quantize" => field = Refined(Loaded(call), call)
  /\ pc = "contrast" => field = Quantized(Refined(Loaded(call), call), call.quant)
  /\ pc = "downsample" =>
       field = Boosted(Quantized(Refined(Loaded(call), call), call.quant), call.contrast)
  /\ pc = "return" => field = Piped(call)
  /\ pc = "returned" =>
       \/ result = 1 /\ Valid(call) /\ field = Piped(call) /\ SameShape(field, call)
            /\ buffer = field.cells
       \/ result = 0 /\ buffer = Loaded(call).cells

(* A call goes through the stages one by one and writes the caller's buffers *)
(* at the end, if at all.                                                    *)
LEMMA StagesKept ==
  GridSpec => []GridStages
<1>1. GridInit => GridStages
  BY DEF GridInit, GridStages, Calls
<1>2. GridStages /\ [GridNext]_gridVars => GridStages'
  <2> SUFFICES ASSUME GridStages, [GridNext]_gridVars PROVE GridStages'
    OBVIOUS
  <2> USE DEF GridStages
  <2>1. CASE Start
    BY <2>1 DEF Start, Valid, None
  <2>2. CASE Upsample
    BY <2>2 DEF Upsample, Apply
  <2>3. CASE Quantize
    BY <2>3 DEF Quantize, Apply
  <2>4. CASE Boost
    BY <2>4 DEF Boost, Apply
  <2>5. CASE Downsample
    BY <2>5 DEF Downsample, Apply, Piped
  <2>6. CASE Return
    BY <2>6 DEF Return
  <2>7. CASE UNCHANGED gridVars
    BY <2>7 DEF gridVars
  <2> QED BY <2>1, <2>2, <2>3, <2>4, <2>5, <2>6, <2>7 DEF GridNext
<1> QED BY <1>1, <1>2, PTL DEF GridSpec

(* Both entry points compute the same signal from the same signal wherever   *)
(* the contrast booster cannot lift a magnitude from zero, whatever grid,    *)
(* factors and configurations (ft_tools_cffi.cpp 76-173).                    *)
THEOREM FormsAlwaysAgree == GridSpec => []FormsAgree
<1>1. GridStages => FormsAgree
  <2> SUFFICES ASSUME GridStages, pc = "returned", result = 1, call.form = "polar", Agreeable(call)
               PROVE  Signal(buffer, "polar") = Piped(AsComplex(call)).cells
    BY DEF FormsAgree, Agreeable, KeepsDark, AsComplex
  <2>1. call \in Calls /\ Valid(call) /\ buffer = Piped(call).cells
    BY DEF GridStages
  <2>2. Forms(Piped(call), Piped(AsComplex(call)))
    BY <2>1, PipedForms
  <2> DEFINE g == Piped(call)
             z == Piped(AsComplex(call))
  <2>3. IsGrid(g) /\ z = PolarToComplex(g) /\ buffer = g.cells
    BY <2>1, <2>2 DEF Forms, Shaped
  <2> HIDE DEF g, z
  <2>4. z.cells = [i \in DOMAIN g.cells |-> ToComplex(g.cells[i])]
    BY <2>3 DEF PolarToComplex, IsGrid
  <2> QED BY <2>3, <2>4 DEF Signal, z
<1> QED BY <1>1, StagesKept, PTL

-----------------------------------------------------------------------------
(* The bins of the result.                                                   *)

(* One bin to a block is no change.                                          *)
LEMMA ByOne ==
  /\ \A n \in Int : n \div 1 = n /\ n % 1 = 0 /\ n * 1 = n
  /\ \A n \in Nat \ {0} : Blocks(n, 1) = n
<1>1. \A n \in Int : n \div 1 = n /\ n % 1 = 0 /\ n * 1 = n
  OBVIOUS
<1>2. ASSUME NEW n \in Nat \ {0} PROVE Blocks(n, 1) = n
  <2>1. n + 1 - 1 = n /\ n \in Int
    OBVIOUS
  <2> QED BY <1>1, <2>1 DEF Blocks
<1> QED BY <1>1, <1>2

(* The bins a refinement makes, ...                                          *)
LEMMA UpsampledField ==
  ASSUME NEW g, Field(g), g.tstep \in Nat, g.fstep \in Nat,
         NEW ut \in Nat \ {0}, NEW uf \in Nat \ {0}, NEW h, h = Upsampled(g, ut, uf)
  PROVE  /\ Field(h) /\ h.form = g.form /\ h.times = g.times * ut /\ h.freqs = g.freqs * uf
         /\ h.tstep = g.tstep \div ut /\ h.fstep = g.fstep \div uf
<1>1. g.times \in Nat \ {0} /\ g.freqs \in Nat \ {0}
  BY DEF Field, Shaped
<1>2. CASE ut <= 1 /\ uf <= 1
  <2>1. ut = 1 /\ uf = 1 /\ h = g
    BY <1>2 DEF Upsampled
  <2> QED BY <1>1, <2>1, ByOne
<1>3. CASE ~(ut <= 1 /\ uf <= 1) /\ g.form = "complex"
  <2>1. h = UpsampledComplex(g, ut, uf) /\ Shaped(g, Int)
    BY <1>3 DEF Upsampled, Field
  <2> QED BY <1>3, <2>1, UpsampledCells DEF Field
<1>4. CASE ~(ut <= 1 /\ uf <= 1) /\ g.form = "polar"
  <2> DEFINE z == PolarToComplex(g)
             k == UpsampledComplex(z, ut, uf)
  <2>1. h = ComplexToPolar(k)
    BY <1>4 DEF Upsampled
  <2>2. Shaped(z, Int) /\ z.times = g.times /\ SameFrame(g, z)
    BY <1>4, PolarToComplexCells DEF Field
  <2> HIDE DEF z
  <2>3. /\ Shaped(k, Int) /\ k.times = z.times * ut /\ k.freqs = z.freqs * uf
        /\ k.tstep = z.tstep \div ut /\ k.fstep = z.fstep \div uf
    BY <2>2, UpsampledCells
  <2> HIDE DEF k
  <2>4. Shaped(h, Polar) /\ h.form = "polar" /\ h.times = k.times /\ SameFrame(k, h)
    BY <2>1, <2>3, ComplexToPolarCells
  <2> QED BY <1>4, <2>2, <2>3, <2>4 DEF Field, SameFrame
<1> QED BY <1>2, <1>3, <1>4 DEF Field

(* ... and those a coarsening does.                                          *)
LEMMA DownsampledField ==
  ASSUME NEW g, Field(g), g.tstep \in Nat, g.fstep \in Nat,
         NEW dt \in Nat \ {0}, NEW df \in Nat \ {0}, NEW energy, NEW h, h = Downsampled(g, dt, df, energy)
  PROVE  /\ Field(h) /\ h.form = g.form
         /\ h.times = Blocks(g.times, dt) /\ h.freqs = Blocks(g.freqs, df)
         /\ h.tstep = g.tstep * dt /\ h.fstep = g.fstep * df
<1>1. g.times \in Nat \ {0} /\ g.freqs \in Nat \ {0}
  BY DEF Field, Shaped
<1>2. CASE dt <= 1 /\ df <= 1
  <2>1. dt = 1 /\ df = 1 /\ h = g
    BY <1>2 DEF Downsampled
  <2> QED BY <1>1, <2>1, ByOne
<1>3. CASE ~(dt <= 1 /\ df <= 1) /\ g.form = "complex"
  <2>1. h = DownsampledComplex(g, dt, df, energy) /\ Shaped(g, Int)
    BY <1>3 DEF Downsampled, Field
  <2> QED BY <1>3, <2>1, DownsampledCells DEF Field
<1>4. CASE ~(dt <= 1 /\ df <= 1) /\ g.form = "polar"
  <2> DEFINE z == PolarToComplex(g)
             k == DownsampledComplex(z, dt, df, energy)
  <2>1. h = ComplexToPolar(k)
    BY <1>4 DEF Downsampled
  <2>2. Shaped(z, Int) /\ z.times = g.times /\ SameFrame(g, z)
    BY <1>4, PolarToComplexCells DEF Field
  <2> HIDE DEF z
  <2>3. /\ Shaped(k, Int) /\ k.times = Blocks(z.times, dt) /\ k.freqs = Blocks(z.freqs, df)
        /\ k.tstep = z.tstep * dt /\ k.fstep = z.fstep * df
    BY <2>2, DownsampledCells
  <2> HIDE DEF k
  <2>4. Shaped(h, Polar) /\ h.form = "polar" /\ h.times = k.times /\ SameFrame(k, h)
    BY <2>1, <2>3, ComplexToPolarCells
  <2> QED BY <1>4, <2>2, <2>3, <2>4 DEF Field, SameFrame
<1> QED BY <1>2, <1>3, <1>4 DEF Field

(* A call starts with a field on the caller's bins.                          *)
LEMMA LoadedIsField ==
  ASSUME NEW c \in Calls, Valid(c), NEW g, g = Loaded(c)
  PROVE  /\ Field(g) /\ g.form = c.form /\ g.times = c.grid.times /\ g.freqs = c.grid.freqs
         /\ g.tstep = Step(c.plan.step) /\ g.fstep = Step(c.plan.step)
         /\ g.times \in Nat \ {0} /\ g.freqs \in Nat \ {0}
<1> DEFINE z == Loaded(AsComplex(c))
<1>1. /\ Shaped(z, Int) /\ z.form = "complex" /\ z.times = c.grid.times /\ z.freqs = c.grid.freqs
      /\ z.tstep = Step(c.plan.step) /\ z.fstep = Step(c.plan.step)
      /\ c.form = "complex" => g = z
      /\ c.form = "polar" => g = ComplexToPolar(z)
  BY LoadedField
<1> HIDE DEF z
<1>2. c.form = "complex" \/ c.form = "polar"
  BY CallTypes
<1>3. Field(g) /\ g.form = c.form /\ g.times = z.times /\ SameFrame(z, g)
  <2>1. CASE c.form = "complex"
    BY <1>1, <2>1 DEF Field, SameFrame
  <2>2. CASE c.form = "polar"
    <3>1. Shaped(g, Polar) /\ g.form = "polar" /\ g.times = z.times /\ SameFrame(z, g)
      BY <1>1, <2>2, ComplexToPolarCells
    <3> QED BY <2>2, <3>1 DEF Field
  <2> QED BY <1>2, <2>1, <2>2
<1> QED BY <1>1, <1>3 DEF SameFrame, Shaped

(* The stages of a call are fields, of shapes its factors make.              *)
LEMMA PipedField ==
  ASSUME NEW c \in Calls, Valid(c),
         NEW g, g = Boosted(Quantized(Refined(Loaded(c), c), c.quant), c.contrast)
  PROVE  /\ Field(g) /\ g.form = c.form
         /\ g.times = c.grid.times * Factor(c.plan.upT) /\ g.freqs = c.grid.freqs * Factor(c.plan.upF)
         /\ g.tstep = Step(c.plan.step) \div Factor(c.plan.upT) /\ g.tstep \in Nat
         /\ g.fstep = Step(c.plan.step) \div Factor(c.plan.upF) /\ g.fstep \in Nat
<1> DEFINE g0 == Loaded(c)
           g1 == Refined(g0, c)
           g2 == Quantized(g1, c.quant)
           ut == Factor(c.plan.upT)
           uf == Factor(c.plan.upF)
<1>1. ut \in Nat \ {0} /\ uf \in Nat \ {0} /\ c.quant \in Quantizer /\ c.contrast \in Booster
      /\ Step(c.plan.step) \in Nat
  BY CallTypes
<1>2. /\ Field(g0) /\ g0.form = c.form /\ g0.times = c.grid.times /\ g0.freqs = c.grid.freqs
      /\ g0.tstep = Step(c.plan.step) /\ g0.fstep = Step(c.plan.step)
  BY LoadedIsField
<1> HIDE DEF g0, ut, uf
<1>3. /\ Field(g1) /\ g1.form = g0.form /\ g1.times = g0.times * ut /\ g1.freqs = g0.freqs * uf
      /\ g1.tstep = g0.tstep \div ut /\ g1.fstep = g0.fstep \div uf
  BY <1>1, <1>2, UpsampledField DEF Refined, ut, uf
<1> HIDE DEF g1
<1>4. Field(g2) /\ SameBins(g1, g2)
  BY <1>1, <1>3, QuantizedCells
<1> HIDE DEF g2
<1>5. Field(g) /\ SameBins(g2, g)
  BY <1>1, <1>4, BoostedCells DEF g2, g1, g0
<1>6. Step(c.plan.step) \div ut \in Nat /\ Step(c.plan.step) \div uf \in Nat
  BY <1>1, Division
<1> QED BY <1>2, <1>3, <1>4, <1>5, <1>6 DEF SameBins, SameFrame, ut, uf

(* Refined by one factor and coarsened by another, bins stay in their span   *)
(* if there are as many as before.                                           *)
LEMMA BinsInSpan ==
  ASSUME NEW n \in Nat \ {0}, NEW u \in Nat \ {0}, NEW d \in Nat \ {0}, NEW s \in Nat \ {0},
         Blocks(n * u, d) = n
  PROVE  (n - 1) * ((s \div u) * d) < n * s
<1> DEFINE r == s \div u
<1>1. r \in Nat /\ u * r <= s
  <2>1. r \in Nat /\ s % u \in 0..(u - 1) /\ s = u * r + (s % u)
    BY Division
  <2> HIDE DEF r
  <2> QED BY <2>1
<1> HIDE DEF r
<1>2. n * u \in Nat \ {0} /\ n - 1 \in 0..(n - 1)
  OBVIOUS
<1>3. (n - 1) * d \in 0..(n * u - 1)
  BY <1>2, BlocksBegin
<1> DEFINE a == (n - 1) * d
           b == n * u
<1>4. a \in Nat /\ b \in Nat /\ a < b
  BY <1>2, <1>3
<1>5. (n - 1) * (r * d) = a * r /\ n * (u * r) = b * r
  <2>1. \A x, y, z \in Int : x * (y * z) = (x * z) * y /\ x * (z * y) = (x * z) * y
    OBVIOUS
  <2> QED BY <1>1, <2>1
<1>6. n * (u * r) <= n * s
  BY <1>1
<1> HIDE DEF a, b
<1>7. CASE r = 0
  <2>1. a * r = 0 /\ n * s > 0
    BY <1>4, <1>7
  <2> QED BY <1>5, <2>1 DEF r
<1>8. CASE r > 0
  <2>1. a * r < b * r
    <3>1. r \in Nat \ {0} /\ b - a \in Nat \ {0}
      BY <1>1, <1>4, <1>8
    <3>2. (b - a) * r \in Nat \ {0} /\ (b - a) * r = b * r - a * r
      BY <1>4, <3>1
    <3> QED BY <1>4, <3>1, <3>2
  <2>2. a * r \in Int /\ b * r \in Int /\ n * s \in Int
    BY <1>1, <1>4
  <2>3. a * r < n * s
    BY <1>5, <1>6, <2>1, <2>2
  <2> QED BY <1>5, <2>3 DEF r
<1> QED BY <1>1, <1>7, <1>8

(* A call that succeeds hands back a signal on the caller's grid, as many    *)
(* bins that start within the span the caller's bins covered, for any        *)
(* factors, matching or not, and one that fails hands back what it was given *)
(* (ft_tools_cffi.cpp 66-173).                                               *)
THEOREM CallerGetsItsGrid == GridSpec => []OnTheCallersGrid
<1>1. GridStages => OnTheCallersGrid
  <2> SUFFICES ASSUME GridStages, pc = "returned", result = 1
               PROVE  /\ DOMAIN buffer = DOMAIN call.grid.cells
                      /\ (call.grid.times - 1) * field.tstep < call.grid.times * Step(call.plan.step)
                      /\ (call.grid.freqs - 1) * field.fstep < call.grid.freqs * Step(call.plan.step)
    BY DEF OnTheCallersGrid, GridStages
  <2>1. /\ call \in Calls /\ Valid(call) /\ buffer = field.cells /\ field = Piped(call)
        /\ SameShape(field, call)
    BY DEF GridStages
  <2> DEFINE g == Boosted(Quantized(Refined(Loaded(call), call), call.quant), call.contrast)
             dt == Factor(call.plan.downT)
             df == Factor(call.plan.downF)
             ut == Factor(call.plan.upT)
             uf == Factor(call.plan.upF)
             s == Step(call.plan.step)
             T == call.grid.times
             F == call.grid.freqs
  <2>2. /\ ut \in Nat \ {0} /\ uf \in Nat \ {0} /\ dt \in Nat \ {0} /\ df \in Nat \ {0}
        /\ s \in Nat \ {0}
    BY <2>1, CallTypes
  <2>3. T \in Nat \ {0} /\ F \in Nat \ {0} /\ DOMAIN call.grid.cells = 0..(T * F - 1)
    <3>1. T \in Nat \ {0} /\ F \in Nat \ {0}
      BY <2>1, LoadedIsField
    <3>2. call.grid.cells \in [0..(T * F - 1) -> Int]
      BY <2>1, CallTypes
    <3> QED BY <3>1, <3>2
  <2>4. /\ Field(g) /\ g.times = T * ut /\ g.freqs = F * uf
        /\ g.tstep = s \div ut /\ g.fstep = s \div uf /\ g.tstep \in Nat /\ g.fstep \in Nat
    BY <2>1, PipedField
  <2>5. field = Downsampled(g, dt, df, call.plan.energy)
    BY <2>1 DEF Piped, Coarsened
  <2> HIDE DEF g, dt, df, ut, uf, s
  <2>6. /\ Field(field) /\ field.times = Blocks(g.times, dt) /\ field.freqs = Blocks(g.freqs, df)
        /\ field.tstep = g.tstep * dt /\ field.fstep = g.fstep * df
    BY <2>2, <2>4, <2>5, DownsampledField
  <2>7. field.times = T /\ field.freqs = F
    BY <2>1 DEF SameShape
  <2>8. DOMAIN buffer = 0..(T * F - 1)
    BY <2>1, <2>6, <2>7 DEF Field, Shaped
  <2> HIDE DEF T, F
  <2>9. /\ (T - 1) * ((s \div ut) * dt) < T * s
        /\ (F - 1) * ((s \div uf) * df) < F * s
    <3>1. Blocks(T * ut, dt) = T /\ Blocks(F * uf, df) = F
      BY <2>4, <2>6, <2>7
    <3> QED BY ONLY <2>2, <2>3, <3>1, BinsInSpan
  <2> QED BY <2>3, <2>4, <2>6, <2>8, <2>9 DEF T, F, s
<1> QED BY <1>1, StagesKept, PTL

-----------------------------------------------------------------------------
(* Fields that are made of the rows of another.                              *)

\* Row t of h is row r[t] of g.
RowMap(g, h, r) == r \in [0..(h.times - 1) -> 0..(g.times - 1)]

Rerowed(g, h, r) ==
  /\ Field(g) /\ Field(h) /\ h.form = g.form /\ SameFrame(g, h) /\ RowMap(g, h, r)
  /\ \A p \in Cells(h) : CellAt(h, p) = CellAt(g, <<r[p[1]], p[2]>>)

\* One row, or all of them in reverse.
OneRow(h) == h.times = 1
Reversing(g, h, r) == h.times = g.times /\ \A t \in 0..(g.times - 1) : r[t] = g.times - 1 - t

RowCells(g, h, r) ==
  /\ Shaped(g, Int) /\ Shaped(h, Int) /\ h.freqs = g.freqs /\ RowMap(g, h, r)
  /\ \A t \in 0..(h.times - 1) : \A f \in 0..(h.freqs - 1) : At(h, t, f) = At(g, r[t], f)

\* Blocks of rows that correspond.
SameRows(g, h, r, rows, others) ==
  \/ OneRow(h) /\ 0 \in others /\ \A t \in 0..(g.times - 1) : t \in rows <=> t = r[0]
  \/ Reversing(g, h, r) /\ \A t \in 0..(g.times - 1) : t \in others <=> r[t] \in rows

(* Rows that are the same have the same total.                               *)
LEMMA SameRowTotal ==
  ASSUME NEW g, NEW h, NEW r, RowCells(g, h, r), NEW t \in 0..(h.times - 1), NEW cols
  PROVE  RowTotal(h, t, cols) = RowTotal(g, r[t], cols)
<1> DEFINE a == [f \in 0..(h.freqs - 1) |-> IF f \in cols THEN At(h, t, f) ELSE 0]
           b == [f \in 0..(g.freqs - 1) |-> IF f \in cols THEN At(g, r[t], f) ELSE 0]
<1>1. h.freqs \in Nat /\ h.freqs = g.freqs
  BY DEF RowCells, Shaped
<1>2. \A f \in 0..(h.freqs - 1) : a[f] = b[f]
  BY <1>1 DEF RowCells
<1> HIDE DEF a, b
<1>3. Added(a, h.freqs) = Added(b, h.freqs)
  BY <1>1, <1>2, AddedSame
<1> QED BY <1>1, <1>3 DEF RowTotal, a, b

(* Corresponding blocks have the same total, ...                             *)
LEMMA SameTotal ==
  ASSUME NEW g, NEW h, NEW r, RowCells(g, h, r), NEW rows, NEW others, NEW cols,
         SameRows(g, h, r, rows, others)
  PROVE  Total(h, others, cols) = Total(g, rows, cols)
<1> DEFINE a == [t \in 0..(h.times - 1) |-> IF t \in others THEN RowTotal(h, t, cols) ELSE 0]
           b == [t \in 0..(g.times - 1) |-> IF t \in rows THEN RowTotal(g, t, cols) ELSE 0]
<1>1. g.times \in Nat \ {0} /\ h.times \in Nat \ {0}
  BY DEF RowCells, Shaped
<1>2. \A t \in 0..(h.times - 1) : RowTotal(h, t, cols) = RowTotal(g, r[t], cols)
  BY SameRowTotal
<1>3. \A t \in 0..(g.times - 1) : RowTotal(g, t, cols) \in Int
  BY RowTotalType DEF RowCells
<1>4. \A t \in 0..(h.times - 1) : r[t] \in 0..(g.times - 1)
  BY DEF RowCells, RowMap
<1>5. Total(h, others, cols) = Added(a, h.times) /\ Total(g, rows, cols) = Added(b, g.times)
  BY TotalByRows
<1>6. CASE OneRow(h) /\ 0 \in others /\ \A t \in 0..(g.times - 1) : t \in rows <=> t = r[0]
  <2> DEFINE j == r[0]
  <2>1. h.times = 1 /\ 0 \in 0..(h.times - 1) /\ j \in 0..(g.times - 1)
    BY <1>4, <1>6 DEF OneRow
  <2>2. a[0] = RowTotal(g, j, cols) /\ a[0] \in Int
    BY <1>2, <1>3, <1>6, <2>1
  <2>3. b[j] = RowTotal(g, j, cols) /\ \A t \in 0..(g.times - 1) : t # j => b[t] = 0
    BY <1>6, <2>1
  <2> HIDE DEF a, b, j
  <2>4. Added(a, h.times) = a[0]
    <3>1. \A t \in 0..(h.times - 1) : t # 0 => a[t] = 0
      BY <2>1
    <3> QED BY <1>1, <2>1, <2>2, <3>1, AddedOne
  <2>5. Added(b, g.times) = b[j]
    <3>1. b[j] \in Int /\ g.times \in Nat
      BY <1>1, <2>2, <2>3
    <3> QED BY <2>1, <2>3, <3>1, AddedOne
  <2> QED BY <1>5, <2>2, <2>3, <2>4, <2>5
<1>7. CASE Reversing(g, h, r) /\ \A t \in 0..(g.times - 1) : t \in others <=> r[t] \in rows
  <2> DEFINE n == g.times
  <2>1. h.times = n /\ \A t \in 0..(n - 1) : r[t] = n - 1 - t
    BY <1>7 DEF Reversing
  <2>2. \A t \in 0..(n - 1) : b[t] \in Int
    BY <1>3
  <2>3. ASSUME NEW t \in 0..(n - 1) PROVE a[t] = b[n - 1 - t]
    <3>1. r[t] = n - 1 - t /\ r[t] \in 0..(n - 1)
      BY <1>4, <2>1
    <3>2. RowTotal(h, t, cols) = RowTotal(g, r[t], cols)
      BY <1>2, <2>1
    <3>3. t \in others <=> r[t] \in rows
      BY <1>7
    <3>4. a[t] = IF t \in others THEN RowTotal(h, t, cols) ELSE 0
      BY <2>1
    <3>5. b[r[t]] = IF r[t] \in rows THEN RowTotal(g, r[t], cols) ELSE 0
      BY <3>1
    <3> QED BY <3>1, <3>2, <3>3, <3>4, <3>5
  <2> HIDE DEF a, b
  <2>4. n \in Nat
    BY <1>1
  <2> HIDE DEF n
  <2>5. Added(a, n) = Added(b, n)
    BY <2>2, <2>3, <2>4, AddedBackwards
  <2> QED BY <1>5, <2>1, <2>5 DEF n
<1> QED BY <1>6, <1>7 DEF SameRows

(* ... and the same mean.                                                    *)
LEMMA SameMean ==
  ASSUME NEW g, NEW h, NEW r, RowCells(g, h, r), NEW rows, NEW others, NEW cols,
         SameRows(g, h, r, rows, others)
  PROVE  Mean(h, others, cols) = Mean(g, rows, cols)
<1> DEFINE a == Ones(g)
           b == Ones(h)
<1>1. /\ Shaped(a, Nat) /\ a.times = g.times /\ a.freqs = g.freqs
      /\ \A t \in 0..(g.times - 1) : \A f \in 0..(g.freqs - 1) : At(a, t, f) = 1
  BY OnesCells DEF RowCells
<1>2. /\ Shaped(b, Nat) /\ b.times = h.times /\ b.freqs = h.freqs
      /\ \A t \in 0..(h.times - 1) : \A f \in 0..(h.freqs - 1) : At(b, t, f) = 1
  BY OnesCells DEF RowCells
<1> HIDE DEF a, b
<1>3. RowMap(g, h, r) /\ h.freqs = g.freqs
  BY DEF RowCells
<1>4. RowCells(a, b, r)
  <2>1. Shaped(a, Int) /\ Shaped(b, Int)
    BY <1>1, <1>2 DEF Shaped
  <2>2. RowMap(a, b, r)
    BY <1>1, <1>2, <1>3 DEF RowMap
  <2>3. ASSUME NEW t \in 0..(b.times - 1), NEW f \in 0..(b.freqs - 1)
        PROVE  At(b, t, f) = At(a, r[t], f)
    <3>1. r[t] \in 0..(g.times - 1)
      BY <1>2, <1>3 DEF RowMap
    <3> QED BY <1>1, <1>2, <1>3, <3>1
  <2> QED BY <1>1, <1>2, <1>3, <2>1, <2>2, <2>3 DEF RowCells
<1>5. SameRows(a, b, r, rows, others)
  BY <1>1, <1>2 DEF SameRows, OneRow, Reversing
<1>6. Total(b, others, cols) = Total(a, rows, cols)
  BY <1>4, <1>5, SameTotal
<1>7. Total(h, others, cols) = Total(g, rows, cols)
  BY SameTotal
<1> QED BY <1>6, <1>7, MeanByOnes DEF a, b

(* The row a cell is taken from.                                             *)
LEMMA RowTaken ==
  ASSUME NEW g, NEW h, NEW r, Rerowed(g, h, r), NEW p \in Cells(h)
  PROVE  <<r[p[1]], p[2]>> \in Cells(g) /\ CellAt(h, p) = CellAt(g, <<r[p[1]], p[2]>>)
<1>1. p[1] \in 0..(h.times - 1) /\ p[2] \in 0..(h.freqs - 1) /\ h.freqs = g.freqs
  BY DEF Cells, Rerowed, SameFrame
<1>2. r[p[1]] \in 0..(g.times - 1)
  BY <1>1 DEF Rerowed, RowMap
<1>3. <<r[p[1]], p[2]>> \in Cells(g)
  BY <1>1, <1>2 DEF Cells
<1> QED BY <1>3 DEF Rerowed

(* A step that finds a cell from the cells of one row leaves rows in place.  *)
LEMMA RowsInPlace ==
  ASSUME NEW g, NEW h, NEW r, Rerowed(g, h, r),
         NEW a, NEW b, Field(a), Field(b), b.form = a.form, SameFrame(a, b),
         a.times = g.times, b.times = h.times,
         \A p \in Cells(b) : CellAt(b, p) = CellAt(a, <<r[p[1]], p[2]>>)
  PROVE  Rerowed(a, b, r)
<1>1. RowMap(a, b, r)
  BY DEF Rerowed, RowMap
<1> QED BY <1>1 DEF Rerowed

(* Conversions do.                                                           *)
LEMMA UnpolarRows ==
  ASSUME NEW g, NEW h, NEW r, Rerowed(g, h, r), g.form = "polar",
         NEW a, a = PolarToComplex(g), NEW b, b = PolarToComplex(h)
  PROVE  Rerowed(a, b, r) /\ a.form = "complex" /\ a.times = g.times /\ b.times = h.times
<1>1. Shaped(g, Polar) /\ Shaped(h, Polar) /\ SameFrame(g, h)
  BY DEF Rerowed, Field
<1>2. /\ Shaped(a, Int) /\ a.form = "complex" /\ a.times = g.times /\ SameFrame(g, a)
      /\ Cells(a) = Cells(g) /\ \A p \in Cells(g) : CellAt(a, p) = ToComplex(CellAt(g, p))
  BY <1>1, PolarToComplexCells
<1>3. /\ Shaped(b, Int) /\ b.form = "complex" /\ b.times = h.times /\ SameFrame(h, b)
      /\ Cells(b) = Cells(h) /\ \A p \in Cells(h) : CellAt(b, p) = ToComplex(CellAt(h, p))
  BY <1>1, PolarToComplexCells
<1>4. ASSUME NEW p \in Cells(b) PROVE CellAt(b, p) = CellAt(a, <<r[p[1]], p[2]>>)
  <2>1. <<r[p[1]], p[2]>> \in Cells(g) /\ CellAt(h, p) = CellAt(g, <<r[p[1]], p[2]>>)
    BY <1>3, RowTaken
  <2> QED BY <1>2, <1>3, <2>1
<1>5. Field(a) /\ Field(b) /\ SameFrame(a, b)
  BY <1>1, <1>2, <1>3 DEF Field, SameFrame
<1> QED BY <1>2, <1>3, <1>4, <1>5, RowsInPlace

(* They do the other way round, too.                                         *)
LEMMA PolarRows ==
  ASSUME NEW g, NEW h, NEW r, Rerowed(g, h, r), g.form = "complex",
         NEW a, a = ComplexToPolar(g), NEW b, b = ComplexToPolar(h)
  PROVE  Rerowed(a, b, r) /\ a.form = "polar" /\ a.times = g.times /\ b.times = h.times
<1>1. Shaped(g, Int) /\ Shaped(h, Int) /\ SameFrame(g, h)
  BY DEF Rerowed, Field
<1>2. /\ Shaped(a, Polar) /\ a.form = "polar" /\ a.times = g.times /\ SameFrame(g, a)
      /\ Cells(a) = Cells(g) /\ \A p \in Cells(g) : CellAt(a, p) = ToPolar(CellAt(g, p))
  BY <1>1, ComplexToPolarCells
<1>3. /\ Shaped(b, Polar) /\ b.form = "polar" /\ b.times = h.times /\ SameFrame(h, b)
      /\ Cells(b) = Cells(h) /\ \A p \in Cells(h) : CellAt(b, p) = ToPolar(CellAt(h, p))
  BY <1>1, ComplexToPolarCells
<1>4. ASSUME NEW p \in Cells(b) PROVE CellAt(b, p) = CellAt(a, <<r[p[1]], p[2]>>)
  <2>1. <<r[p[1]], p[2]>> \in Cells(g) /\ CellAt(h, p) = CellAt(g, <<r[p[1]], p[2]>>)
    BY <1>3, RowTaken
  <2> QED BY <1>2, <1>3, <2>1
<1>5. Field(a) /\ Field(b) /\ SameFrame(a, b)
  BY <1>1, <1>2, <1>3 DEF Field, SameFrame
<1> QED BY <1>2, <1>3, <1>4, <1>5, RowsInPlace

(* Refining frequencies alone does.                                          *)
LEMMA UpCellOfRow ==
  ASSUME NEW g, Shaped(g, Int), NEW uf \in Nat \ {0},
         NEW t \in 0..(g.times - 1), NEW f \in 0..(g.freqs * uf - 1)
  PROVE  /\ f \div uf \in 0..(g.freqs - 1) /\ Smaller(f \div uf + 1, g.freqs - 1) \in 0..(g.freqs - 1)
         /\ UpCell(g, 1, uf, t, f) =
              Lerp(At(g, t, f \div uf), At(g, t, Smaller(f \div uf + 1, g.freqs - 1)), f % uf, uf)
<1> DEFINE T == g.times
           F == g.freqs
           t1 == Smaller(t + 1, T - 1)
           f0 == f \div uf
           f1 == Smaller(f0 + 1, F - 1)
<1>1. T \in Nat \ {0} /\ F \in Nat \ {0} /\ t \in 0..(T - 1) /\ f \in 0..(F * uf - 1)
  BY DEF Shaped
<1> HIDE DEF T, F
<1>2. f0 \in 0..(F - 1)
  BY <1>1, IndexCell
<1> HIDE DEF f0
<1>3. t1 \in 0..(T - 1) /\ f1 \in 0..(F - 1)
  BY <1>1, <1>2 DEF Smaller
<1> HIDE DEF t1, f1
<1>4. /\ At(g, t, f0) \in Int /\ At(g, t1, f0) \in Int
      /\ At(g, t, f1) \in Int /\ At(g, t1, f1) \in Int
  BY <1>1, <1>2, <1>3, AtType DEF T, F
<1>5. \A a, b \in Int : Lerp(a, b, 0, 1) = a
  BY DEF Lerp
<1>6. t \div 1 = t /\ t % 1 = 0
  BY <1>1, ByOne
<1>7. UpCell(g, 1, uf, t, f) =
        Lerp(Lerp(At(g, t, f0), At(g, t1, f0), 0, 1), Lerp(At(g, t, f1), At(g, t1, f1), 0, 1), f % uf, uf)
  BY <1>6 DEF UpCell, f0, f1, t1, T, F
<1> QED BY <1>2, <1>3, <1>4, <1>5, <1>7 DEF f0, f1, F

(* So rows stay in place in the complex form, ...                            *)
LEMMA RefinedRows ==
  ASSUME NEW g, NEW h, NEW r, Rerowed(g, h, r), g.form = "complex", NEW uf \in Nat \ {0},
         NEW a, a = UpsampledComplex(g, 1, uf), NEW b, b = UpsampledComplex(h, 1, uf)
  PROVE  Rerowed(a, b, r) /\ a.form = "complex" /\ a.times = g.times /\ b.times = h.times
<1>1. Shaped(g, Int) /\ Shaped(h, Int) /\ SameFrame(g, h) /\ h.form = "complex" /\ RowMap(g, h, r)
  BY DEF Rerowed, Field
<1> DEFINE ut == 1
<1>u. ut \in Nat \ {0} /\ a = UpsampledComplex(g, ut, uf) /\ b = UpsampledComplex(h, ut, uf)
  OBVIOUS
<1> HIDE DEF ut
<1>2. /\ Shaped(a, Int) /\ a.form = "complex" /\ a.times = g.times * ut /\ a.freqs = g.freqs * uf
      /\ a.tstep = g.tstep \div ut /\ a.fstep = g.fstep \div uf
      /\ \A p \in Cells(a) : CellAt(a, p) = UpCell(g, ut, uf, p[1], p[2])
  <2>1. /\ Shaped(g, Int) /\ ut \in Nat \ {0} /\ uf \in Nat \ {0}
        /\ a = UpsampledComplex(g, ut, uf)
    BY <1>1, <1>u
  <2>2. /\ Shaped(a, Int) /\ a.form = g.form
        /\ a.times = g.times * ut /\ a.freqs = g.freqs * uf
        /\ a.tstep = g.tstep \div ut /\ a.fstep = g.fstep \div uf
    BY ONLY <2>1, UpsampledCells
  <2>3. \A p \in Cells(a) : CellAt(a, p) = UpCell(g, ut, uf, p[1], p[2])
    BY ONLY <2>1, UpsampledCells
  <2> QED BY <1>1, <2>2, <2>3
<1>3. /\ Shaped(b, Int) /\ b.form = "complex" /\ b.times = h.times * ut /\ b.freqs = h.freqs * uf
      /\ b.tstep = h.tstep \div ut /\ b.fstep = h.fstep \div uf
      /\ \A p \in Cells(b) : CellAt(b, p) = UpCell(h, ut, uf, p[1], p[2])
  <2>1. /\ Shaped(h, Int) /\ ut \in Nat \ {0} /\ uf \in Nat \ {0}
        /\ b = UpsampledComplex(h, ut, uf)
    BY <1>1, <1>u
  <2>2. /\ Shaped(b, Int) /\ b.form = h.form
        /\ b.times = h.times * ut /\ b.freqs = h.freqs * uf
        /\ b.tstep = h.tstep \div ut /\ b.fstep = h.fstep \div uf
    BY ONLY <2>1, UpsampledCells
  <2>3. \A p \in Cells(b) : CellAt(b, p) = UpCell(h, ut, uf, p[1], p[2])
    BY ONLY <2>1, UpsampledCells
  <2> QED BY <1>1, <2>2, <2>3
<1>4. a.times = g.times /\ b.times = h.times
  <2>1. a.times = g.times * ut /\ b.times = h.times * ut /\ g.times \in Int /\ h.times \in Int
    BY <1>1, <1>2, <1>3 DEF Shaped
  <2> QED BY <2>1 DEF ut
<1>5. Field(a) /\ Field(b) /\ SameFrame(a, b)
  BY <1>1, <1>2, <1>3 DEF Field, SameFrame
<1>6. ASSUME NEW p \in Cells(b) PROVE CellAt(b, p) = CellAt(a, <<r[p[1]], p[2]>>)
  <2> DEFINE t == p[1]
             f == p[2]
             s == r[t]
             f0 == f \div uf
             f1 == Smaller(f0 + 1, g.freqs - 1)
  <2>1. t \in 0..(h.times - 1) /\ f \in 0..(g.freqs * uf - 1) /\ h.freqs = g.freqs
    BY <1>1, <1>3, <1>4 DEF Cells, SameFrame
  <2>2. s \in 0..(g.times - 1)
    BY <1>1, <2>1 DEF RowMap
  <2>3. <<s, f>> \in Cells(a)
    BY <1>2, <1>4, <2>1, <2>2 DEF Cells
  <2>4. CellAt(b, p) = UpCell(h, 1, uf, t, f) /\ CellAt(a, <<s, f>>) = UpCell(g, 1, uf, s, f)
    BY <1>2, <1>3, <2>3 DEF ut
  <2> HIDE DEF t, f, s
  <2>5. /\ f0 \in 0..(g.freqs - 1) /\ f1 \in 0..(g.freqs - 1)
        /\ UpCell(g, 1, uf, s, f) = Lerp(At(g, s, f0), At(g, s, f1), f % uf, uf)
    BY <1>1, <2>1, <2>2, UpCellOfRow
  <2>6. UpCell(h, 1, uf, t, f) = Lerp(At(h, t, f0), At(h, t, f1), f % uf, uf)
    BY <1>1, <2>1, UpCellOfRow
  <2> HIDE DEF f0, f1
  <2>7. At(h, t, f0) = At(g, s, f0) /\ At(h, t, f1) = At(g, s, f1)
    <3>1. <<t, f0>> \in Cells(h) /\ <<t, f1>> \in Cells(h)
      BY <2>1, <2>5 DEF Cells
    <3>2. \A q \in Cells(h) : CellAt(h, q) = CellAt(g, <<r[q[1]], q[2]>>)
      BY DEF Rerowed
    <3>3. CellAt(h, <<t, f0>>) = CellAt(g, <<r[t], f0>>) /\ CellAt(h, <<t, f1>>) = CellAt(g, <<r[t], f1>>)
      BY <3>1, <3>2
    <3> QED BY <3>3 DEF CellAt, s
  <2> QED BY <2>4, <2>5, <2>6, <2>7 DEF t, f, s
<1> QED BY <1>2, <1>3, <1>4, <1>5, <1>6, RowsInPlace

(* ... and in either form.                                                   *)
LEMMA UpsampledRows ==
  ASSUME NEW g, NEW h, NEW r, Rerowed(g, h, r), NEW uf \in Nat \ {0},
         NEW a, a = Upsampled(g, 1, uf), NEW b, b = Upsampled(h, 1, uf)
  PROVE  Rerowed(a, b, r) /\ a.times = g.times /\ b.times = h.times
<1>1. h.form = g.form /\ g.form \in {"complex", "polar"}
  BY DEF Rerowed, Field
<1>2. CASE uf <= 1
  BY <1>2 DEF Upsampled
<1>3. CASE ~(uf <= 1) /\ g.form = "complex"
  <2>1. a = UpsampledComplex(g, 1, uf) /\ b = UpsampledComplex(h, 1, uf)
    BY <1>1, <1>3 DEF Upsampled
  <2> QED BY <1>3, <2>1, RefinedRows
<1>4. CASE ~(uf <= 1) /\ g.form = "polar"
  <2> DEFINE y == PolarToComplex(g)
             z == PolarToComplex(h)
             v == UpsampledComplex(y, 1, uf)
             w == UpsampledComplex(z, 1, uf)
  <2>1. a = ComplexToPolar(v) /\ b = ComplexToPolar(w)
    BY <1>1, <1>4 DEF Upsampled
  <2>2. Rerowed(y, z, r) /\ y.form = "complex" /\ y.times = g.times /\ z.times = h.times
    BY <1>4, UnpolarRows
  <2> HIDE DEF y, z
  <2>3. Rerowed(v, w, r) /\ v.form = "complex" /\ v.times = y.times /\ w.times = z.times
    BY <2>2, RefinedRows
  <2> HIDE DEF v, w
  <2>4. Rerowed(a, b, r) /\ a.times = v.times /\ b.times = w.times
    BY <2>1, <2>3, PolarRows
  <2> QED BY <2>2, <2>3, <2>4
<1> QED BY <1>1, <1>2, <1>3, <1>4

(* Quantizing does.                                                          *)
LEMMA QuantizedRows ==
  ASSUME NEW g, NEW h, NEW r, Rerowed(g, h, r), NEW q \in Quantizer,
         NEW a, a = Quantized(g, q), NEW b, b = Quantized(h, q)
  PROVE  Rerowed(a, b, r) /\ a.times = g.times /\ b.times = h.times
<1>1. Field(g) /\ Field(h) /\ h.form = g.form /\ SameFrame(g, h)
  BY DEF Rerowed
<1>2. /\ Field(a) /\ SameBins(g, a)
      /\ \A p \in Cells(g) :
           CellAt(a, p) = IF ~q.on \/ q.mix <= 0 THEN CellAt(g, p)
                          ELSE QuantizedCell(g.form, q, CellAt(g, p), g.fstep * p[2])
  BY <1>1, QuantizedCells
<1>3. /\ Field(b) /\ SameBins(h, b)
      /\ \A p \in Cells(h) :
           CellAt(b, p) = IF ~q.on \/ q.mix <= 0 THEN CellAt(h, p)
                          ELSE QuantizedCell(h.form, q, CellAt(h, p), h.fstep * p[2])
  BY <1>1, QuantizedCells
<1>4. Cells(b) = Cells(h) /\ a.times = g.times /\ b.times = h.times
  BY <1>2, <1>3 DEF SameBins, SameFrame, Cells
<1>5. b.form = a.form /\ SameFrame(a, b) /\ h.fstep = g.fstep
  BY <1>1, <1>2, <1>3 DEF SameBins, SameFrame
<1>6. ASSUME NEW p \in Cells(b) PROVE CellAt(b, p) = CellAt(a, <<r[p[1]], p[2]>>)
  <2> DEFINE o == <<r[p[1]], p[2]>>
  <2>1. o \in Cells(g) /\ CellAt(h, p) = CellAt(g, o) /\ o[2] = p[2] /\ p \in Cells(h)
    BY <1>4, RowTaken
  <2> HIDE DEF o
  <2>2. CellAt(a, o) = IF ~q.on \/ q.mix <= 0 THEN CellAt(g, o)
                       ELSE QuantizedCell(g.form, q, CellAt(g, o), g.fstep * p[2])
    BY <1>2, <2>1
  <2>3. CellAt(b, p) = IF ~q.on \/ q.mix <= 0 THEN CellAt(g, o)
                       ELSE QuantizedCell(g.form, q, CellAt(g, o), g.fstep * p[2])
    BY <1>1, <1>3, <1>5, <2>1
  <2> QED BY <2>2, <2>3 DEF o
<1> QED BY <1>2, <1>3, <1>4, <1>5, <1>6, RowsInPlace

(* So does boosting, if windows are one row high or rows are in reverse.     *)
LEMMA WindowsMeet ==
  ASSUME NEW g, NEW h, NEW r, RowCells(g, h, r), NEW k \in Int, NEW t \in 0..(h.times - 1),
         (OneRow(h) /\ k = 1) \/ Reversing(g, h, r)
  PROVE  SameRows(g, h, r, Around(r[t], g.times, k), Around(t, h.times, k))
<1>1. g.times \in Nat \ {0} /\ \A s \in 0..(h.times - 1) : r[s] \in 0..(g.times - 1)
  BY DEF RowCells, Shaped, RowMap
<1>2. CASE OneRow(h) /\ k = 1
  <2>1. t = 0 /\ h.times = 1 /\ 0 \in 0..(h.times - 1)
    BY <1>2 DEF OneRow
  <2>2. \A x, y \in Int : Within(x, y, 1) <=> x = y
    BY DEF Within, Magnitude
  <2>3. r[0] \in 0..(g.times - 1)
    BY <1>1, <2>1
  <2>4. 0 \in Around(t, h.times, k) /\ \A s \in 0..(g.times - 1) : s \in Around(r[t], g.times, k) <=> s = r[0]
    BY <1>2, <2>1, <2>2, <2>3 DEF Around
  <2> QED BY <1>2, <2>4 DEF SameRows
<1>3. CASE Reversing(g, h, r)
  <2> DEFINE n == g.times
  <2>1. h.times = n /\ \A s \in 0..(n - 1) : r[s] = n - 1 - s
    BY <1>3 DEF Reversing
  <2> HIDE DEF n
  <2>2. ASSUME NEW s \in 0..(n - 1) PROVE s \in Around(t, n, k) <=> r[s] \in Around(r[t], n, k)
    <3>1. r[s] = n - 1 - s /\ r[t] = n - 1 - t /\ r[s] \in 0..(n - 1) /\ n \in Nat
      BY <1>1, <2>1 DEF n
    <3>2. Magnitude(r[s] - r[t]) = Magnitude(s - t)
      BY <2>1, <3>1 DEF Magnitude
    <3>3. Within(r[s], r[t], k) <=> Within(s, t, k)
      BY <3>2 DEF Within
    <3> QED BY <3>1, <3>3 DEF Around
  <2> QED BY <1>3, <2>1, <2>2 DEF SameRows, n
<1> QED BY <1>2, <1>3

(* Then what is boosted depends on the row it is taken from only.            *)
LEMMA LiftedRows ==
  ASSUME NEW g, NEW h, NEW r, RowCells(g, h, r), NEW c \in Booster,
         (OneRow(h) /\ c.kt = 1) \/ Reversing(g, h, r),
         NEW t \in 0..(h.times - 1), NEW f \in 0..(h.freqs - 1)
  PROVE  Lifted(h, c, t, f) = Lifted(g, c, r[t], f)
<1>1. c.kt \in Int
  BY DEF Booster
<1>2. SameRows(g, h, r, Around(r[t], g.times, c.kt), Around(t, h.times, c.kt))
  BY <1>1, WindowsMeet
<1>3. \A cols : Mean(h, Around(t, h.times, c.kt), cols) = Mean(g, Around(r[t], g.times, c.kt), cols)
  BY <1>2, SameMean
<1>4. At(h, t, f) = At(g, r[t], f) /\ h.freqs = g.freqs
  BY DEF RowCells
<1>5. Lifted(h, c, t, f) =
        LET mean == Mean(h, Around(t, h.times, c.kt), Around(f, h.freqs, c.kf))
            boosted == mean + ((At(h, t, f) - mean) * (2 + c.contrast)) \div 2 + c.brightness
        IN  IF c.clamp THEN Larger(boosted, 0) ELSE boosted
  BY DEF Lifted, Around
<1>6. Lifted(g, c, r[t], f) =
        LET mean == Mean(g, Around(r[t], g.times, c.kt), Around(f, g.freqs, c.kf))
            boosted == mean + ((At(g, r[t], f) - mean) * (2 + c.contrast)) \div 2 + c.brightness
        IN  IF c.clamp THEN Larger(boosted, 0) ELSE boosted
  BY DEF Lifted, Around
<1> QED BY <1>3, <1>4, <1>5, <1>6

(* And boosting leaves rows in place.                                        *)
LEMMA BoostedRows ==
  ASSUME NEW g, NEW h, NEW r, Rerowed(g, h, r), NEW c \in Booster,
         ~c.on \/ (OneRow(h) /\ c.kt = 1) \/ Reversing(g, h, r),
         NEW a, a = Boosted(g, c), NEW b, b = Boosted(h, c)
  PROVE  Rerowed(a, b, r) /\ a.times = g.times /\ b.times = h.times
<1>1. Field(g) /\ Field(h) /\ h.form = g.form /\ SameFrame(g, h) /\ RowMap(g, h, r)
  BY DEF Rerowed
<1>2. CASE ~c.on
  BY <1>2 DEF Boosted
<1>3. CASE c.on
  <2> DEFINE y == Mags(g)
             z == Mags(h)
  <2>1. /\ Field(a) /\ SameBins(g, a)
        /\ \A p \in Cells(g) : CellAt(a, p) = Relight(g.form, CellAt(g, p), Lifted(y, c, p[1], p[2]))
    BY <1>1, <1>3, BoostedCells
  <2>2. /\ Field(b) /\ SameBins(h, b)
        /\ \A p \in Cells(h) : CellAt(b, p) = Relight(h.form, CellAt(h, p), Lifted(z, c, p[1], p[2]))
    BY <1>1, <1>3, BoostedCells
  <2>3. /\ Shaped(y, Int) /\ SameBins(g, y) /\ Cells(y) = Cells(g)
        /\ \A p \in Cells(g) : CellAt(y, p) = MagOf(g.form, CellAt(g, p))
    BY <1>1, MagsCells
  <2>4. /\ Shaped(z, Int) /\ SameBins(h, z) /\ Cells(z) = Cells(h)
        /\ \A p \in Cells(h) : CellAt(z, p) = MagOf(h.form, CellAt(h, p))
    BY <1>1, MagsCells
  <2> HIDE DEF y, z
  <2>5. RowCells(y, z, r) /\ ((OneRow(z) /\ c.kt = 1) \/ Reversing(y, z, r))
    <3>1. z.freqs = y.freqs /\ z.times = h.times /\ y.times = g.times /\ z.freqs = h.freqs
      BY <1>1, <2>3, <2>4 DEF SameBins, SameFrame
    <3>2. RowMap(y, z, r)
      BY <1>1, <3>1 DEF RowMap
    <3>3. ASSUME NEW t \in 0..(z.times - 1), NEW f \in 0..(z.freqs - 1) PROVE At(z, t, f) = At(y, r[t], f)
      <4> DEFINE p == <<t, f>>
                 o == <<r[t], f>>
      <4>1. p \in Cells(h) /\ p[1] = t /\ p[2] = f /\ o[1] = r[t] /\ o[2] = f
        BY <3>1 DEF Cells
      <4>2. o \in Cells(g) /\ CellAt(h, p) = CellAt(g, o)
        BY <4>1, RowTaken
      <4>3. CellAt(z, p) = CellAt(y, o)
        BY <1>1, <2>3, <2>4, <4>1, <4>2
      <4> QED BY <4>3 DEF CellAt
    <3> QED BY <1>3, <2>3, <2>4, <3>1, <3>2, <3>3 DEF RowCells, OneRow, Reversing
  <2>6. Cells(b) = Cells(h) /\ a.times = g.times /\ b.times = h.times
    BY <2>1, <2>2 DEF SameBins, SameFrame, Cells
  <2>7. b.form = a.form /\ SameFrame(a, b)
    BY <1>1, <2>1, <2>2 DEF SameBins, SameFrame
  <2>8. ASSUME NEW p \in Cells(b) PROVE CellAt(b, p) = CellAt(a, <<r[p[1]], p[2]>>)
    <3> DEFINE o == <<r[p[1]], p[2]>>
    <3>1. o \in Cells(g) /\ CellAt(h, p) = CellAt(g, o) /\ o[1] = r[p[1]] /\ o[2] = p[2] /\ p \in Cells(h)
      BY <2>6, RowTaken
    <3> HIDE DEF o
    <3>2. p[1] \in 0..(z.times - 1) /\ p[2] \in 0..(z.freqs - 1)
      BY <2>4, <3>1 DEF Cells
    <3>3. Lifted(z, c, p[1], p[2]) = Lifted(y, c, o[1], o[2])
      BY <2>5, <3>1, <3>2, LiftedRows
    <3>4. CellAt(a, o) = Relight(g.form, CellAt(g, o), Lifted(y, c, o[1], o[2]))
      BY <2>1, <3>1
    <3>5. CellAt(b, p) = Relight(g.form, CellAt(g, o), Lifted(z, c, p[1], p[2]))
      BY <1>1, <2>2, <3>1
    <3> QED BY <3>3, <3>4, <3>5 DEF o
  <2> QED BY <2>1, <2>2, <2>6, <2>7, <2>8, RowsInPlace
<1> QED BY <1>2, <1>3

\* Rows are taken one by one, or in full blocks in reverse.
BlockMap(g, h, r, dt, s) ==
  \/ OneRow(h) /\ dt = 1 /\ s = r
  \/ /\ Reversing(g, h, r) /\ g.times % dt = 0
     /\ s = [t \in 0..(Blocks(g.times, dt) - 1) |-> Blocks(g.times, dt) - 1 - t]

(* Full blocks cover all rows.                                               *)
LEMMA FullBlocks ==
  ASSUME NEW n \in Nat \ {0}, NEW d \in Nat \ {0}, n % d = 0
  PROVE  Blocks(n, d) * d = n /\ Blocks(n, d) \in Nat
<1> DEFINE m == n \div d
           e == d - 1
<1>1. m \in Nat /\ n = d * m + (n % d)
  BY Division
<1> HIDE DEF m
<1>2. n = m * d
  BY <1>1
<1>3. e \in 0..(d - 1) /\ n + d - 1 = m * d + e
  BY <1>2
<1> HIDE DEF e
<1>4. (m * d + e) \div d = m
  BY <1>1, <1>3, DivisionOf
<1> QED BY <1>1, <1>2, <1>3, <1>4 DEF Blocks

(* Corresponding blocks are made of corresponding rows.                      *)
LEMMA BlocksMeet ==
  ASSUME NEW g, NEW h, NEW r, RowCells(g, h, r), NEW dt \in Nat \ {0}, NEW s,
         BlockMap(g, h, r, dt, s), NEW t \in 0..(Blocks(h.times, dt) - 1)
  PROVE  /\ s[t] \in 0..(Blocks(g.times, dt) - 1)
         /\ SameRows(g, h, r, BlockOf(s[t], dt, g.times), BlockOf(t, dt, h.times))
<1>1. /\ g.times \in Nat \ {0} /\ h.times \in Nat \ {0}
      /\ \A x \in 0..(h.times - 1) : r[x] \in 0..(g.times - 1)
  BY DEF RowCells, Shaped, RowMap
<1>2. CASE OneRow(h) /\ dt = 1 /\ s = r
  <2>1. Blocks(h.times, 1) = h.times /\ Blocks(g.times, 1) = g.times
    BY <1>1, ByOne
  <2>2. h.times = 1 /\ t = 0 /\ 0 \in 0..(h.times - 1)
    BY <1>2, <2>1 DEF OneRow
  <2>3. r[0] \in 0..(g.times - 1)
    BY <1>1, <2>2
  <2>4. \A n \in Nat : \A x \in 0..(n - 1) : \A y \in Int : y \in BlockOf(x, 1, n) <=> y = x
    BY DEF BlockOf, Smaller
  <2>5. 0 \in BlockOf(t, dt, h.times)
    BY <1>1, <1>2, <2>2, <2>4
  <2>6. \A x \in 0..(g.times - 1) : x \in BlockOf(s[t], dt, g.times) <=> x = r[0]
    BY <1>1, <1>2, <2>2, <2>3, <2>4
  <2> QED BY <1>2, <2>1, <2>2, <2>3, <2>5, <2>6 DEF SameRows
<1>3. CASE /\ Reversing(g, h, r) /\ g.times % dt = 0
           /\ s = [x \in 0..(Blocks(g.times, dt) - 1) |-> Blocks(g.times, dt) - 1 - x]
  <2> DEFINE n == g.times
             m == Blocks(n, dt)
             u == s[t]
             a == t * dt
             b == u * dt
  <2>1. n \in Nat \ {0} /\ h.times = n /\ \A x \in 0..(n - 1) : r[x] = n - 1 - x
    BY <1>1, <1>3 DEF Reversing
  <2>2. m * dt = n /\ m \in Nat
    BY <1>3, <2>1, FullBlocks
  <2>3. t \in 0..(m - 1) /\ u = m - 1 - t /\ u \in 0..(m - 1)
    BY <1>3, <2>1, <2>2
  <2> HIDE DEF n, m, u
  <2>4. a \in Nat /\ b \in Nat /\ b = n - dt - a
    <3>1. u * dt = m * dt - dt - t * dt
      BY <2>2, <2>3
    <3> QED BY <2>2, <2>3, <3>1
  <2> HIDE DEF a, b
  <2>5. Smaller(a + dt, n) = a + dt /\ Smaller(b + dt, n) = b + dt
    BY <2>1, <2>4 DEF Smaller
  <2>6. \A x \in 0..(n - 1) : x \in a..(a + dt - 1) <=> r[x] \in b..(b + dt - 1)
    BY <2>1, <2>4
  <2>7. \A x \in 0..(n - 1) : x \in BlockOf(t, dt, n) <=> r[x] \in BlockOf(u, dt, n)
    <3>1. /\ BlockOf(t, dt, n) = a..(Smaller(a + dt, n) - 1)
          /\ BlockOf(u, dt, n) = b..(Smaller(b + dt, n) - 1)
      BY DEF BlockOf, a, b
    <3> DEFINE A == a..(a + dt - 1)
               B == b..(b + dt - 1)
    <3>2. BlockOf(t, dt, n) = A /\ BlockOf(u, dt, n) = B
      <4> DEFINE v == Smaller(a + dt, n) - 1
                 w == Smaller(b + dt, n) - 1
      <4>1. v = a + dt - 1 /\ w = b + dt - 1
        BY <2>4, <2>5
      <4>2. BlockOf(t, dt, n) = a..v /\ BlockOf(u, dt, n) = b..w
        BY <3>1
      <4> HIDE DEF v, w
      <4> QED BY <4>1, <4>2
    <3>3. \A x \in 0..(n - 1) : x \in A <=> r[x] \in B
      BY <2>6
    <3> HIDE DEF A, B
    <3> QED BY <3>2, <3>3
  <2> QED BY <1>3, <2>1, <2>3, <2>7 DEF SameRows, n, m, u
<1> QED BY <1>2, <1>3 DEF BlockMap

(* So a coarse cell is the one its row is mapped to, ...                     *)
LEMMA BlockCells ==
  ASSUME NEW g, NEW h, NEW r, RowCells(g, h, r), NEW dt \in Nat \ {0}, NEW s,
         BlockMap(g, h, r, dt, s), NEW t \in 0..(Blocks(h.times, dt) - 1), NEW df, NEW energy, NEW f
  PROVE  DownCell(h, dt, df, energy, t, f) = DownCell(g, dt, df, energy, s[t], f)
<1>1. SameRows(g, h, r, BlockOf(s[t], dt, g.times), BlockOf(t, dt, h.times)) /\ h.freqs = g.freqs
  BY BlocksMeet DEF RowCells
<1>2. \A cols : Mean(h, BlockOf(t, dt, h.times), cols) = Mean(g, BlockOf(s[t], dt, g.times), cols)
  BY <1>1, SameMean
<1>3. \A cols : Total(h, BlockOf(t, dt, h.times), cols) = Total(g, BlockOf(s[t], dt, g.times), cols)
  BY <1>1, SameTotal
<1> QED BY <1>1, <1>2, <1>3 DEF DownCell

(* ... in the complex form ...                                               *)
LEMMA CoarsenedRows ==
  ASSUME NEW g, NEW h, NEW r, Rerowed(g, h, r), g.form = "complex",
         NEW dt \in Nat \ {0}, NEW df \in Nat \ {0}, NEW energy, NEW s, BlockMap(g, h, r, dt, s),
         NEW a, a = DownsampledComplex(g, dt, df, energy),
         NEW b, b = DownsampledComplex(h, dt, df, energy)
  PROVE  /\ Rerowed(a, b, s) /\ a.form = "complex"
         /\ a.times = Blocks(g.times, dt) /\ b.times = Blocks(h.times, dt)
<1>1. Shaped(g, Int) /\ Shaped(h, Int) /\ SameFrame(g, h) /\ h.form = "complex" /\ RowMap(g, h, r)
  BY DEF Rerowed, Field
<1>2. /\ Shaped(a, Int) /\ a.form = g.form
      /\ a.times = Blocks(g.times, dt) /\ a.freqs = Blocks(g.freqs, df)
      /\ a.tstep = g.tstep * dt /\ a.fstep = g.fstep * df
      /\ \A p \in Cells(a) : CellAt(a, p) = DownCell(g, dt, df, energy, p[1], p[2])
  BY <1>1, DownsampledCells
<1>3. /\ Shaped(b, Int) /\ b.form = h.form
      /\ b.times = Blocks(h.times, dt) /\ b.freqs = Blocks(h.freqs, df)
      /\ b.tstep = h.tstep * dt /\ b.fstep = h.fstep * df
      /\ \A p \in Cells(b) : CellAt(b, p) = DownCell(h, dt, df, energy, p[1], p[2])
  BY <1>1, DownsampledCells
<1>4. Field(a) /\ Field(b) /\ SameFrame(a, b) /\ b.form = a.form
  BY <1>1, <1>2, <1>3 DEF Field, SameFrame
<1>5. RowCells(g, h, r)
  <2>1. ASSUME NEW t \in 0..(h.times - 1), NEW f \in 0..(h.freqs - 1) PROVE At(h, t, f) = At(g, r[t], f)
    <3> DEFINE p == <<t, f>>
               o == <<r[t], f>>
    <3>1. p \in Cells(h) /\ p[1] = t /\ p[2] = f /\ o[1] = r[t] /\ o[2] = f
      BY DEF Cells
    <3>2. CellAt(h, p) = CellAt(g, o)
      BY <3>1, RowTaken
    <3> QED BY <3>2 DEF CellAt
  <2> QED BY <1>1, <2>1 DEF RowCells, SameFrame
<1>6. \A t \in 0..(b.times - 1) : s[t] \in 0..(a.times - 1)
  BY <1>2, <1>3, <1>5, BlocksMeet
<1>7. ASSUME NEW p \in Cells(b) PROVE CellAt(b, p) = CellAt(a, <<s[p[1]], p[2]>>)
  <2> DEFINE o == <<s[p[1]], p[2]>>
  <2>1. p[1] \in 0..(Blocks(h.times, dt) - 1) /\ p[2] \in 0..(a.freqs - 1)
    BY <1>3, <1>4 DEF Cells, SameFrame
  <2>2. o \in Cells(a)
    BY <1>3, <1>6, <2>1 DEF Cells
  <2>3. CellAt(b, p) = DownCell(h, dt, df, energy, p[1], p[2])
    BY <1>3
  <2>4. CellAt(a, o) = DownCell(g, dt, df, energy, s[p[1]], p[2])
    BY <1>2, <2>2
  <2>5. DownCell(h, dt, df, energy, p[1], p[2]) = DownCell(g, dt, df, energy, s[p[1]], p[2])
    BY <1>5, <2>1, BlockCells
  <2> QED BY <2>3, <2>4, <2>5
<1>8. RowMap(a, b, s)
  <2>1. s = [t \in 0..(b.times - 1) |-> s[t]]
    <3>1. CASE OneRow(h) /\ dt = 1 /\ s = r
      <4>1. h.times = 1 /\ Blocks(1, 1) = 1
        BY <3>1, ByOne DEF OneRow
      <4>2. b.times = h.times
        BY <1>3, <3>1, <4>1
      <4> QED BY <1>1, <3>1, <4>2 DEF RowMap
    <3>2. CASE Reversing(g, h, r) /\ s = [t \in 0..(Blocks(g.times, dt) - 1) |-> Blocks(g.times, dt) - 1 - t]
      BY <1>3, <3>2 DEF Reversing
    <3> QED BY <3>1, <3>2 DEF BlockMap
  <2> QED BY <1>6, <2>1 DEF RowMap
<1> QED BY <1>1, <1>2, <1>3, <1>4, <1>7, <1>8 DEF Rerowed

(* ... and in either form.                                                   *)
LEMMA DownsampledRows ==
  ASSUME NEW g, NEW h, NEW r, Rerowed(g, h, r),
         NEW dt \in Nat \ {0}, NEW df \in Nat \ {0}, NEW energy, NEW s, BlockMap(g, h, r, dt, s),
         NEW a, a = Downsampled(g, dt, df, energy), NEW b, b = Downsampled(h, dt, df, energy)
  PROVE  Rerowed(a, b, s)
<1>1. h.form = g.form /\ g.form \in {"complex", "polar"} /\ RowMap(g, h, r)
  BY DEF Rerowed, Field
<1>2. CASE dt <= 1 /\ df <= 1
  <2>1. a = g /\ b = h /\ dt = 1
    BY <1>2 DEF Downsampled
  <2>2. s = r
    <3>1. CASE s = r
      BY <3>1
    <3>2. CASE /\ Reversing(g, h, r)
               /\ s = [t \in 0..(Blocks(g.times, dt) - 1) |-> Blocks(g.times, dt) - 1 - t]
      <4>1. Blocks(g.times, 1) = g.times
        BY ByOne DEF Rerowed, Field, Shaped
      <4>2. s = [t \in 0..(g.times - 1) |-> g.times - 1 - t]
        BY <2>1, <3>2, <4>1
      <4>3. r = [t \in 0..(g.times - 1) |-> r[t]] /\ \A t \in 0..(g.times - 1) : r[t] = g.times - 1 - t
        BY <1>1, <3>2 DEF RowMap, Reversing
      <4> QED BY <4>2, <4>3
    <3> QED BY <3>1, <3>2 DEF BlockMap
  <2> QED BY <2>1, <2>2
<1>3. CASE ~(dt <= 1 /\ df <= 1) /\ g.form = "complex"
  <2>1. a = DownsampledComplex(g, dt, df, energy) /\ b = DownsampledComplex(h, dt, df, energy)
    BY <1>1, <1>3 DEF Downsampled
  <2> QED BY <1>3, <2>1, CoarsenedRows
<1>4. CASE ~(dt <= 1 /\ df <= 1) /\ g.form = "polar"
  <2> DEFINE y == PolarToComplex(g)
             z == PolarToComplex(h)
             v == DownsampledComplex(y, dt, df, energy)
             w == DownsampledComplex(z, dt, df, energy)
  <2>1. a = ComplexToPolar(v) /\ b = ComplexToPolar(w)
    BY <1>1, <1>4 DEF Downsampled
  <2>2. Rerowed(y, z, r) /\ y.form = "complex" /\ y.times = g.times /\ z.times = h.times
    BY <1>4, UnpolarRows
  <2> HIDE DEF y, z
  <2>3. BlockMap(y, z, r, dt, s)
    BY <2>2 DEF BlockMap, OneRow, Reversing
  <2>4. Rerowed(v, w, s) /\ v.form = "complex"
    BY <2>2, <2>3, CoarsenedRows
  <2> HIDE DEF v, w
  <2> QED BY <2>1, <2>4, PolarRows
<1> QED BY <1>1, <1>2, <1>3, <1>4

(* And so does a whole call.                                                 *)
LEMMA PipedRows ==
  ASSUME NEW c \in Calls, NEW d, d.plan = c.plan, d.quant = c.quant, d.contrast = c.contrast,
         NEW r, Rerowed(Loaded(c), Loaded(d), r), Factor(c.plan.upT) = 1,
         \/ ~c.contrast.on
         \/ OneRow(Loaded(d)) /\ c.contrast.kt = 1
         \/ Reversing(Loaded(c), Loaded(d), r),
         NEW s, BlockMap(Loaded(c), Loaded(d), r, Factor(c.plan.downT), s)
  PROVE  Rerowed(Piped(c), Piped(d), s)
<1> DEFINE g0 == Loaded(c)
           g1 == Refined(g0, c)
           g2 == Quantized(g1, c.quant)
           g3 == Boosted(g2, c.contrast)
           h0 == Loaded(d)
           h1 == Refined(h0, d)
           h2 == Quantized(h1, d.quant)
           h3 == Boosted(h2, d.contrast)
           uf == Factor(c.plan.upF)
           dt == Factor(c.plan.downT)
           df == Factor(c.plan.downF)
           \* What the row map and the booster are to each other.
           Windowed(g, h) == \/ ~c.contrast.on
                             \/ OneRow(h) /\ c.contrast.kt = 1
                             \/ Reversing(g, h, r)
<1>1. /\ uf \in Nat \ {0} /\ dt \in Nat \ {0} /\ df \in Nat \ {0}
      /\ c.quant \in Quantizer /\ c.contrast \in Booster
  BY CallTypes
<1>2. Rerowed(g0, h0, r) /\ Windowed(g0, h0) /\ BlockMap(g0, h0, r, dt, s)
  OBVIOUS
<1>3. g1 = Upsampled(g0, 1, uf) /\ h1 = Upsampled(h0, 1, uf)
  BY DEF Refined
<1>4. Piped(c) = Downsampled(g3, dt, df, c.plan.energy) /\ Piped(d) = Downsampled(h3, dt, df, c.plan.energy)
  BY DEF Piped, Coarsened
<1>5. h2 = Quantized(h1, c.quant) /\ h3 = Boosted(h2, c.contrast)
  OBVIOUS
<1> HIDE DEF g0, g1, h0, h1, uf, dt, df
<1>6. Rerowed(g1, h1, r) /\ g1.times = g0.times /\ h1.times = h0.times
  <2>1. Rerowed(g0, h0, r) /\ uf \in Nat \ {0} /\ g1 = Upsampled(g0, 1, uf) /\ h1 = Upsampled(h0, 1, uf)
    BY <1>1, <1>2, <1>3
  <2> QED BY ONLY <2>1, UpsampledRows
<1> HIDE DEF g2, h2
<1>7. Rerowed(g2, h2, r) /\ g2.times = g1.times /\ h2.times = h1.times
  BY <1>1, <1>5, <1>6, QuantizedRows DEF g2
<1>8. Windowed(g2, h2)
  BY <1>2, <1>6, <1>7 DEF OneRow, Reversing
<1> HIDE DEF g3, h3
<1>9. Rerowed(g3, h3, r) /\ g3.times = g2.times /\ h3.times = h2.times
  BY <1>1, <1>5, <1>7, <1>8, BoostedRows DEF g3
<1>10. BlockMap(g3, h3, r, dt, s)
  BY <1>2, <1>6, <1>7, <1>9 DEF BlockMap, OneRow, Reversing
<1> QED BY <1>1, <1>4, <1>9, <1>10, DownsampledRows

\* Row t of the grid d passes is row r[t] of the one c passes.
Regrids(c, d, n, r) ==
  /\ d.form = c.form /\ d.plan = c.plan
  /\ n \in Nat \ {0} /\ d.grid.times = n /\ d.grid.freqs = c.grid.freqs
  /\ d.grid.cells \in [0..(n * c.grid.freqs - 1) -> Int]
  /\ r \in [0..(n - 1) -> 0..(c.grid.times - 1)]
  /\ \A t \in 0..(n - 1) : \A f \in 0..(c.grid.freqs - 1) :
       d.grid.cells[t * c.grid.freqs + f] = c.grid.cells[r[t] * c.grid.freqs + f]

(* They are loaded as rows of the caller's grid.                             *)
LEMMA LoadedRows ==
  ASSUME NEW c \in Calls, Valid(c), NEW d, NEW n, NEW r, Regrids(c, d, n, r)
  PROVE  /\ Rerowed(Loaded(c), Loaded(d), r)
         /\ Loaded(c).times = c.grid.times /\ Loaded(d).times = n
<1> DEFINE z == Loaded(AsComplex(c))
           y == [form |-> "complex", times |-> d.grid.times, freqs |-> d.grid.freqs,
                 cells |-> d.grid.cells, tstep |-> Step(d.plan.step), fstep |-> Step(d.plan.step)]
<1>1. /\ Shaped(z, Int) /\ z.form = "complex" /\ z.times = c.grid.times /\ z.freqs = c.grid.freqs
      /\ z.tstep = Step(c.plan.step) /\ z.fstep = Step(c.plan.step) /\ z.cells = c.grid.cells
      /\ c.form = "complex" => Loaded(c) = z
      /\ c.form = "polar" => Loaded(c) = ComplexToPolar(z)
  BY LoadedField
<1>0. d.plan = c.plan /\ n \in Nat \ {0} /\ d.form = c.form
      /\ d.grid.times = n /\ d.grid.freqs = c.grid.freqs
      /\ d.grid.cells \in [0..(n * c.grid.freqs - 1) -> Int]
      /\ r \in [0..(n - 1) -> 0..(c.grid.times - 1)]
  BY DEF Regrids
<1>2. /\ c.form = "complex" => Loaded(d) = y
      /\ c.form = "polar" => Loaded(d) = ComplexToPolar(y)
  BY <1>0 DEF Loaded
<1>3. /\ y.form = "complex" /\ y.times = n /\ y.freqs = c.grid.freqs /\ y.cells = d.grid.cells
      /\ y.tstep = Step(c.plan.step) /\ y.fstep = Step(c.plan.step) /\ IsGrid(y)
  BY <1>0 DEF IsGrid
<1> HIDE DEF y, z
<1>4. Shaped(y, Int)
  BY <1>0, <1>1, <1>3 DEF Shaped
<1>5. ASSUME NEW p \in Cells(y) PROVE CellAt(y, p) = CellAt(z, <<r[p[1]], p[2]>>)
  <2> DEFINE t == p[1]
             f == p[2]
             F == c.grid.freqs
  <2>1. t \in 0..(n - 1) /\ f \in 0..(F - 1)
    BY <1>3 DEF Cells
  <2> HIDE DEF t, f
  <2>2. y.cells[t * F + f] = z.cells[r[t] * F + f]
    BY <1>1, <1>3, <2>1 DEF Regrids
  <2> USE DEF t, f
  <2> DEFINE o == <<r[p[1]], p[2]>>
  <2>3. CellAt(y, p) = At(y, p[1], p[2]) /\ CellAt(z, o) = At(z, r[p[1]], p[2])
    BY DEF CellAt
  <2>4. y.freqs = c.grid.freqs /\ z.freqs = c.grid.freqs
    BY <1>1, <1>3
  <2>5. At(y, p[1], p[2]) = At(z, r[p[1]], p[2])
    BY ONLY <2>2, <2>4 DEF At
  <2> QED BY <2>3, <2>5
<1>6. Rerowed(z, y, r)
  BY <1>0, <1>1, <1>3, <1>4, <1>5 DEF Rerowed, Field, SameFrame, RowMap
<1>7. CASE c.form = "complex"
  BY <1>1, <1>2, <1>3, <1>6, <1>7
<1>8. CASE c.form = "polar"
  <2>1. Rerowed(Loaded(c), Loaded(d), r) /\ Loaded(c).times = z.times /\ Loaded(d).times = y.times
    BY <1>1, <1>2, <1>6, <1>8, PolarRows
  <2> QED BY <1>1, <1>3, <2>1
<1>9. c.form \in {"complex", "polar"}
  BY CallTypes
<1> QED BY <1>7, <1>8, <1>9

(* The cells of a grid made of rows.                                         *)
LEMMA RerowedBuffer ==
  ASSUME NEW g, NEW h, NEW r, Rerowed(g, h, r)
  PROVE  /\ h.times \in Nat \ {0} /\ h.freqs \in Nat \ {0} /\ h.freqs = g.freqs
         /\ h.cells = [i \in 0..(h.times * h.freqs - 1) |->
                         g.cells[r[i \div h.freqs] * h.freqs + (i % h.freqs)]]
<1> DEFINE T == h.times
           F == h.freqs
<1>1. T \in Nat \ {0} /\ F \in Nat \ {0} /\ F = g.freqs
  BY DEF Rerowed, Field, Shaped, SameFrame
<1>2. h.cells = [i \in 0..(T * F - 1) |-> h.cells[i]]
  BY DEF Rerowed, Field, Shaped
<1> HIDE DEF T, F
<1>3. ASSUME NEW i \in 0..(T * F - 1) PROVE h.cells[i] = g.cells[r[i \div F] * F + (i % F)]
  <2> DEFINE t == i \div F
             f == i % F
             p == <<t, f>>
  <2>1. t \in 0..(T - 1) /\ f \in 0..(F - 1) /\ i = t * F + f
    BY <1>1, IndexCell
  <2> HIDE DEF t, f
  <2>2. p \in Cells(h)
    BY <2>1 DEF Cells, T, F
  <2>3. CellAt(h, p) = CellAt(g, <<r[t], f>>)
    BY <2>2 DEF Rerowed
  <2>4. h.cells[t * F + f] = g.cells[r[t] * F + f]
    <3>1. At(h, t, f) = At(g, r[t], f)
      BY <2>3 DEF CellAt
    <3>2. h.freqs = F /\ g.freqs = F
      BY <1>1 DEF F
    <3> QED BY ONLY <3>1, <3>2 DEF At
  <2> QED BY <2>1, <2>4 DEF t, f
<1> QED BY <1>1, <1>2, <1>3 DEF T, F

\* The calls RowsApart and TimeReversible compare a call with.
AloneOf(c, t) ==
  [c EXCEPT !.grid.times = 1,
            !.grid.cells = [f \in 0..(c.grid.freqs - 1) |-> @[t * c.grid.freqs + f]]]
MirrorOf(c) ==
  [c EXCEPT !.grid.cells = [i \in DOMAIN @ |-> @[(c.grid.times - 1 - (i \div c.grid.freqs)) * c.grid.freqs
                                                   + (i % c.grid.freqs)]]]

(* What these calls are made of.                                             *)
LEMMA OtherCalls ==
  ASSUME NEW c \in Calls, NEW t
  PROVE  /\ \A d \in {AloneOf(c, t), MirrorOf(c)} :
              d.form = c.form /\ d.plan = c.plan /\ d.quant = c.quant /\ d.contrast = c.contrast
                /\ d.grid.freqs = c.grid.freqs
         /\ AloneOf(c, t).grid.times = 1
         /\ AloneOf(c, t).grid.cells = [f \in 0..(c.grid.freqs - 1) |-> c.grid.cells[t * c.grid.freqs + f]]
         /\ MirrorOf(c).grid.times = c.grid.times
         /\ MirrorOf(c).grid.cells =
              [i \in 0..(c.grid.times * c.grid.freqs - 1) |->
                 c.grid.cells[(c.grid.times - 1 - (i \div c.grid.freqs)) * c.grid.freqs + (i % c.grid.freqs)]]
<1>1. c.grid \in [times : Int, freqs : Int, cells : [0..(c.grid.times * c.grid.freqs - 1) -> Int]]
  BY CallTypes
<1>2. DOMAIN c.grid.cells = 0..(c.grid.times * c.grid.freqs - 1)
  BY <1>1
<1>3. /\ AloneOf(c, t).grid.times = 1
      /\ AloneOf(c, t).grid.freqs = c.grid.freqs
      /\ AloneOf(c, t).grid.cells = [f \in 0..(c.grid.freqs - 1) |-> c.grid.cells[t * c.grid.freqs + f]]
  BY <1>1 DEF AloneOf, Calls
<1>4. /\ MirrorOf(c).grid.times = c.grid.times
      /\ MirrorOf(c).grid.freqs = c.grid.freqs
      /\ MirrorOf(c).grid.cells =
           [i \in DOMAIN c.grid.cells |->
              c.grid.cells[(c.grid.times - 1 - (i \div c.grid.freqs)) * c.grid.freqs + (i % c.grid.freqs)]]
  BY <1>1 DEF MirrorOf, Calls
<1>5. \A d \in {AloneOf(c, t), MirrorOf(c)} :
        d.form = c.form /\ d.plan = c.plan /\ d.quant = c.quant /\ d.contrast = c.contrast
  BY DEF AloneOf, MirrorOf, Calls
<1> QED BY <1>2, <1>3, <1>4, <1>5

(* A call on one row of its grid.                                            *)
LEMMA PipedAlone ==
  ASSUME NEW c \in Calls, Valid(c), Factor(c.plan.upT) = 1, Factor(c.plan.downT) = 1,
         c.contrast.on => c.contrast.kt = 1, NEW t \in 0..(c.grid.times - 1)
  PROVE  Rerowed(Piped(c), Piped(AloneOf(c, t)), [x \in 0..0 |-> t])
<1> DEFINE d == AloneOf(c, t)
           r == [x \in 0..0 |-> t]
           F == c.grid.freqs
           n == 1
<1>1. F \in Nat \ {0} /\ c.grid.cells \in [0..(c.grid.times * F - 1) -> Int] /\ c.grid.times \in Nat \ {0}
  <2>1. c.grid.cells \in [0..(c.grid.times * F - 1) -> Int]
    BY CallTypes
  <2>2. F \in Nat \ {0} /\ c.grid.times \in Nat \ {0}
    BY LoadedIsField
  <2> QED BY <2>1, <2>2
<1>2. /\ d.form = c.form /\ d.plan = c.plan /\ d.quant = c.quant /\ d.contrast = c.contrast
      /\ d.grid.freqs = F /\ d.grid.times = n
      /\ d.grid.cells = [f \in 0..(F - 1) |-> c.grid.cells[t * F + f]]
  BY OtherCalls
<1>3. n \in Nat \ {0} /\ r \in [0..(n - 1) -> 0..(c.grid.times - 1)] /\ n * F = F /\ \A x \in 0..(n - 1) : x = 0 /\ r[x] = t
  BY <1>1
<1> HIDE DEF d, r, n
<1>4. d.grid.cells \in [0..(n * F - 1) -> Int]
  <2>1. \A f \in 0..(F - 1) : t * F + f \in 0..(c.grid.times * F - 1)
    BY <1>1, CellIndex
  <2> QED BY <1>1, <1>2, <1>3, <2>1
<1>5. \A x \in 0..(n - 1) : \A f \in 0..(F - 1) : d.grid.cells[x * F + f] = c.grid.cells[r[x] * F + f]
  <2>1. \A f \in 0..(F - 1) : 0 * F + f = f
    BY <1>1
  <2>2. ASSUME NEW x \in 0..(n - 1), NEW f \in 0..(F - 1)
        PROVE  d.grid.cells[x * F + f] = c.grid.cells[r[x] * F + f]
    <3>1. x = 0 /\ r[x] = t
      BY <1>3
    <3>2. x * F + f = f
      BY <2>1, <3>1
    <3>3. d.grid.cells[f] = c.grid.cells[t * F + f]
      BY <1>2
    <3> QED BY <3>1, <3>2, <3>3
  <2> QED BY <2>2
<1>6. Rerowed(Loaded(c), Loaded(d), r) /\ Loaded(d).times = n
  <2>1. Regrids(c, d, n, r)
    BY <1>2, <1>3, <1>4, <1>5 DEF Regrids
  <2> QED BY <2>1, LoadedRows
<1>7. OneRow(Loaded(d)) /\ BlockMap(Loaded(c), Loaded(d), r, Factor(c.plan.downT), r)
  BY <1>6 DEF OneRow, BlockMap, n
<1>8. Rerowed(Piped(c), Piped(d), r)
  BY <1>2, <1>6, <1>7, PipedRows
<1> QED BY <1>8 DEF d, r

(* A call on its grid in reverse.                                            *)
LEMMA PipedMirror ==
  ASSUME NEW c \in Calls, Valid(c), Factor(c.plan.upT) = 1, c.grid.times % Factor(c.plan.downT) = 0,
         NEW m, m = Blocks(c.grid.times, Factor(c.plan.downT))
  PROVE  Rerowed(Piped(c), Piped(MirrorOf(c)), [x \in 0..(m - 1) |-> m - 1 - x])
<1> DEFINE d == MirrorOf(c)
           n == c.grid.times
           r == [x \in 0..(n - 1) |-> n - 1 - x]
           s == [x \in 0..(m - 1) |-> m - 1 - x]
           F == c.grid.freqs
<1>1. F \in Nat \ {0} /\ c.grid.cells \in [0..(n * F - 1) -> Int] /\ n \in Nat \ {0}
  <2>1. c.grid.cells \in [0..(n * F - 1) -> Int]
    BY CallTypes
  <2>2. F \in Nat \ {0} /\ n \in Nat \ {0}
    BY LoadedIsField
  <2> QED BY <2>1, <2>2
<1>2. /\ d.form = c.form /\ d.plan = c.plan /\ d.quant = c.quant /\ d.contrast = c.contrast
      /\ d.grid.freqs = F /\ d.grid.times = n
      /\ d.grid.cells = [i \in 0..(n * F - 1) |-> c.grid.cells[(n - 1 - (i \div F)) * F + (i % F)]]
  BY OtherCalls
<1>3. r \in [0..(n - 1) -> 0..(n - 1)] /\ \A x \in 0..(n - 1) : r[x] = n - 1 - x
  BY <1>1
<1>s. s = [x \in 0..(Blocks(n, Factor(c.plan.downT)) - 1) |-> Blocks(n, Factor(c.plan.downT)) - 1 - x]
  OBVIOUS
<1> HIDE DEF d, r, s, n, F
<1>4. \A x \in 0..(n - 1) : \A f \in 0..(F - 1) :
        /\ x * F + f \in 0..(n * F - 1)
        /\ d.grid.cells[x * F + f] = c.grid.cells[r[x] * F + f]
  <2> SUFFICES ASSUME NEW x \in 0..(n - 1), NEW f \in 0..(F - 1)
               PROVE  /\ x * F + f \in 0..(n * F - 1)
                      /\ d.grid.cells[x * F + f] = c.grid.cells[r[x] * F + f]
    OBVIOUS
  <2> DEFINE i == x * F + f
  <2>0. n \in Nat \ {0} /\ F \in Nat \ {0} /\ x \in 0..(n - 1) /\ f \in 0..(F - 1)
    BY <1>1
  <2>1. i \in 0..(n * F - 1) /\ i \div F = x /\ i % F = f
    BY ONLY <2>0, CellIndex
  <2>2. r[x] = n - 1 - x
    BY <1>3
  <2> HIDE DEF i
  <2>3. d.grid.cells[i] = c.grid.cells[(n - 1 - (i \div F)) * F + (i % F)]
    BY <1>2, <2>1
  <2>4. d.grid.cells[i] = c.grid.cells[r[x] * F + f]
    BY <2>1, <2>2, <2>3
  <2> QED BY <2>1, <2>4 DEF i
<1>5. d.grid.cells \in [0..(n * F - 1) -> Int]
  <2>1. ASSUME NEW i \in 0..(n * F - 1) PROVE d.grid.cells[i] \in Int
    <3> DEFINE x == i \div F
               f == i % F
    <3>0. n \in Nat \ {0} /\ F \in Nat \ {0} /\ i \in 0..(n * F - 1)
      BY <1>1
    <3>1. x \in 0..(n - 1) /\ f \in 0..(F - 1) /\ i = x * F + f
      BY ONLY <3>0, IndexCell
    <3> HIDE DEF x, f
    <3>2. r[x] \in 0..(n - 1)
      BY <1>3, <3>1
    <3>3. r[x] * F + f \in 0..(n * F - 1)
      BY ONLY <3>0, <3>1, <3>2, CellIndex
    <3>4. d.grid.cells[x * F + f] = c.grid.cells[r[x] * F + f]
      BY <1>4, <3>1
    <3>5. c.grid.cells[r[x] * F + f] \in Int
      BY <1>1, <3>3
    <3> QED BY <3>1, <3>4, <3>5
  <2> QED BY <1>2, <2>1
<1>6. Rerowed(Loaded(c), Loaded(d), r) /\ Loaded(d).times = n /\ Loaded(c).times = n
  <2>0. /\ d.form = c.form /\ d.plan = c.plan /\ n \in Nat \ {0} /\ d.grid.times = n
        /\ d.grid.freqs = F /\ r \in [0..(n - 1) -> 0..(n - 1)]
    BY <1>1, <1>2, <1>3
  <2> DEFINE Agree == \A x \in 0..(n - 1) : \A f \in 0..(F - 1) :
                        d.grid.cells[x * F + f] = c.grid.cells[r[x] * F + f]
             Typed == d.grid.cells \in [0..(n * F - 1) -> Int]
  <2>3. Agree /\ Typed
    <3>1. Agree
      BY ONLY <1>4
    <3> QED BY ONLY <1>5, <3>1
  <2>4. Regrids(c, d, n, r) <=>
          /\ d.form = c.form /\ d.plan = c.plan /\ n \in Nat \ {0} /\ d.grid.times = n
          /\ d.grid.freqs = F /\ Typed /\ r \in [0..(n - 1) -> 0..(n - 1)] /\ Agree
    BY ONLY DEF Regrids, n, F
  <2> HIDE DEF Agree, Typed
  <2>1. Regrids(c, d, n, r)
    BY <2>0, <2>3, <2>4
  <2>2. Rerowed(Loaded(c), Loaded(d), r) /\ Loaded(d).times = n /\ Loaded(c).times = c.grid.times
    BY <2>1, LoadedRows
  <2> QED BY <2>2 DEF n
<1>7. Reversing(Loaded(c), Loaded(d), r)
  BY <1>3, <1>6 DEF Reversing
<1>8. BlockMap(Loaded(c), Loaded(d), r, Factor(c.plan.downT), s)
  BY <1>6, <1>7, <1>s DEF BlockMap, n
<1>9. Rerowed(Piped(c), Piped(d), s)
  BY <1>2, <1>6, <1>7, <1>8, PipedRows
<1> QED BY <1>9 DEF d, s

(* Rows stay apart when nothing asks to mix times: row by row, the result of *)
(* a call is what the same call makes of each row alone, for any grid and    *)
(* any configuration of frequencies (ft_tools.hpp 118-460).                  *)
THEOREM RowsStayApart == GridSpec => []RowsApart
<1>1. GridStages => RowsApart
  <2> DEFINE F == call.grid.freqs
             T == call.grid.times
  <2>1. ASSUME GridStages, pc = "returned", result = 1, Factor(call.plan.upT) = 1,
               Factor(call.plan.downT) = 1, call.contrast.on => call.contrast.kt = 1,
               NEW t \in 0..(T - 1)
        PROVE  [f \in 0..(F - 1) |-> buffer[t * F + f]] = Piped(AloneOf(call, t)).cells
    <3> DEFINE g == Piped(call)
               h == Piped(AloneOf(call, t))
               r == [x \in 0..0 |-> t]
    <3>1. /\ call \in Calls /\ Valid(call) /\ buffer = g.cells /\ g.freqs = F
      BY <2>1 DEF GridStages, SameShape
    <3>2. Rerowed(g, h, r)
      BY <2>1, <3>1, PipedAlone
    <3>3. r[0] = t /\ DOMAIN r = 0..0
      OBVIOUS
    <3> HIDE DEF g, h, r, F
    <3>4. /\ h.times \in Nat \ {0} /\ h.freqs \in Nat \ {0} /\ h.freqs = F
          /\ h.cells = [i \in 0..(h.times * h.freqs - 1) |->
                          g.cells[r[i \div h.freqs] * h.freqs + (i % h.freqs)]]
      BY <3>1, <3>2, RerowedBuffer
    <3>5. h.times = 1
      <4>1. DOMAIN r = 0..(h.times - 1)
        BY <3>2 DEF Rerowed, RowMap
      <4>2. 0..(h.times - 1) = 0..0
        BY <3>3, <4>1
      <4>3. h.times - 1 \in 0..(h.times - 1)
        BY <3>4
      <4> QED BY <3>4, <4>2, <4>3
    <3>6. h.times * h.freqs = F /\ F \in Nat \ {0}
      BY <3>4, <3>5
    <3>7. h.cells = [i \in 0..(F - 1) |-> g.cells[r[i \div F] * F + (i % F)]]
      BY <3>4, <3>6
    <3>8. ASSUME NEW i \in 0..(F - 1) PROVE g.cells[r[i \div F] * F + (i % F)] = buffer[t * F + i]
      <4>1. i \div F = 0 /\ i % F = i
        <5>1. 0 \in Nat /\ i \in Nat /\ i < F /\ 0 * F + i = i
          BY <3>6
        <5>2. (0 * F + i) \div F = 0 /\ (0 * F + i) % F = i
          BY ONLY <3>6, <5>1, DivisionOf
        <5> QED BY <5>1, <5>2
      <4> QED BY <3>1, <3>3, <4>1
    <3> QED BY <3>7, <3>8 DEF h
  <2>2. GridStages => RowsApart
    BY <2>1 DEF RowsApart, AloneOf
  <2> QED BY <2>2
<1> QED BY <1>1, StagesKept, PTL

(* Time has no direction where nothing is refined along it and blocks of     *)
(* times are full: the pipeline of the reversed grid is the reverse of the   *)
(* pipeline of the grid, boosters and quantizers included (ft_tools.hpp      *)
(* 118-460).                                                                 *)
THEOREM TimeHasNoDirection == GridSpec => []TimeReversible
<1>1. GridStages => TimeReversible
  <2>1. ASSUME GridStages, pc = "return", Factor(call.plan.upT) = 1,
               call.grid.times % Factor(call.plan.downT) = 0
        PROVE  Piped(MirrorOf(call)).cells =
                 [i \in DOMAIN field.cells |->
                    field.cells[(field.times - 1 - (i \div field.freqs)) * field.freqs + (i % field.freqs)]]
    <3> DEFINE g == Boosted(Quantized(Refined(Loaded(call), call), call.quant), call.contrast)
               h == Piped(MirrorOf(call))
               dt == Factor(call.plan.downT)
               df == Factor(call.plan.downF)
               n == call.grid.times
               m == Blocks(n, dt)
               s == [x \in 0..(m - 1) |-> m - 1 - x]
    <3>1. call \in Calls /\ Valid(call) /\ field = Piped(call)
      BY <2>1 DEF GridStages
    <3>2. Rerowed(field, h, s)
      BY <2>1, <3>1, PipedMirror
    <3>3. dt \in Nat \ {0} /\ df \in Nat \ {0} /\ n \in Nat \ {0}
      BY <3>1, CallTypes, LoadedIsField
    <3>4. Field(g) /\ g.times = n /\ g.tstep \in Nat /\ g.fstep \in Nat
      <4>1. Field(g) /\ g.times = n * Factor(call.plan.upT) /\ g.tstep \in Nat /\ g.fstep \in Nat
        BY <3>1, PipedField
      <4> QED BY <2>1, <3>3, <4>1
    <3>5. field = Downsampled(g, dt, df, call.plan.energy)
      BY <3>1 DEF Piped, Coarsened
    <3>6. m \in Nat \ {0}
      BY <3>3, BlocksBegin
    <3>7. \A x \in 0..(m - 1) : s[x] = m - 1 - x
      OBVIOUS
    <3>8. DOMAIN s = 0..(m - 1)
      OBVIOUS
    <3> HIDE DEF g, h, s, dt, df
    <3>9. field.times = m
      <4>1. field.times = Blocks(g.times, dt)
        BY ONLY <3>3, <3>4, <3>5, DownsampledField
      <4> QED BY <3>4, <4>1
    <3> HIDE DEF m, n
    <3>10. /\ h.times \in Nat \ {0} /\ h.freqs \in Nat \ {0} /\ h.freqs = field.freqs
           /\ h.cells = [i \in 0..(h.times * h.freqs - 1) |->
                           field.cells[s[i \div h.freqs] * h.freqs + (i % h.freqs)]]
      BY <3>2, RerowedBuffer
    <3>11. h.times = m
      <4>1. 0..(h.times - 1) = 0..(m - 1)
        BY <3>2, <3>8 DEF Rerowed, RowMap
      <4>2. h.times - 1 \in 0..(m - 1) /\ m - 1 \in 0..(h.times - 1)
        BY <3>6, <3>10, <4>1
      <4> QED BY <3>6, <3>10, <4>2
    <3>12. DOMAIN field.cells = 0..(m * field.freqs - 1)
      BY <3>2, <3>9 DEF Rerowed, Field, Shaped
    <3> DEFINE F == field.freqs
    <3>13. F \in Nat \ {0} /\ h.cells = [i \in 0..(m * F - 1) |-> field.cells[s[i \div F] * F + (i % F)]]
      BY <3>10, <3>11
    <3> HIDE DEF F
    <3>14. ASSUME NEW i \in 0..(m * F - 1) PROVE s[i \div F] = m - 1 - (i \div F)
      <4>1. i \div F \in 0..(m - 1)
        <5>1. m \in Nat \ {0} /\ F \in Nat \ {0} /\ i \in 0..(m * F - 1)
          BY <3>6, <3>13
        <5> QED BY ONLY <5>1, IndexCell
      <4> QED BY <3>7, <4>1
    <3>15. h.cells = [i \in 0..(m * F - 1) |-> field.cells[(m - 1 - (i \div F)) * F + (i % F)]]
      BY <3>13, <3>14
    <3> QED BY <3>9, <3>12, <3>15 DEF F, h
  <2> QED BY <2>1 DEF TimeReversible, MirrorOf
<1> QED BY <1>1, StagesKept, PTL
=============================================================================
