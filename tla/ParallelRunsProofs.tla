------------------------- MODULE ParallelRunsProofs -------------------------
(***************************************************************************)
(* Proofs about ParallelRuns, for any number of threads, any range of runs *)
(* and any runs that panic.                                                *)
(***************************************************************************)
EXTENDS ParallelRunsProps, FiniteSetTheorems, SequenceTheorems, TLAPS

USE ThreadsAssumption, RangeAssumption

LEMMA CapNat == in_flight_cap \in Nat
  BY DEF in_flight_cap, Larger

LEMMA WorkersFinite == IsFiniteSet(Workers) /\ \A S \in SUBSET Workers : IsFiniteSet(S)
<1>1. IsFiniteSet(Workers)
  <2>1. 1 \in Int /\ Threads \in Int
    OBVIOUS
  <2> QED
    BY <2>1, FS_Interval DEF Workers
<1> QED
  BY <1>1, FS_Subset

(* A notification only turns one waiting worker into an acquiring one.     *)
LEMMA NotifyMoves ==
  ASSUME NEW p \in [Workers -> WorkerState], NotifyOne(p)
  PROVE  /\ pc' \in [Workers -> WorkerState]
         /\ \A w \in Workers :
              pc'[w] = p[w] \/ (p[w] = "waiting" /\ pc'[w] = "acquire")
  BY DEF NotifyOne, WorkerState

-----------------------------------------------------------------------------
(* Types.                                                                  *)

LEMMA ChanFacts ==
  ASSUME chan \in Seq(Ranks)
  PROVE  /\ \A i \in DOMAIN chan : chan[i] \in Ranks
         /\ chan # <<>> => /\ Head(chan) \in Ranks /\ Tail(chan) \in Seq(Ranks)
                           /\ Head(chan) = chan[1]
                           /\ Len(Tail(chan)) = Len(chan) - 1
                           /\ \A i \in DOMAIN Tail(chan) : Tail(chan)[i] = chan[i + 1]
                           /\ DOMAIN Tail(chan) = 1..(Len(chan) - 1)
                           /\ DOMAIN chan = 1..Len(chan)
                           /\ Len(chan) \in Nat \ {0}
  BY ElementOfSeq, HeadTailProperties, LenProperties, EmptySeq

LEMMA AppendFacts ==
  ASSUME NEW S, NEW s \in Seq(S), NEW x \in S, NEW c, c = Append(s, x)
  PROVE  /\ Len(s) \in Nat /\ DOMAIN s = 1..Len(s) /\ DOMAIN c = 1..(Len(s) + 1)
         /\ c[Len(s) + 1] = x
         /\ \A i \in 1..Len(s) : c[i] = s[i]
<1>1. /\ c \in Seq(S) /\ Len(c) = Len(s) + 1
      /\ \A i \in 1..Len(s) : c[i] = s[i]
      /\ c[Len(s) + 1] = x
  BY AppendProperties
<1>2. /\ Len(s) \in Nat /\ DOMAIN s = 1..Len(s)
      /\ DOMAIN c = 1..Len(c)
  BY <1>1, LenProperties
<1> QED
  BY <1>1, <1>2

LEMMA TypeKept == TypeOK /\ ClaimsInRange /\ [Next]_vars => TypeOK'
<1> SUFFICES ASSUME TypeOK, ClaimsInRange, [Next]_vars PROVE TypeOK'
  OBVIOUS
<1> USE DEF TypeOK, panicVars, workVars, emitVars, coordVars, vars
<1>u. CASE UNCHANGED vars
  BY <1>u
<1>1. ASSUME NEW w \in Workers,
             Acquire(w) \/ Wait(w) \/ SpuriousWake(w) \/ Process(w) \/ Panic(w)
               \/ SendRefused(w) \/ Leave(w)
      PROVE  TypeOK'
  <2>1. pc' \in [Workers -> WorkerState]
    BY <1>1 DEF Acquire, Wait, SpuriousWake, Process, Panic, SendRefused, Leave, Goto,
                WorkerState
  <2>2. count' \in Nat
    BY <1>1 DEF Acquire, Wait, SpuriousWake, Process, Panic, SendRefused, Leave
  <2>3. UNCHANGED <<panicVars, workVars, coordVars, chan>>
    BY <1>1 DEF Acquire, Wait, SpuriousWake, Process, Panic, SendRefused, Leave
  <2> QED
    BY <2>1, <2>2, <2>3
<1>2. ASSUME NEW w \in Workers, Claim(w) PROVE TypeOK'
  BY <1>2 DEF Claim, Goto, WorkerState
<1>3. ASSUME NEW w \in Workers, Send(w) PROVE TypeOK'
  <2>1. rank[w] \in Ranks
    BY <1>3 DEF Send, ClaimsInRange, Carrying
  <2>2. chan' \in Seq(Ranks)
    BY <1>3, <2>1, AppendProperties DEF Send
  <2> QED
    BY <1>3, <2>2 DEF Send, Goto, WorkerState
<1>4. ASSUME NEW w \in Workers, LeaveNotify(w) PROVE TypeOK'
  <2>1. [pc EXCEPT ![w] = "exited"] \in [Workers -> WorkerState]
    BY DEF WorkerState
  <2> QED
    BY <1>4, <2>1, NotifyMoves DEF LeaveNotify
<1>5. ASSUME Receive PROVE TypeOK'
  BY <1>5, ChanFacts DEF Receive
<1>6. ASSUME Emit PROVE TypeOK'
  <2>1. emitted' \in Seq(Ranks)
    BY <1>6, AppendProperties DEF Emit
  <2>2. next_emit' \in RunStart..RunEnd
    BY <1>6 DEF Emit, Ranks
  <2> QED
    BY <1>6, <2>1, <2>2 DEF Emit
<1>7. ASSUME EmitPanic PROVE TypeOK'
  BY <1>7, EmptySeq DEF EmitPanic
<1>8. ASSUME Release \/ DrainEnd \/ Disconnect PROVE TypeOK'
  BY <1>8 DEF Release, DrainEnd, Disconnect
<1>9. ASSUME ReleaseNotify PROVE TypeOK'
  BY <1>9, NotifyMoves DEF ReleaseNotify
<1> QED
  BY <1>u, <1>1, <1>2, <1>3, <1>4, <1>5, <1>6, <1>7, <1>8, <1>9 DEF Next, Coordinator, Worker

-----------------------------------------------------------------------------
(* Permits.                                                                *)

Holding(p) == {w \in Workers : p[w] \in {"claim", "process", "send", "leave", "panicked"}}

(* One worker's step changes the number of holders by one at most.         *)
LEMMA HoldingStep ==
  ASSUME NEW p, NEW q, NEW w \in Workers,
         \A v \in Workers : v # w => q[v] = p[v]
  PROVE  /\ Cardinality(Holding(p)) \in Nat /\ Cardinality(Holding(q)) \in Nat
         /\ w \in Holding(p) => Cardinality(Holding(p)) >= 1
         /\ w \in Holding(p) /\ w \in Holding(q) =>
              Cardinality(Holding(q)) = Cardinality(Holding(p))
         /\ w \notin Holding(p) /\ w \notin Holding(q) =>
              Cardinality(Holding(q)) = Cardinality(Holding(p))
         /\ w \in Holding(p) /\ w \notin Holding(q) =>
              Cardinality(Holding(q)) = Cardinality(Holding(p)) - 1
         /\ w \notin Holding(p) /\ w \in Holding(q) =>
              Cardinality(Holding(q)) = Cardinality(Holding(p)) + 1
<1>1. IsFiniteSet(Holding(p)) /\ IsFiniteSet(Holding(q))
  BY WorkersFinite DEF Holding
<1>2. Cardinality(Holding(p)) \in Nat /\ Cardinality(Holding(q)) \in Nat
  BY <1>1, FS_CardinalityType
<1>3. w \in Holding(p) /\ w \notin Holding(q) => Holding(q) = Holding(p) \ {w}
  BY DEF Holding
<1>4. w \notin Holding(p) /\ w \in Holding(q) => Holding(q) = Holding(p) \cup {w}
  BY DEF Holding
<1>5. (w \in Holding(p) <=> w \in Holding(q)) => Holding(q) = Holding(p)
  BY DEF Holding
<1>6. w \in Holding(p) => Cardinality(Holding(p)) >= 1
  BY <1>1, <1>2, FS_EmptySet
<1>7. Cardinality(Holding(p) \ {w}) =
        IF w \in Holding(p) THEN Cardinality(Holding(p)) - 1 ELSE Cardinality(Holding(p))
  BY <1>1, FS_RemoveElement
<1>8. Cardinality(Holding(p) \cup {w}) =
        IF w \in Holding(p) THEN Cardinality(Holding(p)) ELSE Cardinality(Holding(p)) + 1
  BY <1>1, FS_AddElement
<1> QED
  BY <1>2, <1>3, <1>4, <1>5, <1>6, <1>7, <1>8

LEMMA BufferFinite ==
  ASSUME NEW b \in SUBSET Ranks
  PROVE  IsFiniteSet(b) /\ Cardinality(b) \in Nat
<1>1. IsFiniteSet(Ranks)
  <2>1. RunStart \in Int /\ RunEnd - 1 \in Int
    OBVIOUS
  <2> QED
    BY <2>1, FS_Interval DEF Ranks
<1> QED
  BY <1>1, FS_Subset, FS_CardinalityType

LEMMA PermitsKept ==
  TypeOK /\ TypeOK' /\ PermitsConserved /\ [Next]_vars => PermitsConserved'
<1> SUFFICES ASSUME TypeOK, TypeOK', PermitsConserved, [Next]_vars
             PROVE  PermitsConserved'
  OBVIOUS
<1> DEFINE H == Cardinality(Holding(pc))
           B == Cardinality(buffer)
           R == IF cpc = "release" THEN 1 ELSE 0
<1>a. /\ count \in Nat /\ Len(chan) \in Nat /\ in_flight_cap \in Nat
      /\ IsFiniteSet(buffer) /\ B \in Nat /\ R \in Nat
      /\ count' \in Nat /\ Len(chan)' \in Nat
      /\ IsFiniteSet(buffer') /\ B' \in Nat
  <2>1. count \in Nat /\ count' \in Nat /\ in_flight_cap \in Nat /\ R \in Nat
    BY CapNat DEF TypeOK
  <2>2. Len(chan) \in Nat /\ Len(chan') \in Nat
    BY LenProperties DEF TypeOK
  <2>3. buffer \in SUBSET Ranks /\ buffer' \in SUBSET Ranks
    BY DEF TypeOK
  <2> QED
    BY <2>1, <2>2, <2>3, BufferFinite
<1>b. H \in Nat
  BY WorkersFinite, FS_CardinalityType DEF Holding
<1>c. count + H + Len(chan) + B + R <= in_flight_cap
  BY DEF PermitsConserved, Holders, Holding
<1>d. SUFFICES count' + H' + Len(chan)' + B' + R' <= in_flight_cap
  BY DEF PermitsConserved, Holders, Holding
<1> USE DEF panicVars, workVars, emitVars, coordVars, vars
<1>w. ASSUME NEW w \in Workers,
             Acquire(w) \/ Wait(w) \/ SpuriousWake(w) \/ Claim(w) \/ Process(w) \/ Panic(w)
               \/ Send(w) \/ SendRefused(w) \/ Leave(w)
      PROVE  count' + H' + Len(chan)' + B' + R' <= in_flight_cap
  <2>1. \A v \in Workers : v # w => pc'[v] = pc[v]
    BY <1>w DEF TypeOK, Acquire, Wait, SpuriousWake, Claim, Process, Panic, Send,
                SendRefused, Leave, Goto
  <2>2. /\ H' \in Nat
        /\ w \in Holding(pc) /\ w \in Holding(pc') => H' = H
        /\ w \notin Holding(pc) /\ w \notin Holding(pc') => H' = H
        /\ w \in Holding(pc) /\ w \notin Holding(pc') => H' = H - 1
        /\ w \notin Holding(pc) /\ w \in Holding(pc') => H' = H + 1
    BY <2>1, HoldingStep
  <2>3. /\ w \in Holding(pc) <=> pc[w] \in {"claim", "process", "send", "leave", "panicked"}
        /\ w \in Holding(pc') <=> pc'[w] \in {"claim", "process", "send", "leave", "panicked"}
    BY DEF Holding
  <2>4. B' = B /\ R' = R
    BY <1>w DEF Acquire, Wait, SpuriousWake, Claim, Process, Panic, Send, SendRefused, Leave
  <2> HIDE DEF H, B, R
  <2>5. CASE Acquire(w)
    <3>1. H' = H + 1 /\ count' = count - 1 /\ Len(chan)' = Len(chan)
      BY <2>5, <2>2, <2>3 DEF Acquire, Goto, TypeOK
    <3> QED  BY <3>1, <2>4, <1>a, <1>b, <1>c
  <2>6. CASE Wait(w) \/ SpuriousWake(w)
    <3>1. H' = H /\ count' = count /\ Len(chan)' = Len(chan)
      BY <2>6, <2>2, <2>3 DEF Wait, SpuriousWake, Goto, TypeOK
    <3> QED  BY <3>1, <2>4, <1>a, <1>b, <1>c
  <2>7. CASE Claim(w) \/ Process(w) \/ Panic(w) \/ SendRefused(w)
    <3>1. H' = H /\ count' = count /\ Len(chan)' = Len(chan)
      BY <2>7, <2>2, <2>3 DEF Claim, Process, Panic, SendRefused, Goto, TypeOK
    <3> QED  BY <3>1, <2>4, <1>a, <1>b, <1>c
  <2>8. CASE Send(w)
    <3>1. H' = H - 1 /\ count' = count /\ Len(chan)' = Len(chan) + 1
      BY <2>8, <2>2, <2>3, AppendProperties DEF Send, Goto, TypeOK
    <3> QED  BY <3>1, <2>4, <1>a, <1>b, <1>c
  <2>9. CASE Leave(w)
    <3>1. H' = H - 1 /\ count' = count + 1 /\ Len(chan)' = Len(chan)
      BY <2>9, <2>2, <2>3 DEF Leave, Goto, TypeOK
    <3> QED  BY <3>1, <2>4, <1>a, <1>b, <1>c
  <2> QED
    BY <1>w, <2>5, <2>6, <2>7, <2>8, <2>9
<1>n. ASSUME NEW w \in Workers, LeaveNotify(w)
      PROVE  count' + H' + Len(chan)' + B' + R' <= in_flight_cap
  <2>1. [pc EXCEPT ![w] = "exited"] \in [Workers -> WorkerState]
    BY DEF WorkerState, TypeOK
  <2>2. Holding(pc') = Holding(pc)
    BY <1>n, <2>1, NotifyMoves DEF LeaveNotify, Holding, TypeOK
  <2> QED
    BY <1>n, <1>c, <2>2 DEF LeaveNotify
<1>k. ASSUME Coordinator
      PROVE  count' + H' + Len(chan)' + B' + R' <= in_flight_cap
  <2>1. Holding(pc') = Holding(pc)
    <3>1. CASE ReleaseNotify
      BY <3>1, NotifyMoves DEF ReleaseNotify, Holding, TypeOK
    <3> QED
      BY <1>k, <3>1 DEF Coordinator, Receive, Emit, EmitPanic, Release, DrainEnd, Disconnect
  <2>2. H' = H
    BY <2>1
  <2>3. CASE Receive
    <3>1. Len(chan)' = Len(chan) - 1 /\ count' = count
      <4>1. chan \in Seq(Ranks) /\ chan # <<>>
        BY <2>3 DEF Receive, TypeOK
      <4>2. Len(Tail(chan)) = Len(chan) - 1
        BY <4>1, HeadTailProperties
      <4> QED
        BY <2>3, <4>2 DEF Receive
    <3>2. B' <= B + 1
      <4>1. PICK x : x = Head(chan)
        OBVIOUS
      <4>2. Cardinality(buffer \cup {x}) = IF x \in buffer THEN B ELSE B + 1
        BY <1>a, FS_AddElement
      <4>3. buffer' = buffer \cup {x}
        BY <2>3, <4>1 DEF Receive
      <4> QED
        BY <4>2, <4>3, <1>a
    <3>3. R' = 0
      BY <2>3 DEF Receive
    <3> HIDE DEF H, B, R
    <3> QED  BY <2>2, <3>1, <3>2, <3>3, <1>a, <1>b, <1>c
  <2>4. CASE Emit
    <3>1. Len(chan)' = Len(chan) /\ count' = count
      BY <2>4 DEF Emit
    <3>2. B' = B - 1
      BY <2>4, <1>a, FS_RemoveElement DEF Emit
    <3>3. R = 0 /\ R' = 1
      BY <2>4 DEF Emit
    <3> HIDE DEF H, B, R
    <3> QED  BY <2>2, <3>1, <3>2, <3>3, <1>a, <1>b, <1>c
  <2>5. CASE EmitPanic
    <3>1. Len(chan)' = 0 /\ count' = count
      BY <2>5, EmptySeq DEF EmitPanic
    <3>2. B' = 0
      BY <2>5, FS_EmptySet DEF EmitPanic
    <3>3. R' = 0
      BY <2>5 DEF EmitPanic
    <3> HIDE DEF H, B, R
    <3> QED  BY <2>2, <3>1, <3>2, <3>3, <1>a, <1>b, <1>c
  <2>6. CASE Release
    <3>1. Len(chan)' = Len(chan) /\ count' = count + 1 /\ B' = B /\ R = 1 /\ R' = 0
      BY <2>6 DEF Release
    <3> HIDE DEF H, B, R
    <3> QED  BY <2>2, <3>1, <1>a, <1>b, <1>c
  <2>7. CASE ReleaseNotify \/ DrainEnd \/ Disconnect
    <3>1. Len(chan)' = Len(chan) /\ count' = count /\ B' = B /\ R = 0 /\ R' = 0
      BY <2>7 DEF ReleaseNotify, DrainEnd, Disconnect
    <3> HIDE DEF H, B, R
    <3> QED  BY <2>2, <3>1, <1>a, <1>b, <1>c
  <2> QED
    BY <1>k, <2>3, <2>4, <2>5, <2>6, <2>7 DEF Coordinator
<1>u. CASE UNCHANGED vars
  BY <1>u, <1>c
<1> QED
  BY <1>w, <1>n, <1>k, <1>u DEF Next, Worker

-----------------------------------------------------------------------------
(* Order.                                                                  *)

LEMMA OrderKept == TypeOK /\ EmittedInOrder /\ [Next]_vars => EmittedInOrder'
<1> SUFFICES ASSUME TypeOK, EmittedInOrder, [Next]_vars PROVE EmittedInOrder'
  OBVIOUS
<1>1. CASE Emit
  <2>1. PICK e : e = next_emit
    OBVIOUS
  <2>2. e \in Ranks /\ e \in Nat /\ emitted \in Seq(Ranks) /\ Len(emitted) = e - RunStart
    BY <1>1, <2>1 DEF Emit, TypeOK, Ranks, EmittedInOrder
  <2>3. emitted' = Append(emitted, e) /\ next_emit' = e + 1
    BY <1>1, <2>1 DEF Emit
  <2>4. /\ Len(Append(emitted, e)) = Len(emitted) + 1
        /\ \A i \in 1..Len(emitted) : Append(emitted, e)[i] = emitted[i]
        /\ Append(emitted, e)[Len(emitted) + 1] = e
        /\ DOMAIN Append(emitted, e) = 1..(Len(emitted) + 1)
        /\ DOMAIN emitted = 1..Len(emitted) /\ Len(emitted) \in Nat
    BY <2>2, AppendProperties, LenProperties
  <2>5. Len(emitted') = next_emit' - RunStart
    BY <2>2, <2>3, <2>4
  <2>6. \A i \in DOMAIN emitted' : emitted'[i] = RunStart + i - 1
    <3> SUFFICES ASSUME NEW i \in 1..(Len(emitted) + 1)
                 PROVE  Append(emitted, e)[i] = RunStart + i - 1
      BY <2>3, <2>4
    <3>1. CASE i = Len(emitted) + 1
      BY <3>1, <2>2, <2>4
    <3>2. CASE i \in 1..Len(emitted)
      BY <3>2, <2>4 DEF EmittedInOrder
    <3> QED
      BY <3>1, <3>2, <2>4
  <2> QED
    BY <2>5, <2>6 DEF EmittedInOrder
<1>2. CASE UNCHANGED emitVars
  BY <1>2 DEF emitVars, EmittedInOrder
<1>3. Emit \/ UNCHANGED emitVars
  BY DEF Next, Coordinator, Worker, Acquire, Wait, SpuriousWake, Claim, Process, Panic,
         Send, SendRefused, Leave, LeaveNotify, Receive, EmitPanic, Release,
         ReleaseNotify, DrainEnd, Disconnect, vars, coordVars, emitVars
<1> QED
  BY <1>1, <1>2, <1>3

-----------------------------------------------------------------------------
(* Where a run is.                                                         *)

LEMMA ClaimsKept == TypeOK /\ ClaimsInRange /\ [Next]_vars => ClaimsInRange'
<1> SUFFICES ASSUME TypeOK, ClaimsInRange, [Next]_vars,
                    NEW v \in Workers, Carrying(v)'
             PROVE  rank'[v] \in Ranks /\ rank'[v] < next_rank'
  BY DEF ClaimsInRange
<1> USE DEF panicVars, workVars, emitVars, coordVars, vars
<1>1. ASSUME NEW w \in Workers, Claim(w)
      PROVE  rank'[v] \in Ranks /\ rank'[v] < next_rank'
  BY <1>1 DEF Claim, Goto, Carrying, ClaimsInRange, TypeOK, Ranks
<1>2. ASSUME NEW w \in Workers, LeaveNotify(w)
      PROVE  rank'[v] \in Ranks /\ rank'[v] < next_rank'
  <2>1. [pc EXCEPT ![w] = "exited"] \in [Workers -> WorkerState]
    BY DEF WorkerState, TypeOK
  <2>2. Carrying(v)
    BY <1>2, <2>1, NotifyMoves DEF LeaveNotify, Carrying, TypeOK
  <2> QED
    BY <1>2, <2>2 DEF LeaveNotify, ClaimsInRange
<1>3. ASSUME ReleaseNotify
      PROVE  rank'[v] \in Ranks /\ rank'[v] < next_rank'
  <2>1. Carrying(v)
    BY <1>3, NotifyMoves DEF ReleaseNotify, Carrying, TypeOK
  <2> QED
    BY <1>3, <2>1 DEF ReleaseNotify, ClaimsInRange
<1>4. ASSUME NEW w \in Workers,
             Acquire(w) \/ Wait(w) \/ SpuriousWake(w) \/ Process(w) \/ Panic(w)
               \/ Send(w) \/ SendRefused(w) \/ Leave(w)
      PROVE  rank'[v] \in Ranks /\ rank'[v] < next_rank'
  <2>1. Carrying(v)
    BY <1>4 DEF Acquire, Wait, SpuriousWake, Process, Panic, Send, SendRefused, Leave,
                Goto, Carrying, TypeOK
  <2>2. UNCHANGED workVars
    BY <1>4 DEF Acquire, Wait, SpuriousWake, Process, Panic, Send, SendRefused, Leave
  <2> QED
    BY <2>1, <2>2 DEF ClaimsInRange
<1>5. CASE Receive \/ Emit \/ EmitPanic \/ Release \/ DrainEnd \/ Disconnect \/ UNCHANGED vars
  BY <1>5 DEF Receive, Emit, EmitPanic, Release, DrainEnd, Disconnect, Carrying, ClaimsInRange
<1> QED
  BY <1>1, <1>2, <1>3, <1>4, <1>5 DEF Next, Coordinator, Worker

(* A step that leaves ranks, channel, buffer and emits alone, and no worker *)
(* without its run, moves no run.                                          *)
LEMMA AccountedStill ==
  ASSUME RunsAccounted, UNCHANGED <<rank, next_rank, chan, buffer, next_emit>>,
         cpc' # "unwound" => cpc # "unwound",
         \A w \in Workers : Carrying(w) => Carrying(w)'
  PROVE  RunsAccounted'
  BY DEF RunsAccounted

LEMMA AccountedKept ==
  TypeOK /\ ClaimsInRange /\ RunsAccounted /\ [Next]_vars => RunsAccounted'
<1> SUFFICES ASSUME TypeOK, ClaimsInRange, RunsAccounted, [Next]_vars PROVE RunsAccounted'
  OBVIOUS
<1> DEFINE Loc(r) == \/ r \in buffer
                     \/ \E i \in DOMAIN chan : chan[i] = r
                     \/ \E w \in Workers : Carrying(w) /\ rank[w] = r
<1> USE DEF panicVars, workVars, emitVars, coordVars, vars
<1>1. ASSUME NEW w \in Workers, Claim(w) PROVE RunsAccounted'
  <2> SUFFICES ASSUME cpc # "unwound", NEW r \in next_emit..(RunEnd - 1), r < next_rank + 1
               PROVE  Loc(r)'
    BY <1>1 DEF Claim, RunsAccounted
  <2>1. CASE r = next_rank
    <3>1. pc'[w] = "process" /\ rank'[w] = r
      BY <1>1, <2>1 DEF Claim, Goto, TypeOK
    <3> QED
      BY <3>1 DEF Carrying
  <2>2. CASE r < next_rank
    <3>1. Loc(r)
      BY <2>2 DEF RunsAccounted
    <3>2. \A v \in Workers : Carrying(v) => pc'[v] = pc[v] /\ rank'[v] = rank[v]
      BY <1>1 DEF Claim, Goto, Carrying, TypeOK
    <3>3. buffer' = buffer /\ chan' = chan
      BY <1>1 DEF Claim
    <3> QED
      BY <3>1, <3>2, <3>3 DEF Carrying
  <2>3. r = next_rank \/ r < next_rank
    BY DEF TypeOK
  <2> QED
    BY <2>1, <2>2, <2>3
<1>2. ASSUME NEW w \in Workers, Send(w) PROVE RunsAccounted'
  <2> SUFFICES ASSUME cpc # "unwound", NEW r \in next_emit..(RunEnd - 1), r < next_rank
               PROVE  Loc(r)'
    BY <1>2 DEF Send, RunsAccounted
  <2>1. Loc(r)
    BY DEF RunsAccounted
  <2>2. PICK x : x = rank[w]
    OBVIOUS
  <2>3. chan \in Seq(Ranks) /\ x \in Ranks
    BY <1>2, <2>2 DEF Send, ClaimsInRange, Carrying, TypeOK
  <2> PICK c : c = chan'
    OBVIOUS
  <2>4. /\ DOMAIN chan = 1..Len(chan) /\ DOMAIN c = 1..(Len(chan) + 1) /\ Len(chan) \in Nat
        /\ c[Len(chan) + 1] = x
        /\ \A i \in 1..Len(chan) : c[i] = chan[i]
    <3>1. c = Append(chan, x)
      BY <1>2, <2>2 DEF Send
    <3> QED
      BY <2>3, <3>1, AppendFacts
  <2>5. \A v \in Workers : v # w /\ Carrying(v) => Carrying(v)' /\ rank'[v] = rank[v]
    BY <1>2 DEF Send, Goto, Carrying, TypeOK
  <2>6. CASE r = x
    <3>1. Len(chan) + 1 \in DOMAIN c /\ c[Len(chan) + 1] = r
      BY <2>6, <2>4
    <3> QED
      BY <3>1
  <2>7. CASE \E i \in DOMAIN chan : chan[i] = r
    <3>1. PICK i \in DOMAIN chan : chan[i] = r
      BY <2>7
    <3>2. i \in DOMAIN c /\ c[i] = r
      BY <3>1, <2>4
    <3> QED
      BY <3>2
  <2>8. CASE r \in buffer
    BY <1>2, <2>8 DEF Send
  <2>9. CASE r # x /\ \E v \in Workers : Carrying(v) /\ rank[v] = r
    BY <2>9, <2>2, <2>5
  <2> QED
    BY <2>1, <2>6, <2>7, <2>8, <2>9
<1>3. ASSUME NEW w \in Workers,
             Acquire(w) \/ Wait(w) \/ SpuriousWake(w) \/ Process(w) \/ Panic(w) \/ Leave(w)
      PROVE  RunsAccounted'
  <2>1. \A v \in Workers : Carrying(v) => Carrying(v)'
    BY <1>3 DEF Acquire, Wait, SpuriousWake, Process, Panic, Leave, Goto, Carrying, TypeOK
  <2>2. UNCHANGED <<rank, next_rank, chan, buffer, next_emit, cpc>>
    BY <1>3 DEF Acquire, Wait, SpuriousWake, Process, Panic, Leave
  <2> QED
    BY <2>1, <2>2, AccountedStill
<1>4. ASSUME NEW w \in Workers, LeaveNotify(w) PROVE RunsAccounted'
  <2>1. [pc EXCEPT ![w] = "exited"] \in [Workers -> WorkerState]
    BY DEF WorkerState, TypeOK
  <2>2. \A v \in Workers : Carrying(v) => Carrying(v)'
    BY <1>4, <2>1, NotifyMoves DEF LeaveNotify, Carrying, TypeOK
  <2> QED
    BY <1>4, <2>2, AccountedStill DEF LeaveNotify
<1>5. CASE ReleaseNotify
  <2>1. \A v \in Workers : Carrying(v) => Carrying(v)'
    BY <1>5, NotifyMoves DEF ReleaseNotify, Carrying, TypeOK
  <2> QED
    BY <1>5, <2>1, AccountedStill DEF ReleaseNotify
<1>6. CASE Receive
  <2> SUFFICES ASSUME NEW r \in next_emit..(RunEnd - 1), r < next_rank
               PROVE  Loc(r)'
    BY <1>6 DEF Receive, RunsAccounted
  <2>1. Loc(r)
    BY <1>6 DEF RunsAccounted, Receive
  <2>2. /\ chan' = Tail(chan) /\ buffer' = buffer \cup {Head(chan)} /\ UNCHANGED <<pc, rank>>
        /\ chan # <<>>
    BY <1>6 DEF Receive
  <2>3. /\ Head(chan) = chan[1]
        /\ DOMAIN chan = 1..Len(chan) /\ Len(chan) \in Nat
        /\ DOMAIN Tail(chan) = 1..(Len(chan) - 1)
        /\ \A i \in 1..(Len(chan) - 1) : Tail(chan)[i] = chan[i + 1]
    BY <2>2, ChanFacts DEF TypeOK
  <2>4. CASE \E i \in DOMAIN chan : chan[i] = r
    <3>1. PICK i \in 1..Len(chan) : chan[i] = r
      BY <2>4, <2>3
    <3>2. CASE i = 1
      BY <3>1, <3>2, <2>2, <2>3
    <3>3. CASE i > 1
      <4>1. i - 1 \in 1..(Len(chan) - 1) /\ Tail(chan)[i - 1] = r
        BY <3>1, <3>3, <2>3
      <4> QED
        BY <4>1, <2>2, <2>3
    <3> QED
      BY <3>1, <3>2, <3>3, <2>3
  <2>5. CASE r \in buffer \/ \E v \in Workers : Carrying(v) /\ rank[v] = r
    BY <2>5, <2>2 DEF Carrying
  <2> QED
    BY <2>1, <2>4, <2>5
<1>7. CASE Emit
  BY <1>7 DEF Emit, RunsAccounted, TypeOK, Carrying
<1>8. CASE EmitPanic \/ \E w \in Workers : SendRefused(w)
  BY <1>8 DEF EmitPanic, SendRefused, RunsAccounted
<1>9. CASE Release \/ DrainEnd \/ Disconnect \/ UNCHANGED vars
  <2>1. UNCHANGED <<pc, rank, next_rank, chan, buffer, next_emit>> /\ (cpc' # "unwound" => cpc # "unwound")
    BY <1>9 DEF Release, DrainEnd, Disconnect
  <2> QED
    BY <2>1, AccountedStill DEF Carrying
<1> QED
  BY <1>1, <1>2, <1>3, <1>4, <1>5, <1>6, <1>7, <1>8, <1>9 DEF Next, Coordinator, Worker

(* ResultsSound, for one worker's step.                                    *)
LEMMA ResultsByWorker ==
  ASSUME TypeOK, ResultsSound, NEW w \in Workers, Worker(w) \/ SpuriousWake(w)
  PROVE  ResultsSound'
<1> USE DEF panicVars, workVars, emitVars, coordVars
<1>1. UNCHANGED <<doomed, choked, buffer, next_emit>>
  BY DEF Worker, Acquire, Wait, SpuriousWake, Claim, Process, Panic, Send, SendRefused,
         Leave, LeaveNotify
<1>2. /\ \A v \in Workers : pc'[v] = "send" => rank'[v] \notin doomed
      /\ \A v \in Workers : pc'[v] = "panicked" => rank'[v] \in doomed
  <2>1. CASE LeaveNotify(w)
    <3>1. [pc EXCEPT ![w] = "exited"] \in [Workers -> WorkerState]
      BY DEF WorkerState, TypeOK
    <3>2. \A v \in Workers : pc'[v] \in {"send", "panicked"} => pc'[v] = pc[v]
      BY <2>1, <3>1, NotifyMoves DEF LeaveNotify, TypeOK
    <3> QED
      BY <2>1, <3>2 DEF LeaveNotify, ResultsSound
  <2>2. CASE ~LeaveNotify(w)
    BY <2>2 DEF Worker, Acquire, Wait, SpuriousWake, Claim, Process, Panic, Send,
                SendRefused, Leave, Goto, TypeOK, ResultsSound
  <2> QED
    BY <2>1, <2>2
<1>3. \A i \in DOMAIN chan' : chan'[i] \notin doomed
  <2>1. CASE Send(w)
    <3>1. PICK x : x = rank[w]
      OBVIOUS
    <3>2. x \notin doomed /\ chan' = Append(chan, x)
      BY <2>1, <3>1 DEF Send, ResultsSound
    <3>3. /\ Len(chan) \in Nat /\ DOMAIN chan = 1..Len(chan)
          /\ DOMAIN Append(chan, x) = 1..(Len(chan) + 1)
          /\ \A i \in 1..(Len(chan) + 1) :
               Append(chan, x)[i] = IF i = Len(chan) + 1 THEN x ELSE chan[i]
      <4>1. chan \in Seq(Nat) /\ x \in Nat
        BY <3>1 DEF TypeOK, Ranks
      <4> QED
        BY <4>1, AppendProperties, LenProperties
    <3>4. \A i \in DOMAIN chan : chan[i] \notin doomed
      BY DEF ResultsSound
    <3> QED
      BY <3>2, <3>3, <3>4
  <2>2. CASE ~Send(w)
    <3>1. chan' = chan
      BY <2>2 DEF Worker, Acquire, Wait, SpuriousWake, Claim, Process, Panic, SendRefused,
                  Leave, LeaveNotify
    <3> QED
      BY <3>1 DEF ResultsSound
  <2> QED
    BY <2>1, <2>2
<1> QED
  BY <1>1, <1>2, <1>3 DEF ResultsSound, Panics

LEMMA ResultsKept == TypeOK /\ ResultsSound /\ [Next]_vars => ResultsSound'
<1> SUFFICES ASSUME TypeOK, ResultsSound, [Next]_vars PROVE ResultsSound'
  OBVIOUS
<1> USE DEF panicVars, workVars, emitVars, coordVars, vars
<1>1. CASE Receive
  <2>1. /\ chan' = Tail(chan) /\ buffer' = buffer \cup {Head(chan)}
        /\ chan # <<>>
        /\ UNCHANGED <<pc, rank, doomed, choked, next_emit>>
    BY <1>1 DEF Receive
  <2>2. Head(chan) \notin doomed /\ \A i \in DOMAIN Tail(chan) : Tail(chan)[i] \notin doomed
    <3>1. /\ Head(chan) = chan[1] /\ DOMAIN chan = 1..Len(chan) /\ Len(chan) \in Nat \ {0}
          /\ DOMAIN Tail(chan) = 1..(Len(chan) - 1)
          /\ \A i \in DOMAIN Tail(chan) : Tail(chan)[i] = chan[i + 1]
      BY <2>1, ChanFacts DEF TypeOK
    <3>2. \A i \in 1..Len(chan) : chan[i] \notin doomed
      BY <3>1 DEF ResultsSound
    <3> QED
      BY <3>1, <3>2
  <2> QED
    BY <2>1, <2>2 DEF ResultsSound, Panics
<1>2. CASE Emit
  <2>1. /\ next_emit \notin Panics
        /\ next_emit' = next_emit + 1 /\ buffer' = buffer \ {next_emit}
        /\ UNCHANGED <<pc, rank, doomed, choked, chan>>
    BY <1>2 DEF Emit, ResultsSound, Panics
  <2>2. \A r \in Panics : r >= next_emit + 1
    BY <2>1 DEF ResultsSound, TypeOK, Ranks, Panics
  <2> QED
    BY <2>1, <2>2 DEF ResultsSound, Panics
<1>3. CASE EmitPanic
  BY <1>3, EmptySeq DEF EmitPanic, ResultsSound, Panics
<1>4. CASE ReleaseNotify
  <2>1. \A v \in Workers : pc'[v] \in {"send", "panicked"} => pc'[v] = pc[v]
    BY <1>4, NotifyMoves DEF ReleaseNotify, TypeOK
  <2>2. UNCHANGED <<rank, doomed, choked, chan, buffer, next_emit>>
    BY <1>4 DEF ReleaseNotify
  <2> QED
    BY <2>1, <2>2 DEF ResultsSound, Panics
<1>5. CASE Release \/ DrainEnd \/ Disconnect \/ UNCHANGED vars
  <2>1. UNCHANGED <<pc, rank, doomed, choked, chan, buffer, next_emit>>
    BY <1>5 DEF Release, DrainEnd, Disconnect
  <2> QED
    BY <2>1 DEF ResultsSound, Panics
<1> QED
  BY <1>1, <1>2, <1>3, <1>4, <1>5, ResultsByWorker DEF Next, Coordinator

LEMMA EndsKept == TypeOK /\ EndsSound /\ [Next]_vars => EndsSound'
<1> SUFFICES ASSUME TypeOK, EndsSound, [Next]_vars PROVE EndsSound'
  OBVIOUS
<1> USE DEF panicVars, workVars, emitVars, coordVars, vars
<1>1. ASSUME NEW w \in Workers, Worker(w) \/ SpuriousWake(w) PROVE EndsSound'
  <2>1. UNCHANGED <<coordVars, choked>> /\ next_rank' >= next_rank
    BY <1>1 DEF Worker, Acquire, Wait, SpuriousWake, Claim, Process, Panic, Send,
                SendRefused, Leave, LeaveNotify, TypeOK
  <2>2. cpc # "done"
    BY <1>1 DEF EndsSound, Ended, Worker, Acquire, Wait, SpuriousWake, Claim, Process,
                Panic, Send, SendRefused, Leave, LeaveNotify
  <2>3. ASSUME NEW v \in Workers, pc'[v] \in {"leave", "notify", "exited"}
        PROVE  next_rank' >= RunEnd \/ cpc = "unwound"
    <3>1. CASE LeaveNotify(w)
      <4>1. [pc EXCEPT ![w] = "exited"] \in [Workers -> WorkerState]
        BY DEF WorkerState, TypeOK
      <4>2. pc[v] \in {"leave", "notify", "exited"}
        BY <2>3, <3>1, <4>1, NotifyMoves DEF LeaveNotify, TypeOK
      <4> QED
        BY <3>1, <4>2 DEF LeaveNotify, EndsSound
    <3>2. CASE Claim(w)
      BY <2>3, <3>2 DEF Claim, Goto, TypeOK, EndsSound
    <3>3. CASE ~LeaveNotify(w) /\ ~Claim(w)
      BY <1>1, <2>3, <3>3 DEF Worker, Acquire, Wait, SpuriousWake, Process, Panic, Send,
                  SendRefused, Leave, Goto, TypeOK, EndsSound
    <3> QED
      BY <3>1, <3>2, <3>3
  <2> QED
    BY <2>1, <2>2, <2>3 DEF EndsSound
<1>2. CASE ReleaseNotify
  <2>1. \A v \in Workers : pc'[v] \in {"leave", "notify", "exited"} => pc'[v] = pc[v]
    BY <1>2, NotifyMoves DEF ReleaseNotify, TypeOK
  <2> QED
    BY <1>2, <2>1 DEF ReleaseNotify, EndsSound
<1>3. CASE Receive \/ Emit \/ EmitPanic \/ Release
  BY <1>3 DEF Receive, Emit, EmitPanic, Release, EndsSound
<1>4. CASE DrainEnd
  BY <1>4 DEF DrainEnd, Drained, EndsSound
<1>5. CASE Disconnect
  BY <1>5 DEF Disconnect, EndsSound, Ended
<1>6. CASE UNCHANGED vars
  BY <1>6 DEF EndsSound, Ended
<1> QED
  BY <1>1, <1>2, <1>3, <1>4, <1>5, <1>6 DEF Next, Coordinator

-----------------------------------------------------------------------------
(* The theorems.                                                           *)

LEMMA Initially == Init => IInv
<1> SUFFICES ASSUME Init PROVE IInv
  OBVIOUS
<1> USE DEF Init
<1>1. TypeOK
  BY CapNat, EmptySeq DEF TypeOK, WorkerState, Ranks
<1>2. Holders = {}
  BY DEF Holders
<1>3. PermitsConserved
  BY <1>2, CapNat, FS_EmptySet, EmptySeq DEF PermitsConserved
<1>4. EmittedInOrder
  BY EmptySeq DEF EmittedInOrder
<1>5. ClaimsInRange /\ RunsAccounted
  BY DEF ClaimsInRange, RunsAccounted, Carrying
<1>6. ResultsSound /\ EndsSound
  BY EmptySeq DEF ResultsSound, EndsSound, Panics, Ranks
<1> QED
  BY <1>1, <1>3, <1>4, <1>5, <1>6 DEF IInv

LEMMA StepKeeps == IInv /\ [Next]_vars => IInv'
  BY TypeKept, PermitsKept, OrderKept, ClaimsKept, AccountedKept, ResultsKept, EndsKept
     DEF IInv

(* The invariant holds for any number of threads and any panics.           *)
THEOREM RunsInvariant == Spec => []IInv
  BY Initially, StepKeeps, PTL DEF Spec

(* At most in_flight_cap runs are resident, however the threads interleave *)
(* and whether or not any of them panics.                                  *)
THEOREM InFlightIsBounded == Spec => []InFlightBounded
<1>1. IInv => InFlightBounded
  <2> SUFFICES ASSUME IInv PROVE InFlightBounded
    OBVIOUS
  <2>1. Processing \subseteq Holders /\ Holders \subseteq Workers
    BY DEF Processing, Holders
  <2>2. IsFiniteSet(Holders) /\ Processing \in SUBSET Holders
    BY <2>1, WorkersFinite
  <2>3. /\ Cardinality(Processing) <= Cardinality(Holders)
        /\ Cardinality(Processing) \in Nat /\ Cardinality(Holders) \in Nat
    BY <2>2, FS_Subset, FS_CardinalityType
  <2>4. Len(chan) \in Nat /\ Cardinality(buffer) \in Nat /\ count \in Nat
    BY BufferFinite, LenProperties DEF IInv, TypeOK
  <2>5. (IF cpc = "release" THEN 1 ELSE 0) \in Nat
    OBVIOUS
  <2> QED
    BY <2>3, <2>4, <2>5, CapNat DEF InFlightBounded, IInv, PermitsConserved
<1> QED
  BY <1>1, RunsInvariant, PTL

(* When the scope ends, exactly the runs before the first panic have been  *)
(* emitted.                                                                *)
THEOREM NothingIsLeftBehind == Spec => []NothingLeftBehind
<1>1. IInv => NothingLeftBehind
  <2> SUFFICES ASSUME IInv, Finished PROVE next_emit = FirstPanic
    BY DEF NothingLeftBehind
  <2>1. /\ next_emit \in RunStart..RunEnd /\ next_rank \in Nat
        /\ Panics \subseteq Ranks /\ \A r \in Panics : r >= next_emit
    BY DEF IInv, TypeOK, Panics, ResultsSound
  <2>2. next_emit \in Panics \/ (next_emit = RunEnd /\ Panics = {})
    <3>1. CASE cpc = "unwound"
      BY <3>1 DEF IInv, EndsSound, Panics
    <3>2. CASE cpc = "done" /\ next_emit = RunEnd
      BY <3>2, <2>1 DEF Ranks
    <3>3. CASE cpc = "done" /\ next_emit < RunEnd
      <4>1. /\ next_emit \notin buffer /\ chan = <<>>
            /\ \A w \in Workers : Ended(w)
        BY <3>3 DEF IInv, EndsSound
      <4>2. next_emit < next_rank
        <5> SUFFICES ASSUME next_emit >= next_rank PROVE FALSE
          BY <2>1
        <5>1. 1 \in Workers
          BY DEF Workers
        <5>2. pc[1] = "panicked"
          BY <5>1, <4>1, <3>3, <2>1 DEF IInv, EndsSound, Ended
        <5>3. rank[1] \in Panics /\ rank[1] < next_rank /\ rank[1] \in Nat
          BY <5>1, <5>2 DEF IInv, ResultsSound, ClaimsInRange, Carrying, Panics, Ranks
        <5> QED
          BY <5>3, <2>1
      <4>3. PICK w \in Workers : Carrying(w) /\ rank[w] = next_emit
        <5>1. next_emit \in next_emit..(RunEnd - 1)
          BY <2>1, <3>3
        <5> QED
          BY <3>3, <4>1, <4>2, <5>1, EmptySeq DEF IInv, RunsAccounted
      <4>4. pc[w] = "panicked"
        BY <4>1, <4>3 DEF Ended, Carrying
      <4> QED
        BY <4>3, <4>4 DEF IInv, ResultsSound, Panics
    <3> QED
      BY <3>1, <3>2, <3>3, <2>1 DEF Finished
  <2>3. CASE next_emit \in Panics
    <3>1. \A p \in Panics : (\A q \in Panics : p <= q) => p = next_emit
      BY <2>1, <2>3 DEF Ranks
    <3>2. \A q \in Panics : next_emit <= q
      BY <2>1 DEF Ranks
    <3> QED
      BY <2>3, <3>1, <3>2 DEF FirstPanic
  <2>4. CASE next_emit = RunEnd /\ Panics = {}
    BY <2>4 DEF FirstPanic
  <2> QED
    BY <2>2, <2>3, <2>4
<1> QED
  BY <1>1, RunsInvariant, PTL

(* emit sees the runs in ascending rank order, none skipped and none       *)
(* twice, whatever the threads do: OrderedRuns is implemented.             *)
THEOREM RunsEmittedInOrder == Spec => ImplementsOrderedRuns
<1>1. Init => Ordered!OrderedInit
  BY DEF Init, Ordered!OrderedInit
<1>2. IInv /\ [Next]_vars => [Ordered!EmitNext]_emitted
  <2> SUFFICES ASSUME IInv, [Next]_vars PROVE [Ordered!EmitNext]_emitted
    OBVIOUS
  <2>1. CASE Emit
    <3>1. next_emit \in Ranks
      BY <2>1 DEF Emit, IInv, TypeOK
    <3>2. Len(emitted) = next_emit - RunStart
      BY DEF IInv, EmittedInOrder
    <3>3. next_emit = RunStart + Len(emitted) /\ next_emit < RunEnd
      BY <3>1, <3>2 DEF Ranks
    <3> QED
      BY <2>1, <3>3 DEF Emit, Ordered!EmitNext
  <2>2. CASE UNCHANGED emitted
    BY <2>2
  <2>3. Emit \/ UNCHANGED emitted
    BY DEF Next, Coordinator, Worker, Acquire, Wait, SpuriousWake, Claim, Process, Panic,
           Send, SendRefused, Leave, LeaveNotify, Receive, EmitPanic, Release,
           ReleaseNotify, DrainEnd, Disconnect, vars, coordVars, emitVars
  <2> QED
    BY <2>1, <2>2, <2>3
<1> QED
  BY <1>1, <1>2, RunsInvariant, PTL DEF Spec, ImplementsOrderedRuns, Ordered!OrderedSpec

=============================================================================
