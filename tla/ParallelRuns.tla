---------------------------- MODULE ParallelRuns ----------------------------
(***************************************************************************)
(* drive_runs_parallel (htmlarc-convert/src/source/mod.rs): worker threads *)
(* claim runs and process them, a channel carries the results to the       *)
(* coordinator, which emits them in rank order, and a semaphore made of a  *)
(* mutex and a condition variable caps the runs in flight.  `process` and  *)
(* `emit` may panic.                                                       *)
(*                                                                         *)
(* A step is what a thread does between two accesses to shared state: a    *)
(* critical section of the semaphore's mutex, the fetch_add, a send, a     *)
(* receive.  A result is its rank.                                         *)
(***************************************************************************)
EXTENDS Integers, Sequences, FiniteSets

CONSTANTS
  Threads,             (* thread_count()                                    *)
  RunStart, RunEnd,    (* the range `ranks`                                 *)
  MaxPanics            (* bound: runs whose process or emit panics          *)

ASSUME ThreadsAssumption == Threads \in Nat \ {0}
ASSUME RangeAssumption == RunStart \in Nat /\ RunEnd \in Nat /\ RunStart < RunEnd

VARIABLES
  doomed,      (* the runs whose process panics                             *)
  choked,      (* the runs whose emit panics                                *)
  next_rank,   (* the atomic counter                                        *)
  count,       (* Semaphore.count                                           *)
  pc, rank,    (* the workers: where each is, and the run it claimed        *)
  chan,        (* the channel                                               *)
  cpc,         (* where the coordinator is                                  *)
  buffer,      (* its reorder buffer                                        *)
  next_emit,
  emitted      (* the runs emit was called for                              *)

panicVars == <<doomed, choked>>
workVars  == <<next_rank, rank>>
emitVars  == <<next_emit, emitted>>
coordVars == <<cpc, buffer, emitVars>>
vars == <<panicVars, count, pc, workVars, chan, coordVars>>

Workers == 1..Threads
Ranks   == RunStart..(RunEnd - 1)

Larger(a, b) == IF a >= b THEN a ELSE b

in_flight_cap == Larger(Threads * 2, Threads + 4)

Panics == doomed \cup choked

-----------------------------------------------------------------------------
(* The semaphore.                                                          *)

Goto(w, l) == pc' = [pc EXCEPT ![w] = l]

(* acquire: take a permit, or wait on the condition variable.              *)
Acquire(w) ==
  /\ pc[w] = "acquire"
  /\ count > 0
  /\ count' = count - 1
  /\ Goto(w, "claim")
  /\ UNCHANGED <<panicVars, workVars, coordVars, chan>>

Wait(w) ==
  /\ pc[w] = "acquire"
  /\ count = 0
  /\ Goto(w, "waiting")
  /\ UNCHANGED <<panicVars, workVars, coordVars, count, chan>>

SpuriousWake(w) ==
  /\ pc[w] = "waiting"
  /\ Goto(w, "acquire")
  /\ UNCHANGED <<panicVars, workVars, coordVars, count, chan>>

(* Mutant of NotifyOne: nobody is woken.                                   *)
NotifyNobody(p) == pc' = p

(* notify_one, by a thread after which the workers are at p.               *)
NotifyOne(p) ==
  LET waiting == {w \in Workers : p[w] = "waiting"} IN
    IF waiting = {} THEN pc' = p
    ELSE \E w \in waiting : pc' = [p EXCEPT ![w] = "acquire"]

-----------------------------------------------------------------------------
(* A worker.                                                               *)

Claim(w) ==
  /\ pc[w] = "claim"
  /\ rank' = [rank EXCEPT ![w] = next_rank]
  /\ next_rank' = next_rank + 1
  /\ Goto(w, IF next_rank < RunEnd THEN "process" ELSE "leave")
  /\ UNCHANGED <<panicVars, coordVars, count, chan>>

Process(w) ==
  /\ pc[w] = "process"
  /\ rank[w] \notin doomed
  /\ Goto(w, "send")
  /\ UNCHANGED <<panicVars, workVars, coordVars, count, chan>>

(* The thread unwinds: its sender is dropped, its permit is not released.  *)
Panic(w) ==
  /\ pc[w] = "process"
  /\ rank[w] \in doomed
  /\ Goto(w, "panicked")
  /\ UNCHANGED <<panicVars, workVars, coordVars, count, chan>>

(* Mutant of Send: the permit covers the processing only.                  *)
SendReleasing(w) ==
  /\ pc[w] = "send"
  /\ cpc # "unwound"
  /\ chan' = Append(chan, rank[w])
  /\ count' = count + 1
  /\ Goto(w, "acquire")
  /\ UNCHANGED <<panicVars, workVars, coordVars>>

Send(w) ==
  /\ pc[w] = "send"
  /\ cpc # "unwound"
  /\ chan' = Append(chan, rank[w])
  /\ Goto(w, "acquire")
  /\ UNCHANGED <<panicVars, workVars, coordVars, count>>

(* The receiver is gone.                                                   *)
SendRefused(w) ==
  /\ pc[w] = "send"
  /\ cpc = "unwound"
  /\ Goto(w, "leave")
  /\ UNCHANGED <<panicVars, workVars, coordVars, count, chan>>

(* release, in its two steps, and the end of the thread.                   *)
Leave(w) ==
  /\ pc[w] = "leave"
  /\ count' = count + 1
  /\ Goto(w, "notify")
  /\ UNCHANGED <<panicVars, workVars, coordVars, chan>>

LeaveNotify(w) ==
  /\ pc[w] = "notify"
  /\ NotifyOne([pc EXCEPT ![w] = "exited"])
  /\ UNCHANGED <<panicVars, workVars, coordVars, count, chan>>

Ended(w) == pc[w] \in {"exited", "panicked"}

-----------------------------------------------------------------------------
(* The coordinator.                                                        *)

Receive ==
  /\ cpc = "recv"
  /\ chan # <<>>
  /\ buffer' = buffer \cup {Head(chan)}
  /\ chan' = Tail(chan)
  /\ cpc' = "drain"
  /\ UNCHANGED <<panicVars, workVars, emitVars, count, pc>>

(* Mutant of Emit: the loop emits what it has, in no particular order.     *)
EmitAny ==
  /\ cpc = "drain"
  /\ \E r \in buffer \ choked :
       /\ buffer' = buffer \ {r}
       /\ emitted' = Append(emitted, r)
  /\ next_emit' = next_emit + 1
  /\ cpc' = "release"
  /\ UNCHANGED <<panicVars, workVars, count, pc, chan>>

(* buffer.remove(&next_emit) found a result, and emit returns.             *)
Emit ==
  /\ cpc = "drain"
  /\ next_emit \in buffer \ choked
  /\ buffer' = buffer \ {next_emit}
  /\ emitted' = Append(emitted, next_emit)
  /\ next_emit' = next_emit + 1
  /\ cpc' = "release"
  /\ UNCHANGED <<panicVars, workVars, count, pc, chan>>

(* emit panics: the unwinding coordinator drops the receiver, and the      *)
(* scope waits for the workers.                                            *)
EmitPanic ==
  /\ cpc = "drain"
  /\ next_emit \in buffer \cap choked
  /\ cpc' = "unwound"
  /\ chan' = <<>>
  /\ buffer' = {}
  /\ UNCHANGED <<panicVars, workVars, emitVars, count, pc>>

Release ==
  /\ cpc = "release"
  /\ count' = count + 1
  /\ cpc' = "notify"
  /\ UNCHANGED <<panicVars, workVars, emitVars, pc, chan, buffer>>

ReleaseNotify ==
  /\ cpc = "notify"
  /\ NotifyOne(pc)
  /\ cpc' = "drain"
  /\ UNCHANGED <<panicVars, workVars, emitVars, count, chan, buffer>>

(* Mutant of Drained: one emit per result received.                        *)
DrainedAlways == TRUE

Drained == next_emit \notin buffer

DrainEnd ==
  /\ cpc = "drain"
  /\ Drained
  /\ cpc' = "recv"
  /\ UNCHANGED <<panicVars, workVars, emitVars, count, pc, chan, buffer>>

(* Every sender is dropped and the channel is empty: the loop ends.        *)
Disconnect ==
  /\ cpc = "recv"
  /\ chan = <<>>
  /\ \A w \in Workers : Ended(w)
  /\ cpc' = "done"
  /\ UNCHANGED <<panicVars, workVars, emitVars, count, pc, chan, buffer>>

-----------------------------------------------------------------------------

Init ==
  /\ doomed \in SUBSET Ranks
  /\ choked \in SUBSET Ranks
  /\ Cardinality(doomed) + Cardinality(choked) <= MaxPanics
  /\ next_rank = RunStart
  /\ count = in_flight_cap
  /\ pc = [w \in Workers |-> "acquire"]
  /\ rank = [w \in Workers |-> RunStart]
  /\ chan = <<>>
  /\ cpc = "recv"
  /\ buffer = {}
  /\ next_emit = RunStart
  /\ emitted = <<>>

Worker(w) ==
  \/ Acquire(w) \/ Wait(w) \/ Claim(w) \/ Process(w) \/ Panic(w)
  \/ Send(w) \/ SendRefused(w) \/ Leave(w) \/ LeaveNotify(w)

Coordinator ==
  Receive \/ Emit \/ EmitPanic \/ Release \/ ReleaseNotify \/ DrainEnd \/ Disconnect

Next == Coordinator \/ \E w \in Workers : Worker(w) \/ SpuriousWake(w)

(* The operating system runs every thread that can run.                    *)
Fairness == WF_vars(Coordinator) /\ \A w \in Workers : WF_vars(Worker(w))

Spec == Init /\ [][Next]_vars /\ Fairness

=============================================================================
