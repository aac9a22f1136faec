-------------------------- MODULE ParallelRunsProps -------------------------
(***************************************************************************)
(* What drive_runs_parallel promises, over the states of ParallelRuns.     *)
(***************************************************************************)
EXTENDS ParallelRuns

Finished == cpc \in {"done", "unwound"} /\ \A w \in Workers : Ended(w)

(* "at most in_flight_cap runs are resident at once": those being          *)
(* processed, those in the channel and those in the reorder buffer.        *)
Processing == {w \in Workers : pc[w] \in {"process", "send"}}

InFlightBounded ==
  Cardinality(Processing) + Len(chan) + Cardinality(buffer) <= in_flight_cap

(* The emitted sequence does not depend on the threads: ascending ranks,   *)
(* none skipped, none twice.                                               *)
Ordered == INSTANCE OrderedRuns

ImplementsOrderedRuns == Ordered!OrderedSpec

FirstPanic ==
  IF Panics = {} THEN RunEnd ELSE CHOOSE p \in Panics : \A q \in Panics : p <= q

(* When the scope ends, every run before the first panic was emitted: no   *)
(* result is left behind in the channel or in the reorder buffer.          *)
NothingLeftBehind == Finished => next_emit = FirstPanic

(* The scope ends, and a panic reaches the caller, unless the run that     *)
(* panicked leaves in_flight_cap or more to go: then those behind it keep  *)
(* every permit, the workers wait for one and the conversion hangs.        *)
JoinsUnlessDrained ==
  (\A p \in Panics : RunEnd - p < in_flight_cap) => <>Finished

-----------------------------------------------------------------------------
(* The inductive invariant.                                                *)

WorkerState == {"acquire", "waiting", "claim", "process", "send", "leave",
                "notify", "exited", "panicked"}

TypeOK ==
  /\ doomed \subseteq Ranks /\ choked \subseteq Ranks
  /\ next_rank \in Nat /\ next_rank >= RunStart
  /\ count \in Nat
  /\ pc \in [Workers -> WorkerState]
  /\ rank \in [Workers -> Nat]
  /\ chan \in Seq(Ranks)
  /\ cpc \in {"recv", "drain", "release", "notify", "done", "unwound"}
  /\ buffer \subseteq Ranks
  /\ next_emit \in RunStart..RunEnd
  /\ emitted \in Seq(Ranks)

(* Permits are conserved: a worker with a permit, a result on its way to   *)
(* emit and a permit about to be released account for those not free.      *)
Holders == {w \in Workers : pc[w] \in {"claim", "process", "send", "leave", "panicked"}}

PermitsConserved ==
  count + Cardinality(Holders) + Len(chan) + Cardinality(buffer)
    + (IF cpc = "release" THEN 1 ELSE 0) <= in_flight_cap

EmittedInOrder ==
  /\ Len(emitted) = next_emit - RunStart
  /\ \A i \in DOMAIN emitted : emitted[i] = RunStart + i - 1

(* A run is with the worker that claimed it ...                            *)
Carrying(w) == pc[w] \in {"process", "send", "panicked"}

ClaimsInRange ==
  \A w \in Workers : Carrying(w) => rank[w] \in Ranks /\ rank[w] < next_rank

(* ... or its result is in the channel, in the buffer or emitted.          *)
RunsAccounted ==
  cpc # "unwound" =>
    \A r \in next_emit..(RunEnd - 1) :
      r < next_rank =>
        \/ r \in buffer
        \/ \E i \in DOMAIN chan : chan[i] = r
        \/ \E w \in Workers : Carrying(w) /\ rank[w] = r

(* A run that panics has no result, and nothing past it is emitted.        *)
ResultsSound ==
  /\ \A w \in Workers : pc[w] = "send" => rank[w] \notin doomed
  /\ \A w \in Workers : pc[w] = "panicked" => rank[w] \in doomed
  /\ \A i \in DOMAIN chan : chan[i] \notin doomed
  /\ buffer \cap doomed = {}
  /\ \A r \in Panics : r >= next_emit

(* What the end of a thread or of the coordinator's loop says.             *)
EndsSound ==
  /\ \A w \in Workers :
       pc[w] \in {"leave", "notify", "exited"} => next_rank >= RunEnd \/ cpc = "unwound"
  /\ cpc \in {"recv", "done"} => next_emit \notin buffer
  /\ cpc = "done" => chan = <<>> /\ \A w \in Workers : Ended(w)
  /\ cpc = "unwound" => next_emit \in choked

IInv ==
  /\ TypeOK /\ PermitsConserved /\ EmittedInOrder
  /\ ClaimsInRange /\ RunsAccounted /\ ResultsSound /\ EndsSound

=============================================================================
