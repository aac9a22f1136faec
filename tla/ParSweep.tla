------------------------------ MODULE ParSweep ------------------------------
(***************************************************************************)
(* Sweeps over an archive from Python (htmlarc-py/src/lib.rs): par_fold    *)
(* shares the documents out by an atomic counter, on_workers runs its      *)
(* workers on the process's pool or on threads of their own, sweep_pool    *)
(* keeps one pool per process.  Sweeps overlap, as they let go of the GIL, *)
(* and a process may fork while others of its threads sweep.               *)
(*                                                                         *)
(* Documents are numbered from 1; one is a "hit", a "miss", "bad" (try_doc *)
(* refuses it) or a "panic" of the function that is swept over it.         *)
(***************************************************************************)
EXTENDS Naturals, Sequences, FiniteSets, SequencesExt

CONSTANTS
  Procs,          (* processes; a number is not used twice: a bound          *)
  Calls,          (* sweeps                                                  *)
  Threads,        (* workers: the threads of a pool, at most the documents   *)
  Chunk,          (* documents claimed at once                               *)
  Archives,       (* the archives: sequences of outcomes                     *)
  Nobody          (* neither a process nor a call                            *)

Outcomes == {"hit", "miss", "bad", "panic"}

\* The number of no process is 0, a pool has a thread and a claim a document.
ASSUME ParSweepAssumption ==
    /\ Procs # {} /\ Nobody \notin Procs /\ Nobody \notin Calls
    /\ Threads \in Nat \ {0} /\ Chunk \in Nat \ {0}
    /\ Archives \subseteq Seq(Outcomes)

VARIABLES
  docs,           (* the archive                                             *)
  procs,          (* the processes there are                                 *)
  slot,           (* POOL, by process: [owner, pool]                         *)
  lock,           (* who holds its mutex; a fork inherits that               *)
  busy,           (* BUSY, by process                                        *)
  call,           (* [pc, proc, pool, held, pooled, result, hits]            *)
  next,           (* the counter of each call                                *)
  worker          (* [pc, pos, stop, hits], by call and thread               *)

sweepVars == <<docs, procs, slot, lock, busy, call, next, worker>>

NewCall == [pc |-> "idle", proc |-> Nobody, pool |-> Nobody, held |-> Nobody, pooled |-> FALSE,
            result |-> "none", hits |-> <<>>]
NewWorker == [pc |-> "idle", pos |-> 0, stop |-> 0, hits |-> <<>>]

N == Len(docs)
Home(c) == call[c].proc
At(c, pc) == call[c].pc = pc
Step(c, pc) == call' = [call EXCEPT ![c].pc = pc]

-----------------------------------------------------------------------------
(* sweep_pool.  A pool is [builder, by]: the process whose threads it has.   *)
\* Mutant of Ours: the number of the process is not looked at.
OursAny(c) == slot[Home(c)].owner # Nobody

Ours(c) == slot[Home(c)].owner = Home(c)

Lock(c, pc, then) ==
    /\ At(c, pc) /\ lock[Home(c)] = Nobody
    /\ lock' = [lock EXCEPT ![Home(c)] = c]
    /\ Step(c, then)
    /\ UNCHANGED <<docs, procs, slot, busy, next, worker>>

Unlock(c) == lock' = [lock EXCEPT ![Home(c)] = Nobody]

Peek(c) ==
    /\ At(c, "peek") /\ Unlock(c)
    /\ IF Ours(c)
       THEN call' = [call EXCEPT ![c].pc = "load", ![c].pool = slot[Home(c)].pool]
       ELSE Step(c, "build")
    /\ UNCHANGED <<docs, procs, slot, busy, next, worker>>

\* The pool is built without the lock.
Build(c) ==
    /\ At(c, "build")
    /\ call' = [call EXCEPT ![c].pc = "relock", ![c].pool = [builder |-> Home(c), by |-> c]]
    /\ UNCHANGED <<docs, procs, slot, lock, busy, next, worker>>

Put(c) ==
    /\ At(c, "put") /\ Unlock(c)
    /\ IF Ours(c)
       THEN call' = [call EXCEPT ![c].pc = "load", ![c].pool = slot[Home(c)].pool] /\ UNCHANGED slot
       ELSE /\ slot' = [slot EXCEPT ![Home(c)] = [owner |-> Home(c), pool |-> call[c].pool]]
            /\ Step(c, "load")
    /\ UNCHANGED <<docs, procs, busy, next, worker>>

-----------------------------------------------------------------------------
(* on_workers: the pool, if no sweep of this process holds it.               *)
Load(c) ==
    /\ At(c, "load")
    /\ call' = [call EXCEPT ![c].held = busy[Home(c)],
                            ![c].pc = IF busy[Home(c)] # Home(c) THEN "swap" ELSE "spawn"]
    /\ UNCHANGED <<docs, procs, slot, lock, busy, next, worker>>

\* Mutant of Swap: the mark is stored without a look at what is there.
SwapStore(c) ==
    /\ At(c, "swap")
    /\ busy' = [busy EXCEPT ![Home(c)] = Home(c)]
    /\ call' = [call EXCEPT ![c].pc = "broadcast", ![c].pooled = TRUE]
    /\ UNCHANGED <<docs, procs, slot, lock, next, worker>>

Swap(c) ==
    /\ At(c, "swap")
    /\ IF busy[Home(c)] = call[c].held
       THEN /\ busy' = [busy EXCEPT ![Home(c)] = Home(c)]
            /\ call' = [call EXCEPT ![c].pc = "broadcast", ![c].pooled = TRUE]
       ELSE Step(c, "spawn") /\ UNCHANGED busy
    /\ UNCHANGED <<docs, procs, slot, lock, next, worker>>

Workers == 1..(IF N < Threads THEN N ELSE Threads)

\* A pool has threads only in the process that built it.
Launch(c) ==
    /\ \/ At(c, "broadcast") /\ call[c].pool.builder = Home(c)
       \/ At(c, "spawn")
    /\ Step(c, "sweep")
    /\ worker' = [worker EXCEPT ![c] = [w \in 1..Threads |->
                    [@[w] EXCEPT !.pc = IF w \in Workers THEN "claim" ELSE "done"]]]
    /\ UNCHANGED <<docs, procs, slot, lock, busy, next>>

-----------------------------------------------------------------------------
(* par_fold.                                                                 *)
Works(c, w, pc) == At(c, "sweep") /\ worker[c][w].pc = pc

\* Mutant of Claim: a chunk that is not whole is left out.
ClaimWhole(c, w) ==
    /\ Works(c, w, "claim")
    /\ next' = [next EXCEPT ![c] = @ + Chunk]
    /\ worker' = [worker EXCEPT ![c][w] =
         IF next[c] + Chunk > N THEN [@ EXCEPT !.pc = "done"]
         ELSE [@ EXCEPT !.pc = "visit", !.pos = next[c] + 1, !.stop = next[c] + Chunk]]
    /\ UNCHANGED <<docs, procs, slot, lock, busy, call>>

Claim(c, w) ==
    /\ Works(c, w, "claim")
    /\ next' = [next EXCEPT ![c] = @ + Chunk]
    /\ worker' = [worker EXCEPT ![c][w] =
         IF next[c] >= N THEN [@ EXCEPT !.pc = "done"]
         ELSE [@ EXCEPT !.pc = "visit", !.pos = next[c] + 1,
                        !.stop = IF next[c] + Chunk < N THEN next[c] + Chunk ELSE N]]
    /\ UNCHANGED <<docs, procs, slot, lock, busy, call>>

Passed(job, hits) ==
    [job EXCEPT !.pos = @ + 1, !.hits = hits, !.pc = IF job.pos < job.stop THEN "visit" ELSE "claim"]

\* A document that is refused stops the other workers.
Visit(c, w) ==
    LET job == worker[c][w]
        now == docs[job.pos]
    IN /\ Works(c, w, "visit")
       /\ worker' = [worker EXCEPT ![c][w] =
            CASE now = "hit" -> Passed(job, Append(job.hits, job.pos))
              [] now = "miss" -> Passed(job, job.hits)
              [] OTHER -> [job EXCEPT !.pc = now]]
       /\ next' = IF now = "bad" THEN [next EXCEPT ![c] = N] ELSE next
       /\ UNCHANGED <<docs, procs, slot, lock, busy, call>>

Ended(c, pc) == \E w \in 1..Threads : worker[c][w].pc = pc

Result(c) ==
    IF Ended(c, "panic") THEN "panic" ELSE IF Ended(c, "bad") THEN "err" ELSE "ok"

\* The hits of all workers: a worker and the place among its hits, by position
\* in the archive; an unstable sort may put equal ones in any order.
Places(c) == UNION {{<<w, k>> : k \in DOMAIN worker[c][w].hits} : w \in 1..Threads}
HitAt(c, place) == worker[c][place[1]].hits[place[2]]

Sortings(c) ==
    {order \in Bijection(1..Cardinality(Places(c)), Places(c)) :
       \A k, l \in DOMAIN order : k < l => HitAt(c, order[k]) <= HitAt(c, order[l])}

\* The results are put together by position; the pool is free again.
Collect(c) ==
    /\ At(c, "sweep")
    /\ \A w \in 1..Threads : worker[c][w].pc \in {"done", "bad", "panic"}
    /\ \E order \in Sortings(c) :
         call' = [call EXCEPT ![c] = [NewCall EXCEPT !.pc = "done", !.proc = Home(c),
            !.result = Result(c),
            !.hits = IF Result(c) = "ok" THEN [k \in DOMAIN order |-> HitAt(c, order[k])] ELSE <<>>]]
    /\ busy' = IF call[c].pooled THEN [busy EXCEPT ![Home(c)] = Nobody] ELSE busy
    /\ next' = [next EXCEPT ![c] = 0]
    /\ worker' = [worker EXCEPT ![c] = [w \in 1..Threads |-> NewWorker]]
    /\ UNCHANGED <<docs, procs, slot, lock>>

-----------------------------------------------------------------------------
(* Python: a thread of a process begins a sweep; a thread that is not in one *)
(* forks.  Calls and processes are taken in a fixed order, for fewer states. *)
Begin(c, p) ==
    /\ call[c].pc = "idle" /\ p \in procs
    /\ c = CHOOSE d \in Calls : call[d].pc = "idle"
    /\ call' = [call EXCEPT ![c].proc = p,
                            ![c].pc = IF N = 0 THEN "done" ELSE "lock",
                            ![c].result = IF N = 0 THEN "ok" ELSE @]
    /\ UNCHANGED <<docs, procs, slot, lock, busy, next, worker>>

Fork(p, q) ==
    /\ p \in procs /\ q \notin procs
    /\ q = CHOOSE r \in Procs : r \notin procs
    /\ procs' = procs \union {q}
    /\ slot' = [slot EXCEPT ![q] = slot[p]]
    /\ lock' = [lock EXCEPT ![q] = lock[p]]
    /\ busy' = [busy EXCEPT ![q] = busy[p]]
    /\ UNCHANGED <<docs, call, next, worker>>

SweepInit ==
    /\ docs \in Archives
    /\ procs = {CHOOSE first \in Procs : TRUE}
    /\ slot = [p \in Procs |-> [owner |-> Nobody, pool |-> Nobody]]
    /\ lock = [p \in Procs |-> Nobody]
    /\ busy = [p \in Procs |-> Nobody]
    /\ call = [c \in Calls |-> NewCall]
    /\ next = [c \in Calls |-> 0]
    /\ worker = [c \in Calls |-> [w \in 1..Threads |-> NewWorker]]

CallStep(c) ==
    \/ Lock(c, "lock", "peek") \/ Peek(c) \/ Build(c) \/ Lock(c, "relock", "put") \/ Put(c)
    \/ Load(c) \/ Swap(c) \/ Launch(c) \/ Collect(c)
    \/ \E w \in 1..Threads : Claim(c, w) \/ Visit(c, w)

SweepNext ==
    \/ \E c \in Calls : CallStep(c)
    \/ \E c \in Calls, p \in Procs : Begin(c, p)
    \/ \E p, q \in Procs : Fork(p, q)
=============================================================================
