------------------------------ MODULE PySweeps ------------------------------
(* Sweeps from Python, and the table that scan_table makes of one's result.  *)
EXTENDS ParSweep, ScanTable

vars == <<sweepVars, tableVars>>

\* The table is built when the sweep is over, from what it returned.  It shares
\* nothing with other sweeps: a bound, that there are none.
Alone(c) == /\ \A d \in Calls \ {c} : call[d].pc = "idle"
            /\ \A p \in Procs \ {Home(c)} : p \notin procs

ScanTable ==
    \/ \E c \in Calls :
          call[c].pc = "done" /\ call[c].result = "ok" /\ Alone(c) /\ StartTable(call[c].hits)
    \/ AppendChunk
    \/ FinishTable

Init == SweepInit /\ TableInit

Next ==
    \/ scan = "idle" /\ SweepNext /\ UNCHANGED tableVars
    \/ ScanTable /\ UNCHANGED sweepVars

\* The threads of a process run; nobody must begin a sweep or fork.
Fairness ==
    /\ \A c \in Calls : WF_vars(scan = "idle" /\ CallStep(c) /\ UNCHANGED tableVars)
    /\ WF_vars((AppendChunk \/ FinishTable) /\ UNCHANGED sweepVars)

Spec == Init /\ [][Next]_vars /\ Fairness

-----------------------------------------------------------------------------
Marked(archive, outcome) == {i \in DOMAIN archive : archive[i] = outcome}
Where(outcome) == Marked(docs, outcome)

\* The refusal or panic a sweep answers with was one of a document.
Answers(c) ==
    /\ call[c].result = "ok" => Where("bad") \union Where("panic") = {}
    /\ call[c].result = "err" => Where("bad") # {}
    /\ call[c].result = "panic" => Where("panic") # {}

\* The hits are these documents, each once, in archive order.
Lists(hits, found) ==
    /\ \A k, l \in DOMAIN hits : k < l => hits[k] < hits[l]
    /\ {hits[k] : k \in DOMAIN hits} = found

\* Whoever took which documents, a sweep answers with every hit once, in
\* archive order, or with the refusal or the panic that a document was.
SweepAnswers ==
    \A c \in Calls : call[c].pc = "done" =>
        /\ Answers(c)
        /\ call[c].result = "ok" => Lists(call[c].hits, Where("hit"))

\* A process has one sweep at a time on its pool, also when several build it
\* and when it was forked from one that swept.
PoolHeldByOne ==
    \A c, d \in Calls :
        (/\ Home(c) = Home(d) /\ call[c].pooled /\ call[d].pooled
         /\ call[c].pc \in {"broadcast", "sweep"} /\ call[d].pc \in {"broadcast", "sweep"}) => c = d

\* Forked inside a critical section of sweep_pool: what is left of the hazard
\* that the key by process answers.
Stranded(c) ==
    \E p \in procs : /\ Home(c) = p /\ lock[p] # Nobody
                    /\ Home(lock[p]) # p

\* Every sweep comes to an end, also in a process forked while others swept.
SweepsEnd ==
    \A c \in Calls : call[c].pc = "lock" ~> (call[c].pc = "done" \/ Stranded(c))

-----------------------------------------------------------------------------
(* The inductive invariant of a sweep.                                       *)
CallPcs == {"idle", "lock", "peek", "build", "relock", "put", "load", "swap",
            "broadcast", "spawn", "sweep", "done"}

WorkerState == [pc : {"idle", "claim", "visit", "done", "bad", "panic"},
                pos : Nat, stop : Nat, hits : Seq(Nat)]

CallShape ==
    call = [c \in Calls |->
              [pc |-> call[c].pc, proc |-> call[c].proc, pool |-> call[c].pool,
               held |-> call[c].held, pooled |-> call[c].pooled,
               result |-> call[c].result, hits |-> call[c].hits]]

Pools == [builder : Procs, by : Calls] \union {Nobody}

CallTypes ==
    \A c \in Calls : /\ call[c].pc \in CallPcs /\ call[c].pooled \in BOOLEAN
                     /\ call[c].pool \in Pools
                     /\ call[c].pc # "idle" => call[c].proc \in procs

ControlTypes ==
    /\ procs \subseteq Procs
    /\ slot \in [Procs -> [owner : Procs \union {Nobody}, pool : Pools]]
    /\ \A p \in Procs : slot[p].owner \in procs \union {Nobody}
    /\ lock \in [Procs -> Calls \union {Nobody}]
    /\ busy \in [Procs -> Procs \union {Nobody}]
    /\ CallShape /\ CallTypes

WorkTypes ==
    /\ docs \in Seq(Outcomes)
    /\ next \in [Calls -> Nat]
    /\ worker \in [Calls -> [1..Threads -> WorkerState]]

\* Whoever is in a critical section of sweep_pool has the mutex.
LocksOwn == \A c \in Calls : call[c].pc \in {"peek", "put"} => lock[Home(c)] = c

\* A pool is put, kept and used in the process whose threads it has.
PoolsOwn ==
    /\ \A p \in procs : slot[p].owner = p => slot[p].pool.builder = p
    /\ \A c \in Calls : call[c].pc \in {"relock", "put", "load", "swap", "broadcast"} =>
                           call[c].pool.builder = Home(c)

\* Whoever has been given a pool has the one in the slot of its process, however
\* many of its threads built one at once and were late to put it there.
SamePool ==
    \A c \in Calls : call[c].pc \in {"load", "swap", "broadcast", "spawn", "sweep"} =>
                         Ours(c) /\ call[c].pool = slot[Home(c)].pool

\* BUSY is set as long as the pool is held, and a sweep that saw it set by its
\* own process never takes it.
BusyOwn ==
    /\ \A c \in Calls : call[c].pooled => /\ call[c].pc \in {"broadcast", "sweep"}
                                          /\ busy[Home(c)] = Home(c)
    /\ \A c \in Calls : call[c].pc = "swap" => call[c].held # Home(c)

\* The documents a worker has claimed and not finished, and those it answers.
Rest(job) == IF job.pc = "visit" THEN job.pos..job.stop ELSE {}
FoundBy(job) == {job.hits[k] : k \in DOMAIN job.hits}

\* No document is claimed twice, none that was claimed is lost, and what a
\* worker answers are hits, each once, behind what is still to be visited.
ClaimsDisjoint(jobs, claimed, archive) ==
    \A w \in 1..Threads :
       /\ jobs[w].pc = "visit" => /\ 1 <= jobs[w].pos /\ jobs[w].pos <= jobs[w].stop
                                  /\ jobs[w].stop <= Len(archive) /\ jobs[w].stop <= claimed
       /\ \A k, l \in DOMAIN jobs[w].hits : jobs[w].hits[k] = jobs[w].hits[l] => k = l
       /\ \A i \in FoundBy(jobs[w]) : i \in Marked(archive, "hit") /\ i <= claimed
       /\ \A v \in 1..Threads :
              /\ FoundBy(jobs[w]) \intersect Rest(jobs[v]) = {}
              /\ v # w => /\ Rest(jobs[w]) \intersect Rest(jobs[v]) = {}
                          /\ FoundBy(jobs[w]) \intersect FoundBy(jobs[v]) = {}

ClaimsKept(jobs, claimed, archive) ==
    (\A w \in 1..Threads : jobs[w].pc \notin {"bad", "panic"}) =>
       \A i \in 1..Len(archive) : i <= claimed =>
          \/ archive[i] = "miss"
          \/ \E w \in 1..Threads : i \in FoundBy(jobs[w]) \union Rest(jobs[w])

WorkersEnd(jobs, claimed, archive) ==
    \A w \in 1..Threads :
       /\ jobs[w].pc # "idle"
       /\ jobs[w].pc = "done" /\ w <= Len(archive) => Len(archive) <= claimed
       /\ jobs[w].pc \in {"bad", "panic"} => Marked(archive, jobs[w].pc) # {}

Shared(jobs, claimed, archive) ==
    /\ ClaimsDisjoint(jobs, claimed, archive)
    /\ ClaimsKept(jobs, claimed, archive)
    /\ WorkersEnd(jobs, claimed, archive)

Sharing(c) ==
    /\ IF call[c].pc = "sweep" THEN Shared(worker[c], next[c], docs)
       ELSE next[c] = 0 /\ worker[c] = [w \in 1..Threads |-> NewWorker]
    /\ call[c].pc \notin {"idle", "done"} => N > 0
    /\ call[c].pc = "idle" => call[c].hits = <<>>
    /\ call[c].pc = "done" => /\ Answers(c)
                              /\ call[c].result = "ok" => Lists(call[c].hits, Where("hit"))

Control == ControlTypes /\ LocksOwn /\ PoolsOwn /\ SamePool /\ BusyOwn /\ PoolHeldByOne

Work == WorkTypes /\ \A c \in Calls : Sharing(c)

IInv == Control /\ Work

\* At every moment of a sweep its hits are each at one place of one worker, and
\* unless one met its end they are the hits that were claimed, but for those
\* still to be visited: no interleaving of claims loses one or has it twice.
\* When all workers are through, they are all there, and the sort has to
\* provide nothing but the order.
Found(c) == UNION {FoundBy(worker[c][w]) : w \in 1..Threads}
Left(c) == UNION {Rest(worker[c][w]) : w \in 1..Threads}

HitsShared ==
    \A c \in Calls : call[c].pc = "sweep" =>
       /\ \A v, w \in 1..Threads : \A k \in DOMAIN worker[c][v].hits, l \in DOMAIN worker[c][w].hits :
             worker[c][v].hits[k] = worker[c][w].hits[l] => v = w /\ k = l
       /\ Found(c) \subseteq Where("hit")
       /\ ~Ended(c, "bad") /\ ~Ended(c, "panic") =>
             Found(c) = {i \in Where("hit") : i <= next[c]} \ Left(c)
       /\ (\A w \in 1..Threads : worker[c][w].pc = "done") => Found(c) = Where("hit")

\* A sweep never broadcasts on a pool whose threads are in another process.
BroadcastsAtHome ==
    \A c \in Calls : call[c].pc = "broadcast" => call[c].pool.builder = Home(c)
=============================================================================
