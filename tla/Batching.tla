------------------------------- MODULE Batching -------------------------------
(***************************************************************************)
(* src/src/performance/DataLoader.ts: loads of keys, the batches they are  *)
(* asked for in, and the promises that are remembered by key.              *)
(*                                                                         *)
(* A load that finds a remembered promise returns it and changes nothing;  *)
(* with cache: false every load is a new key.  loadMany is several loads.  *)
(* The batch function is external: it answers each slot with a value or an *)
(* Error, throws, or returns something of the wrong length.                *)
(*                                                                         *)
(* ForgetsAny is a mutated form of the definition it precedes; no action   *)
(* uses it.                                                                *)
(***************************************************************************)
EXTENDS Integers, Sequences, SequencesExt

CONSTANTS
    LoadKeys,
    MaxLoads,       \* bound on the loads that are queued
    MaxBatchSize    \* 1 with batch: false

ASSUME LoaderAssumption == LoadKeys # {} /\ MaxLoads \in Nat \ {0} /\ MaxBatchSize \in Nat \ {0}

VARIABLES
    memo,         \* cacheMap: for each key a load, Primed, or 0 for nothing
    loadKey,      \* the key of each load
    promise,      \* what has become of the promise of each load
    jobs,         \* #queue
    scheduled,    \* #dispatchScheduled
    due,          \* the scheduled callback waits to be run
    batch         \* the first load of the batch in which each was asked for

loaderVars == <<memo, loadKey, promise, jobs, scheduled, due, batch>>

Loads == 1..MaxLoads
Primed == MaxLoads + 1
Unmade == {l \in Loads : promise[l] = "unmade"}

LoaderInit ==
    /\ memo = [k \in LoadKeys |-> 0]
    /\ loadKey = [l \in Loads |-> CHOOSE k \in LoadKeys : TRUE]
    /\ promise = [l \in Loads |-> "unmade"]
    /\ jobs = <<>>
    /\ scheduled = FALSE /\ due = FALSE
    /\ batch = [l \in Loads |-> 0]

\* load, of a key that is not remembered.
Load(k) ==
    /\ memo[k] = 0
    /\ \E l \in Unmade :
        /\ \A j \in Unmade : l <= j
        /\ promise' = [promise EXCEPT ![l] = "queued"]
        /\ loadKey' = [loadKey EXCEPT ![l] = k]
        /\ memo' = [memo EXCEPT ![k] = l]
        /\ jobs' = Append(jobs, l)
    /\ scheduled' = TRUE
    /\ due' = (due \/ ~scheduled)
    /\ UNCHANGED batch

Unscheduled == FALSE

\* The scheduled callback: #dispatch splits the queue and asks for each part.
Leader(i) == jobs[((i - 1) \div MaxBatchSize) * MaxBatchSize + 1]
Dispatch ==
    /\ due
    /\ due' = FALSE
    /\ scheduled' = Unscheduled
    /\ jobs' = <<>>
    /\ promise' = [l \in Loads |-> IF l \in ToSet(jobs) THEN "asked" ELSE promise[l]]
    /\ batch' = [l \in Loads |->
                    IF l \in ToSet(jobs) THEN Leader(CHOOSE i \in DOMAIN jobs : jobs[i] = l) ELSE batch[l]]
    /\ UNCHANGED <<memo, loadKey>>

\* #runBatch settles its jobs: one by one, or all rejected when the batch
\* function throws or returns the wrong length.
Asked(b) == {l \in Loads : batch[l] = b /\ promise[l] = "asked"}
BatchReturns(b) ==
    /\ Asked(b) # {}
    /\ \E good \in SUBSET Asked(b) :
        promise' = [l \in Loads |->
                       IF l \notin Asked(b) THEN promise[l] ELSE IF l \in good THEN "kept" ELSE "rejected"]
    /\ UNCHANGED <<memo, loadKey, jobs, scheduled, due, batch>>

\* The catch of a rejected promise, a microtask later.
ForgetsAny(l) == TRUE
Forgets(l) == memo[loadKey[l]] = l
Forget(l) ==
    /\ promise[l] = "rejected"
    /\ promise' = [promise EXCEPT ![l] = "forgotten"]
    /\ memo' = IF Forgets(l) THEN [memo EXCEPT ![loadKey[l]] = 0] ELSE memo
    /\ UNCHANGED <<loadKey, jobs, scheduled, due, batch>>

Clear(k) ==
    /\ memo' = [memo EXCEPT ![k] = 0]
    /\ UNCHANGED <<loadKey, promise, jobs, scheduled, due, batch>>

ClearAll ==
    /\ memo' = [k \in LoadKeys |-> 0]
    /\ UNCHANGED <<loadKey, promise, jobs, scheduled, due, batch>>

\* prime, with a value or an Error; the promise of an Error is kept as well.
Prime(k) ==
    /\ memo[k] = 0
    /\ memo' = [memo EXCEPT ![k] = Primed]
    /\ UNCHANGED <<loadKey, promise, jobs, scheduled, due, batch>>

LoaderNext ==
    \/ \E k \in LoadKeys : Load(k) \/ Clear(k) \/ Prime(k)
    \/ \E l \in Loads : BatchReturns(l) \/ Forget(l)
    \/ Dispatch \/ ClearAll

LoaderSpec == LoaderInit /\ [][LoaderNext]_loaderVars

-----------------------------------------------------------------------------
\* Types.
LoaderTypeOK ==
    /\ memo \in [LoadKeys -> 0..Primed]
    /\ loadKey \in [Loads -> LoadKeys]
    /\ promise \in [Loads -> {"unmade", "queued", "asked", "kept", "rejected", "forgotten"}]
    /\ jobs \in Seq(Loads)
    /\ scheduled \in BOOLEAN /\ due \in BOOLEAN
    /\ batch \in [Loads -> 0..MaxLoads]

\* load remembers the promise it makes; that promise stays until its key is
\* cleared or it is itself rejected, whatever becomes of older promises of the
\* key that settle later; and a rejected one does not stay.
MemoHonest ==
    [][\A k \in LoadKeys :
        /\ memo'[k] \in Loads /\ memo'[k] # memo[k] => promise'[memo'[k]] = "queued"
        /\ memo[k] \in Loads /\ memo'[k] # memo[k] =>
              memo'[k] = 0 /\ (Clear(k) \/ ClearAll \/ promise[memo[k]] = "rejected")
        /\ memo'[k] \in Loads => promise'[memo'[k]] # "forgotten"]_loaderVars

Pending(l) == promise[l] \in {"queued", "asked"}

\* However loads, clears and batches follow each other, every load is asked for
\* and settles, provided that the batch function returns.  (There are MaxLoads of
\* them, so that this is the same as that none stays pending.)
LoadsSettle ==
    (\E l \in Loads : Pending(l)) ~> (\A l \in Loads : ~Pending(l))
===============================================================================
