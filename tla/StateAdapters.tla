----------------------------- MODULE StateAdapters -----------------------------
(***************************************************************************)
(* src/src/state: the key-value adapters behind which a circuit breaker's  *)
(* or a rate limiter's store may be, MemoryStateAdapter and                *)
(* RedisStateAdapter, with namespaceAdapter and the two bridges.           *)
(*                                                                         *)
(* A place is a key as the backend has it: [adapter, space, name, bridge], *)
(* where adapter stands for the keyPrefix (no prefix begins another),      *)
(* space for the tag of namespaceAdapter and bridge for the store through  *)
(* which it is reached, or "none".  The TTL is that of the place: callers  *)
(* who disagree about it are left out.  Redis is external; each of its     *)
(* commands is atomic, SET takes the expiry of a key away, and a caller    *)
(* may die or be refused between two commands.  Values are left out.       *)
(*                                                                         *)
(* GoneEarly is a mutated form of the definition it precedes; no action    *)
(* uses it.                                                                *)
(***************************************************************************)
EXTENDS Undefined, Integers, FiniteSets

CONSTANTS
    Backends,      \* of "memory" and "redis"
    Places,
    TTL,           \* the ttlMs that callers of set give, by place; 0 for none
    Callers,
    EndOfStore     \* bound on the clock

ASSUME StoreAssumption ==
    /\ Backends \subseteq {"memory", "redis"} /\ IsFiniteSet(Places)
    /\ TTL \in [Places -> Nat] /\ EndOfStore \in Nat
    /\ None \notin Nat

VARIABLES
    backend,
    timeNow,
    held,        \* the places that have a value, and when each expires, or None
    command,     \* by caller, what it still has to send to Redis
    promised,    \* history: by place, up to when its last value has to be there, or None
                 \* if there was none or it was removed
    cut          \* history: the places of which a set was interrupted since the last SET

storeVars == <<backend, timeNow, held, command, promised, cut>>

Nothing == [send |-> "nothing"]
Adapters == {p.adapter : p \in Places}

\* The bridges pass no TTL on.
TtlOf(p) == IF p.bridge = "none" THEN TTL[p] ELSE 0

StoreInit ==
    /\ backend \in Backends
    /\ timeNow = 0 /\ held = <<>>
    /\ command = [c \in Callers |-> Nothing]
    /\ promised = [p \in Places |-> None] /\ cut = {}

GoneEarly(expiry) == expiry # None /\ timeNow >= expiry
Gone(expiry) == expiry # None /\ timeNow > expiry

\* Whether get finds a value.
Readable(p) == p \in DOMAIN held /\ ~Gone(held[p])

Writes(p, expiry) == held' = [q \in DOMAIN held \cup {p} |-> IF q = p THEN expiry ELSE held[q]]
Drops(places) == held' = [q \in DOMAIN held \ places |-> held[q]]

Promises(p) ==
    /\ promised' = [promised EXCEPT ![p] = timeNow + (IF TtlOf(p) > 0 THEN TtlOf(p) ELSE EndOfStore)]
    /\ cut' = cut \ {p}
Removes(places) ==
    /\ Drops(places)
    /\ promised' = [p \in Places |-> IF p \in places THEN None ELSE promised[p]]
    /\ UNCHANGED cut

-----------------------------------------------------------------------------
\* MemoryStateAdapter: its methods run to their end.

SetInMemory(p) ==
    LET expiry == IF TtlOf(p) > 0 THEN timeNow + TtlOf(p) ELSE None
    IN  /\ backend = "memory"
        /\ Writes(p, expiry) /\ Promises(p)
        /\ UNCHANGED <<backend, timeNow, command>>

\* get drops an expired value, and the sweep all of them.
GetFromMemory(p) ==
    /\ backend = "memory" /\ p \in DOMAIN held /\ Gone(held[p])
    /\ Drops({p})
    /\ UNCHANGED <<backend, timeNow, command, promised, cut>>
Sweep ==
    /\ backend = "memory"
    /\ LET stale == {p \in DOMAIN held : Gone(held[p])} IN stale # {} /\ Drops(stale)
    /\ UNCHANGED <<backend, timeNow, command, promised, cut>>

DeleteInMemory(p) ==
    /\ backend = "memory" /\ p \in DOMAIN held
    /\ Removes({p})
    /\ UNCHANGED <<backend, timeNow, command>>

\* clear, of the adapter or of one of its namespaces, and destroy: all its places.
ClearMemory(a) ==
    /\ backend = "memory"
    /\ LET own == {p \in DOMAIN held : p.adapter = a} IN own # {} /\ Removes(own)
    /\ UNCHANGED <<backend, timeNow, command>>

-----------------------------------------------------------------------------
\* RedisStateAdapter: set sends SET and, with a TTL, PEXPIRE; clear sends KEYS and DEL.

Sends(c, next) == command' = [command EXCEPT ![c] = next] /\ UNCHANGED <<backend, timeNow>>

Set(c, p) ==
    /\ backend = "redis" /\ command[c] = Nothing
    /\ Writes(p, None) /\ Promises(p)
    /\ Sends(c, IF TtlOf(p) > 0 THEN [send |-> "PEXPIRE", place |-> p] ELSE Nothing)

\* PEXPIRE does nothing for a key that is gone.
Expire(c) ==
    /\ command[c].send = "PEXPIRE"
    /\ LET p == command[c].place
       IN  IF Readable(p) THEN Writes(p, timeNow + TtlOf(p)) ELSE UNCHANGED held
    /\ Sends(c, Nothing)
    /\ UNCHANGED <<promised, cut>>

Delete(c, p) ==
    /\ backend = "redis" /\ command[c] = Nothing /\ Readable(p)
    /\ Removes({p})
    /\ Sends(c, Nothing)

Keys(c, a) ==
    /\ backend = "redis" /\ command[c] = Nothing
    /\ LET found == {p \in DOMAIN held : p.adapter = a /\ Readable(p)}
       IN  found # {} /\ Sends(c, [send |-> "DEL", places |-> found])
    /\ UNCHANGED <<held, promised, cut>>
Clear(c) ==
    /\ command[c].send = "DEL"
    /\ Removes(command[c].places \cap DOMAIN held)
    /\ Sends(c, Nothing)

\* The process of c dies, or Redis refuses its next command: the rest is never sent.
Interrupted(c) ==
    /\ command[c] # Nothing
    /\ cut' = IF command[c].send = "PEXPIRE" THEN cut \cup {command[c].place} ELSE cut
    /\ Sends(c, Nothing)
    /\ UNCHANGED <<held, promised>>

StoreTick ==
    /\ timeNow < EndOfStore
    /\ timeNow' = timeNow + 1
    /\ UNCHANGED <<backend, held, command, promised, cut>>

StoreNext ==
    \/ StoreTick \/ Sweep \/ \E a \in Adapters : ClearMemory(a)
    \/ \E p \in Places : SetInMemory(p) \/ GetFromMemory(p) \/ DeleteInMemory(p)
    \/ \E c \in Callers :
          \/ Expire(c) \/ Clear(c) \/ Interrupted(c)
          \/ \E p \in Places : Set(c, p) \/ Delete(c, p)
          \/ \E a \in Adapters : Keys(c, a)

StoreSpec == StoreInit /\ [][StoreNext]_storeVars

-----------------------------------------------------------------------------
\* A value is there for as long as its TTL says, however the commands of those who set,
\* delete and clear mix; unless it is removed or replaced.
KeptForItsTime == \A p \in Places : promised[p] # None /\ timeNow <= promised[p] => Readable(p)

\* And it is not there for ever if it has a TTL, unless a set was interrupted: when all
\* that was sent for a place has arrived, its value has an expiry.
Lapses ==
    \A p \in DOMAIN held :
        TtlOf(p) > 0 /\ p \notin cut => \/ held[p] # None
                                       \/ \E c \in Callers : command[c] = [send |-> "PEXPIRE", place |-> p]

\* The TTL of a place means the same in memory and in Redis.
TTLHonoured == KeptForItsTime /\ Lapses
===============================================================================
