------------------------------ MODULE DnsCache ------------------------------
(***************************************************************************)
(* HickoryDnsResolver (packages/catcher-dns/src/lib.rs) for one hostname:  *)
(* callers share a cache with stale-while-revalidate, background refreshes *)
(* renew it, and network_changed clears it and replaces the resolver.  The *)
(* generation count is there to keep what was resolved before the change   *)
(* out of the cache.                                                       *)
(*                                                                         *)
(* An answer is represented by the resolver it comes from, a resolver by   *)
(* the network change that built it.                                       *)
(***************************************************************************)
EXTENDS Naturals

CONSTANTS
    Callers,       \* callers of resolve_zero_port
    Refreshes,     \* background refresh tasks
    Stale,         \* stale_ttl_secs > 0
    MaxChanges     \* bound: calls of network_changed

ASSUME DnsAssumption ==
    /\ Stale \in BOOLEAN
    /\ MaxChanges \in Nat
    /\ "nobody" \notin Callers   \* NoCaller below is not a caller

VARIABLES
    entry,        \* the cache entry of the hostname
    generation,   \* generation
    resolver,     \* the network change that built the resolver, 0 at first
    marker,       \* the hostname is in refreshing
    changer,      \* where network_changed is
    pc,           \* where each caller is
    gen,          \* gen_at_start of each caller
    owner,        \* the caller whose lookup try_get_with runs, if any
    asked,        \* the resolver that lookup uses
    begun,        \* the generation in which it began
    task,         \* where each refresh is
    taskGen,      \* gen_at_start of each refresh
    taskAsked     \* the resolver each refresh uses

cache == <<entry, marker>>
network == <<generation, resolver, changer>>
lookups == <<pc, gen, owner, asked, begun>>
tasks == <<task, taskGen, taskAsked>>
vars == <<cache, network, lookups, tasks>>

NoEntry == [kind |-> "none"]
NoCaller == "nobody"

\* from: the resolver that gave the answer.  born: the generation in which
\* the lookup began.  by: whether a caller or a refresh looked it up.  The code
\* keeps none of them.
Entry(from, born, by) ==
    [kind |-> "fresh", from |-> from, born |-> born, by |-> by]

Entries ==
    {NoEntry} \cup
    [kind : {"fresh", "stale"}, from : 0..MaxChanges, born : 0..MaxChanges,
     by : {"caller", "refresh"}]

Init ==
    /\ entry = NoEntry /\ marker = FALSE
    /\ generation = 0 /\ resolver = 0 /\ changer = "idle"
    /\ pc = [c \in Callers |-> "idle"]
    /\ gen = [c \in Callers |-> 0]
    /\ owner = NoCaller /\ asked = 0 /\ begun = 0
    /\ task = [t \in Refreshes |-> "idle"]
    /\ taskGen = [t \in Refreshes |-> 0]
    /\ taskAsked = [t \in Refreshes |-> 0]

-----------------------------------------------------------------------------
(* Time: an entry is fresh for cache_ttl, stale for stale_ttl, then gone.  *)

Expire ==
    /\ entry.kind # "none"
    /\ entry' = IF entry.kind = "fresh" /\ Stale
                THEN [entry EXCEPT !.kind = "stale"] ELSE NoEntry
    /\ UNCHANGED <<marker, network, lookups, tasks>>

-----------------------------------------------------------------------------
(* resolve_zero_port.  A fresh entry is returned and nothing changes.      *)

\* A stale entry is returned too, and the first to see it spawns a refresh.
\* gen_at_start is read before the marker is set, and by this caller.
ServeStale(t) ==
    /\ entry.kind = "stale"
    /\ ~marker /\ marker' = TRUE
    /\ task[t] = "idle" /\ task' = [task EXCEPT ![t] = "spawned"]
    /\ taskGen' = [taskGen EXCEPT ![t] = generation]
    /\ UNCHANGED <<entry, network, lookups, taskAsked>>

\* No entry: gen_at_start is read.
Miss(c) ==
    /\ pc[c] = "idle" /\ entry.kind = "none"
    /\ pc' = [pc EXCEPT ![c] = "asking"]
    /\ gen' = [gen EXCEPT ![c] = generation]
    /\ UNCHANGED <<cache, network, owner, asked, begun, tasks>>

\* try_get_with: an entry that has appeared is taken, a lookup under way is
\* shared, otherwise this caller's do_resolve starts with the resolver as it
\* is now.
Ask(c) ==
    /\ pc[c] = "asking"
    /\ \/ /\ entry.kind # "none"
          /\ pc' = [pc EXCEPT ![c] = "checking"]
          /\ UNCHANGED <<owner, asked, begun>>
       \/ /\ entry.kind = "none" /\ owner # NoCaller
          /\ pc' = [pc EXCEPT ![c] = "waiting"]
          /\ UNCHANGED <<owner, asked, begun>>
       \/ /\ entry.kind = "none" /\ owner = NoCaller
          /\ pc' = [pc EXCEPT ![c] = "resolving"]
          /\ owner' = c /\ asked' = resolver /\ begun' = gen[c]
    /\ UNCHANGED <<cache, network, gen, tasks>>

\* The lookup ends: its answer is in the cache, or its error is not, and all
\* who share it go on.
Resolved(c) ==
    /\ pc[c] = "resolving"
    /\ entry' = Entry(asked, begun, "caller") \/ UNCHANGED entry
    /\ owner' = NoCaller
    /\ pc' = [d \in Callers |->
                IF d = c \/ pc[d] = "waiting" THEN "checking" ELSE pc[d]]
    /\ UNCHANGED <<marker, network, gen, asked, begun, tasks>>

\* A caller gives up (its request timed out or was cancelled): one that
\* shares its lookup takes over.
GiveUp(c) ==
    /\ \/ /\ pc[c] = "waiting"
          /\ pc' = [pc EXCEPT ![c] = "idle"] /\ UNCHANGED owner
       \/ /\ pc[c] = "resolving"
          /\ owner' = NoCaller
          /\ pc' = [d \in Callers |->
                      IF d = c THEN "idle"
                      ELSE IF pc[d] = "waiting" THEN "asking" ELSE pc[d]]
    /\ UNCHANGED <<cache, network, gen, asked, begun, tasks>>

\* Mutant: the generation is not compared again.
CheckNever(c) ==
    /\ pc[c] = "checking" /\ pc' = [pc EXCEPT ![c] = "idle"]
    /\ UNCHANGED <<cache, network, gen, owner, asked, begun, tasks>>

\* A caller that a change has overtaken removes the entry, whoever put it
\* there, and returns what it got.
Check(c) ==
    /\ pc[c] = "checking" /\ pc' = [pc EXCEPT ![c] = "idle"]
    /\ entry' = IF gen[c] # generation THEN NoEntry ELSE entry
    /\ UNCHANGED <<marker, network, gen, owner, asked, begun, tasks>>

-----------------------------------------------------------------------------
(* The refresh task.                                                       *)

RefreshStart(t) ==
    /\ task[t] = "spawned" /\ task' = [task EXCEPT ![t] = "resolving"]
    /\ taskAsked' = [taskAsked EXCEPT ![t] = resolver]
    /\ UNCHANGED <<cache, network, lookups, taskGen>>

\* The answer is kept if the generation is still that of the start; an error
\* is not.
RefreshResolved(t) ==
    /\ task[t] = "resolving"
    /\ \/ /\ taskGen[t] = generation
          /\ task' = [task EXCEPT ![t] = "inserting"]
       \/ task' = [task EXCEPT ![t] = "ending"]
    /\ UNCHANGED <<cache, network, lookups, taskGen, taskAsked>>

RefreshInsert(t) ==
    /\ task[t] = "inserting" /\ task' = [task EXCEPT ![t] = "ending"]
    /\ entry' = Entry(taskAsked[t], taskGen[t], "refresh")
    /\ UNCHANGED <<marker, network, lookups, taskGen, taskAsked>>

\* Mutant: the task ends without taking the hostname out of refreshing.
RefreshEndKeepsMarker(t) ==
    /\ task[t] = "ending" /\ task' = [task EXCEPT ![t] = "idle"]
    /\ UNCHANGED <<cache, network, lookups, taskGen, taskAsked>>

\* The hostname leaves refreshing, whichever task put it there.
RefreshEnd(t) ==
    /\ task[t] = "ending" /\ task' = [task EXCEPT ![t] = "idle"]
    /\ marker' = FALSE
    /\ UNCHANGED <<entry, network, lookups, taskGen, taskAsked>>

-----------------------------------------------------------------------------
(* network_changed: clear_cache in its steps, then the new resolver.       *)

ChangeBump ==
    /\ changer = "idle" /\ generation < MaxChanges
    /\ generation' = generation + 1
    /\ changer' = "invalidating"
    /\ UNCHANGED <<cache, resolver, lookups, tasks>>

ChangeInvalidate ==
    /\ changer = "invalidating" /\ changer' = "releasing"
    /\ entry' = NoEntry
    /\ UNCHANGED <<marker, generation, resolver, lookups, tasks>>

ChangeRelease ==
    /\ changer = "releasing" /\ changer' = "building"
    /\ marker' = FALSE
    /\ UNCHANGED <<entry, generation, resolver, lookups, tasks>>

ChangeInstall ==
    /\ changer = "building" /\ changer' = "idle"
    /\ resolver' = generation
    /\ UNCHANGED <<cache, generation, lookups, tasks>>

\* The new resolver cannot be built: the old one stays.
ChangeFails ==
    /\ changer = "building" /\ changer' = "idle"
    /\ UNCHANGED <<cache, generation, resolver, lookups, tasks>>

-----------------------------------------------------------------------------
Next ==
    \/ Expire
    \/ \E c \in Callers :
          Miss(c) \/ Ask(c) \/ Resolved(c) \/ GiveUp(c) \/ Check(c)
    \/ \E t \in Refreshes :
          \/ ServeStale(t) \/ RefreshStart(t) \/ RefreshResolved(t)
          \/ RefreshInsert(t) \/ RefreshEnd(t)
    \/ ChangeBump \/ ChangeInvalidate \/ ChangeRelease
    \/ ChangeInstall \/ ChangeFails

Spec == Init /\ [][Next]_vars

-----------------------------------------------------------------------------
(* Properties.                                                             *)

\* Every variable holds values of its type.
TypeOK ==
    /\ entry \in Entries /\ marker \in BOOLEAN
    /\ generation \in 0..MaxChanges /\ resolver \in 0..generation
    /\ changer \in {"idle", "invalidating", "releasing", "building"}
    /\ pc \in [Callers ->
                 {"idle", "asking", "waiting", "resolving", "checking"}]
    /\ gen \in [Callers -> 0..generation]
    /\ owner \in {c \in Callers : pc[c] = "resolving"} \cup {NoCaller}
    /\ asked \in 0..MaxChanges /\ begun \in 0..MaxChanges
    /\ task \in [Refreshes ->
                   {"idle", "spawned", "resolving", "inserting", "ending"}]
    /\ taskGen \in [Refreshes -> 0..generation]
    /\ taskAsked \in [Refreshes -> 0..generation]

\* The answer of a caller's lookup that began before a network change is in
\* the cache only until the change has cleared it or a caller has come back
\* from that lookup, and is not left there.
OldLookupLeaves ==
    (entry.kind # "none" /\ entry.by = "caller" /\ entry.born < generation) =>
        \/ changer = "invalidating"
        \/ \E c \in Callers : pc[c] = "checking" /\ gen[c] < generation

\* A hostname is in refreshing only while a refresh of it is under way: no
\* way through the task leaves it there, where it would keep the entry stale
\* until it is gone.
MarkerHasTask ==
    marker => \E t \in Refreshes : task[t] # "idle"

\* Nothing is left behind by a task or a caller that is gone: the marker has a
\* refresh, and a lookup that others share has a caller that runs it.
NothingLeftBehind == TypeOK /\ MarkerHasTask
=============================================================================
