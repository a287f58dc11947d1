--------------------------- MODULE WorkgroupLookup ---------------------------
(***************************************************************************)
(* What the workgroup cache promises (spec section 4.3), for one name:    *)
(* resolve(name) answers from the cache while the cached value is within  *)
(* its TTL; otherwise one remote lookup is made and every caller that     *)
(* asked meanwhile receives its result, error included.  A good result is *)
(* kept for TTL from the moment the lookup completes, a failure is not    *)
(* kept.  Concurrent callers are one atomic step here: a set of sessions  *)
(* resolves together, with no waiting and no fetch in flight.             *)
(***************************************************************************)
EXTENDS Naturals

CONSTANTS Sessions, TTL, MaxTime, MaxQueries, TransientErrors

VARIABLES
    wgRemote,  \* the workgroup at Athena: absent, ENABLED or DISABLED
    now,       \* the clock
    entry,     \* the cached value, when it was fetched, when it expires
    pc,        \* per session: "idle" (not yet answered) or "done"
    got,       \* per session: the answer resolve gave
    queries    \* per session: resolutions completed

vars == <<wgRemote, now, entry, pc, got, queries>>

WGStates == {"absent", "ENABLED", "DISABLED"}

Hit == entry.val # "none" /\ now < entry.expiresAt

\* The sessions in S resolve together: from the cache on a hit, otherwise
\* with one lookup whose answer they all receive.
Resolve(S) ==
    /\ S # {}
    /\ \A s \in S : pc[s] = "idle" /\ queries[s] < MaxQueries
    /\ \E transient \in IF TransientErrors THEN BOOLEAN ELSE {FALSE} :
        LET res == CASE Hit -> entry.val
                     [] transient \/ wgRemote = "absent" -> "error"
                     [] OTHER -> wgRemote
        IN /\ entry' = IF Hit \/ res = "error" THEN entry
                       ELSE [val |-> res, fetchedAt |-> now, expiresAt |-> now + TTL]
           /\ got' = [s \in Sessions |-> IF s \in S THEN res ELSE got[s]]
    /\ pc' = [s \in Sessions |-> IF s \in S THEN "done" ELSE pc[s]]
    /\ UNCHANGED <<wgRemote, now, queries>>

\* The caller is finished with the answer and may resolve again.
Release(s) ==
    /\ pc[s] = "done"
    /\ pc' = [pc EXCEPT ![s] = "idle"]
    /\ got' = [got EXCEPT ![s] = "none"]
    /\ queries' = [queries EXCEPT ![s] = @ + 1]
    /\ UNCHANGED <<wgRemote, now, entry>>

Tick ==
    /\ now < MaxTime
    /\ now' = now + 1
    /\ UNCHANGED <<wgRemote, entry, pc, got, queries>>

\* The workgroup is created, enabled, disabled or deleted at Athena.
RemoteChange ==
    /\ wgRemote' \in WGStates \ {wgRemote}
    /\ UNCHANGED <<now, entry, pc, got, queries>>

Init ==
    /\ wgRemote \in {"absent", "ENABLED"}
    /\ now = 0
    /\ entry = [val |-> "none", fetchedAt |-> 0, expiresAt |-> 0]
    /\ pc = [s \in Sessions |-> "idle"]
    /\ got = [s \in Sessions |-> "none"]
    /\ queries = [s \in Sessions |-> 0]

Next ==
    \/ \E S \in SUBSET Sessions : Resolve(S)
    \/ \E s \in Sessions : Release(s)
    \/ Tick \/ RemoteChange

Spec == Init /\ [][Next]_vars

=============================================================================
