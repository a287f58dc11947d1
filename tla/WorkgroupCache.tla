--------------------------- MODULE WorkgroupCache ---------------------------
(***************************************************************************)
(* The workgroup lookup of QueryContext across concurrent sessions: getWG *)
(* (src/go/wg.go) memoizes GetWorkGroup in the process-wide memoize.Group *)
(* getWGGroup, keyed by name, with a TTL counted from the completion of   *)
(* the fetch; failed fetches are not kept.  Each session then decides as  *)
(* QueryContext does (src/go/connection.go): proceed on an ENABLED        *)
(* workgroup, refuse a DISABLED one, and on a failed lookup create the    *)
(* workgroup remotely when the configuration allows it.                   *)
(*                                                                         *)
(* One workgroup name is modelled (entries of different names never       *)
(* interact).  memoize.Group itself is not in the repository; its         *)
(* single-flight and expiry behaviour is taken from the spec.  Outside    *)
(* the driver the workgroup may be enabled, disabled, created, deleted.  *)
(***************************************************************************)
EXTENDS Naturals, FiniteSets

CONSTANTS
    Sessions,        \* connections resolving the workgroup concurrently
    TTL,             \* lifetime of a cached lookup (10 minutes), in ticks
    MaxTime,         \* the clock stops here
    MaxQueries,      \* queries each session issues
    TransientErrors  \* GetWorkGroup / CreateWorkGroup may fail transiently

ASSUME TTL \in Nat \ {0} /\ MaxTime \in Nat /\ MaxQueries \in Nat
ASSUME TransientErrors \in BOOLEAN

VARIABLES
    allowCreate, \* per session: its config.IsWGRemoteCreationAllowed()
    wgRemote,   \* the workgroup at Athena: absent, ENABLED or DISABLED
    now,        \* the clock
    entry,      \* the memoize entry: last good value, when fetched, expiry
    inflight,   \* fetch goroutines running GetWorkGroup for the name
    pc,         \* per session: idle, waiting (in Do), create, done
    got,        \* per session: what getWG returned
    age,        \* per session: age of the value getWG returned
    verdict,    \* per session: what QueryContext made of it
    queries     \* per session: queries issued so far

vars == <<allowCreate, wgRemote, now, entry, inflight, pc, got, age, verdict, queries>>

WGStates == {"absent", "ENABLED", "DISABLED"}
Results  == {"none", "ENABLED", "DISABLED", "error"}
Verdicts == {"none", "proceed", "ErrWGDisabled", "ErrWG"}

-----------------------------------------------------------------------------
(* memoize.Group.Do, as getWG uses it.                                    *)

\* The entry holds a value that has not expired.
Valid == entry.val # "none" /\ now < entry.expiresAt

\* What QueryContext does with the result of getWG for session s: go on
\* with an ENABLED workgroup, refuse a DISABLED one, and after an error
\* create the workgroup if the session's configuration allows it.
NextPc(s, res) ==
    IF res = "error" /\ allowCreate[s] THEN "create" ELSE "done"

Verdict(s, res) ==
    CASE res = "ENABLED"  -> "proceed"
      [] res = "DISABLED" -> "ErrWGDisabled"
      [] allowCreate[s]   -> "none"
      [] OTHER            -> "ErrWG"

Decide(s, res) ==
    /\ pc' = [pc EXCEPT ![s] = NextPc(s, res)]
    /\ verdict' = [verdict EXCEPT ![s] = Verdict(s, res)]

\* A session calls getWG: a valid entry is returned at once; otherwise the
\* caller joins the fetch in flight, or starts one.
Resolve(s) ==
    /\ pc[s] = "idle"
    /\ queries[s] < MaxQueries
    /\ IF Valid
         THEN /\ got' = [got EXCEPT ![s] = entry.val]
              /\ age' = [age EXCEPT ![s] = now - entry.fetchedAt]
              /\ Decide(s, entry.val)
              /\ UNCHANGED inflight
         ELSE /\ inflight' = IF inflight = 0 THEN 1 ELSE inflight
              /\ pc' = [pc EXCEPT ![s] = "waiting"]
              /\ UNCHANGED <<got, age, verdict>>
    /\ UNCHANGED <<allowCreate, wgRemote, now, entry, queries>>

\* Mutant: a failed lookup kept like a good one.
CachedErrorsToo(res) == [val |-> res, fetchedAt |-> now, expiresAt |-> now + TTL]

\* The entry getWG's fetch leaves behind: a good answer expires TTL after
\* the fetch completes; an error comes with a zero expiry and is not kept.
Cached(res) ==
    IF res = "error" THEN entry
    ELSE [val |-> res, fetchedAt |-> now, expiresAt |-> now + TTL]

\* The callers that receive the result of the fetch: all that wait in Do.
Woken(res) == {s \in Sessions : pc[s] = "waiting"}

\* The fetch goroutine's GetWorkGroup returns and its answer is cached.
\* Every waiter gets the same result and QueryContext decides on it.
FetchComplete ==
    /\ inflight > 0
    /\ \E transient \in IF TransientErrors THEN BOOLEAN ELSE {FALSE} :
        LET res == IF transient \/ wgRemote = "absent" THEN "error" ELSE wgRemote
            W   == Woken(res)
        IN /\ entry' = Cached(res)
           /\ inflight' = inflight - 1
           /\ got' = [s \in Sessions |-> IF s \in W THEN res ELSE got[s]]
           /\ age' = [s \in Sessions |-> IF s \in W THEN 0 ELSE age[s]]
           /\ pc' = [s \in Sessions |-> IF s \in W THEN NextPc(s, res) ELSE pc[s]]
           /\ verdict' = [s \in Sessions |->
                            IF s \in W THEN Verdict(s, res) ELSE verdict[s]]
    /\ UNCHANGED <<allowCreate, wgRemote, now, queries>>

\* Workgroup.CreateWGRemotely: CreateWorkGroup succeeds only for a name
\* that does not exist yet; the cache is left as it is.
Create(s) ==
    /\ pc[s] = "create"
    /\ \E transient \in IF TransientErrors THEN BOOLEAN ELSE {FALSE} :
        LET ok == ~transient /\ wgRemote = "absent"
        IN /\ wgRemote' = IF ok THEN "ENABLED" ELSE wgRemote
           /\ verdict' = [verdict EXCEPT ![s] = IF ok THEN "proceed" ELSE "ErrWG"]
    /\ pc' = [pc EXCEPT ![s] = "done"]
    /\ UNCHANGED <<allowCreate, now, entry, inflight, got, age, queries>>

\* The query goes on (or has failed); the session is free for the next.
Complete(s) ==
    /\ pc[s] = "done"
    /\ pc' = [pc EXCEPT ![s] = "idle"]
    /\ queries' = [queries EXCEPT ![s] = @ + 1]
    /\ got' = [got EXCEPT ![s] = "none"]
    /\ verdict' = [verdict EXCEPT ![s] = "none"]
    /\ UNCHANGED <<allowCreate, wgRemote, now, entry, inflight, age>>

-----------------------------------------------------------------------------
(* Environment.                                                           *)

Tick ==
    /\ now < MaxTime
    /\ now' = now + 1
    /\ UNCHANGED <<allowCreate, wgRemote, entry, inflight, pc, got, age, verdict,
                   queries>>

\* Outside the driver, the workgroup is enabled, disabled, created or
\* deleted (by the account's admin or another process).
AdminChange ==
    /\ wgRemote' \in WGStates \ {wgRemote}
    /\ UNCHANGED <<allowCreate, now, entry, inflight, pc, got, age, verdict,
                   queries>>

-----------------------------------------------------------------------------

Init ==
    /\ allowCreate \in [Sessions -> BOOLEAN]
    /\ wgRemote \in {"absent", "ENABLED"}
    /\ now = 0
    /\ entry = [val |-> "none", fetchedAt |-> 0, expiresAt |-> 0]
    /\ inflight = 0
    /\ pc = [s \in Sessions |-> "idle"]
    /\ got = [s \in Sessions |-> "none"]
    /\ age = [s \in Sessions |-> 0]
    /\ verdict = [s \in Sessions |-> "none"]
    /\ queries = [s \in Sessions |-> 0]

SessionStep(s) == Resolve(s) \/ Create(s) \/ Complete(s)

Next ==
    \/ \E s \in Sessions : SessionStep(s)
    \/ FetchComplete \/ Tick \/ AdminChange

Spec == Init /\ [][Next]_vars

-----------------------------------------------------------------------------
(* Properties.                                                            *)

TypeOK ==
    /\ allowCreate \in [Sessions -> BOOLEAN]
    /\ wgRemote \in WGStates
    /\ now \in 0..MaxTime
    /\ entry \in [val : {"none", "ENABLED", "DISABLED"},
                  fetchedAt : 0..MaxTime, expiresAt : 0..(MaxTime + TTL)]
    /\ inflight \in Nat
    /\ pc \in [Sessions -> {"idle", "waiting", "create", "done"}]
    /\ got \in [Sessions -> Results]
    /\ age \in [Sessions -> Nat]
    /\ verdict \in [Sessions -> Verdicts]
    /\ queries \in [Sessions -> 0..MaxQueries]

-----------------------------------------------------------------------------
\* The refinement mapping onto the cache's contract: a session waiting in
\* Do has not been answered yet, one deciding to create has been; the
\* fetch in flight, the ages, the configuration and the verdicts are
\* hidden.
LookupPc == [s \in Sessions |-> IF pc[s] \in {"idle", "waiting"} THEN "idle" ELSE "done"]

Lookup == INSTANCE WorkgroupLookup WITH pc <- LookupPc

\* getWG over memoize.Group implements the contract of section 4.3: every
\* behaviour of the sessions, the fetch goroutine and the clock is one in
\* which sets of concurrent callers resolve atomically, from a value within
\* its TTL or from one shared lookup, and failures are never kept.
ImplementsLookup == Lookup!Spec

=============================================================================
