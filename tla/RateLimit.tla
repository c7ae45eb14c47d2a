----------------------------- MODULE RateLimit -----------------------------
(***************************************************************************)
(* RateLimitMiddleware: every request of every process increments one      *)
(* counter in Redis and, when it was the first, gives the counter a life   *)
(* of WINDOW_SECONDS in a second call.  A process takes part only when its *)
(* CacheService reached Redis while the process was starting.              *)
(*                                                                         *)
(* A key stands for rate_limit:{identifier}:{path}.  The middleware runs   *)
(* before the guards, so the identifier is always an address; the routes   *)
(* are mounted below api/v1, so no path starts with /auth and GLOBAL_LIMIT *)
(* is the only limit that is ever compared with.                           *)
(*                                                                         *)
(* A command may fail after Redis has executed it.  ioredis sends it again *)
(* on its next connection, or gives it up, and CacheService answers 0 for  *)
(* an INCR it has given up and nothing for an EXPIRE.                      *)
(*                                                                         *)
(* A tick is 1/Window of a minute.  A counter is only compared with 1 and  *)
(* with the limit, so counts above Limit + 1 are one value.                *)
(***************************************************************************)
EXTENDS Naturals, FiniteSetsExt

CONSTANTS
    Procs,          \* the processes of the cluster
    Keys,           \* the counters' names
    Reqs,           \* slots for requests in flight
    Limit,          \* GLOBAL_LIMIT
    Window,         \* WINDOW_SECONDS, in ticks
    None,
    MaxFree,        \* bound: uncounted requests of one tick that the histories enter
    RedisMayFail,   \* a command may stay without an answer, or end in an error
    ProcsMayDie     \* a process may die and be started again by pm2

ASSUME LimitAssumption == Limit \in Nat \ {0}
ASSUME WindowAssumption == Window \in Nat \ {0}
ASSUME MaxFreeAssumption == MaxFree \in Nat
ASSUME FaultAssumption == RedisMayFail \in BOOLEAN /\ ProcsMayDie \in BOOLEAN

VARIABLES
    count,      \* the counter of a key; 0 when Redis has no such key
    life,       \* ticks until the key expires; Forever without a TTL
    connected,  \* stats.connected of each process, or None while it is down
    call,       \* the request in each slot, or None
    recent,     \* history: requests let through in each tick of the last Window
    free,       \* history: those of them that Redis never counted
    orphaned    \* history: counters that have lost the EXPIRE of their first request

vars == <<count, life, connected, call, recent, free, orphaned>>
redis == <<count, life, orphaned>>
history == <<recent, free>>

Forever == Window + 1
Ages == 0 .. Window - 1
Full == Limit + 1

\* A request: its INCR is under way, its EXPIRE is, or it knows its number.
CallRecord == [proc : Procs, key : Keys, n : 0 .. Full, pc : {"incr", "expire", "answer"}]
ASSUME NoneAssumption == None \notin CallRecord \cup BOOLEAN

At(r, l) == call[r] # None /\ call[r].pc = l

TypeOK ==
    /\ count \in [Keys -> 0 .. Full]
    /\ life \in [Keys -> 1 .. Forever]
    /\ connected \in [Procs -> BOOLEAN \cup {None}]
    /\ call \in [Reqs -> CallRecord \cup {None}]
    /\ recent \in [Keys -> [Ages -> Nat]]
    /\ free \in [Keys -> [Ages -> 0 .. MaxFree]]
    /\ orphaned \subseteq Keys

NoneYet == [k \in Keys |-> [a \in Ages |-> 0]]

Init ==
    /\ count = [k \in Keys |-> 0]
    /\ life = [k \in Keys |-> Forever]
    /\ connected = [p \in Procs |-> None]
    /\ call = [r \in Reqs |-> None]
    /\ recent = NoneYet /\ free = NoneYet
    /\ orphaned = {}

-----------------------------------------------------------------------------
AllowedOneMore(n) == ~(n > Limit + 1)               \* faulty: off by one
IsFirstOfZero(n) == n = 0                           \* faulty: INCR answers the old count
IsFirstAlways(n) == n > 0                           \* faulty: every request renews the TTL

Allowed(n) == ~(n > Limit)
IsFirst(n) == n = 1
Next1(n) == IF n = Full THEN Full ELSE n + 1    \* INCR, above the limit one value

\* A counter that exists and will not go away by itself.
Endless(k) == count[k] > 0 /\ life[k] = Forever

\* A request for k is let through and no counter knows of it.
PassUncounted(k) ==
    IF free[k][0] < MaxFree
    THEN /\ recent' = [recent EXCEPT ![k][0] = @ + 1]
         /\ free' = [free EXCEPT ![k][0] = @ + 1]
    ELSE UNCHANGED history

\* A process starts; whether it ever uses Redis is settled here.
OnModuleInit(p) ==
    /\ connected[p] = None
    /\ \E ok \in (IF RedisMayFail THEN BOOLEAN ELSE {TRUE}) :
          connected' = [connected EXCEPT ![p] = ok]
    /\ UNCHANGED <<redis, call, history>>

\* A process without a cache lets every request through.
UseUnconnected(p, k) ==
    /\ connected[p] = FALSE
    /\ PassUncounted(k)
    /\ UNCHANGED <<redis, connected, call>>

\* Faulty: the call forgets which key it counts.
SendIncrNameless(r, p, k) ==
    /\ connected[p] = TRUE
    /\ call[r] = None
    /\ call' = [call EXCEPT ![r] = [proc |-> p, key |-> None, n |-> 0, pc |-> "incr"]]
    /\ UNCHANGED <<redis, connected, history>>
SendIncr(r, p, k) ==
    /\ connected[p] = TRUE
    /\ call[r] = None
    /\ call' = [call EXCEPT ![r] = [proc |-> p, key |-> k, n |-> 0, pc |-> "incr"]]
    /\ UNCHANGED <<redis, connected, history>>

\* Redis counts the request and says so; one that will be let through is entered
\* in the history.
Incr(r) ==
    /\ At(r, "incr")
    /\ LET k == call[r].key
           n == Next1(count[k])
       IN /\ count' = [count EXCEPT ![k] = n]
          /\ call' = [call EXCEPT ![r] =
                        [@ EXCEPT !.n = n, !.pc = IF IsFirst(n) THEN "expire" ELSE "answer"]]
          /\ recent' = [recent EXCEPT ![k][0] = IF Allowed(n) THEN @ + 1 ELSE @]
    /\ UNCHANGED <<life, connected, free, orphaned>>

\* Redis counts the request and the connection drops before it has said so; the
\* command waits to be sent again.  The next answer to it cannot be 1.
IncrUnanswered(r) ==
    /\ RedisMayFail
    /\ At(r, "incr")
    /\ LET k == call[r].key
       IN /\ count' = [count EXCEPT ![k] = Next1(@)]
          /\ orphaned' = IF count[k] = 0 THEN orphaned \cup {k} ELSE orphaned
    /\ UNCHANGED <<life, connected, call, history>>

\* The command is given up: incr answers 0, and the request goes on as if it were
\* free.
IncrFails(r) ==
    /\ RedisMayFail
    /\ At(r, "incr")
    /\ call' = [call EXCEPT ![r].pc = "answer"]
    /\ PassUncounted(call[r].key)
    /\ UNCHANGED <<redis, connected>>

\* EXPIRE, which does nothing for a key that is not there.
SetTtl(k) ==
    /\ life' = IF count[k] > 0 THEN [life EXCEPT ![k] = Window] ELSE life
    /\ orphaned' = orphaned \ {k}

Expire(r) ==
    /\ At(r, "expire")
    /\ SetTtl(call[r].key)
    /\ call' = [call EXCEPT ![r].pc = "answer"]
    /\ UNCHANGED <<count, connected, history>>

\* Executed, and sent again: perhaps to a counter that is not its own any more.
ExpireUnanswered(r) ==
    /\ RedisMayFail
    /\ At(r, "expire")
    /\ SetTtl(call[r].key)
    /\ UNCHANGED <<count, connected, call, history>>

\* The error is caught inside CacheService.expire: the request goes on.
ExpireFails(r) ==
    /\ RedisMayFail
    /\ At(r, "expire")
    /\ call' = [call EXCEPT ![r].pc = "answer"]
    /\ orphaned' = orphaned \cup {k \in {call[r].key} : Endless(k)}
    /\ UNCHANGED <<count, life, connected, history>>

\* 429 or next(); the TTL read before it only fills a header.
Answer(r) ==
    /\ At(r, "answer")
    /\ call' = [call EXCEPT ![r] = None]
    /\ UNCHANGED <<redis, connected, history>>

-----------------------------------------------------------------------------
(* The world: time, and processes that die with the requests they hold. *)

Older(f) == [a \in Ages |-> IF a = 0 THEN 0 ELSE f[a - 1]]

Tick ==
    /\ count' = [k \in Keys |-> IF life[k] = 1 THEN 0 ELSE count[k]]
    /\ life' = [k \in Keys |-> IF life[k] \in {1, Forever} THEN Forever ELSE life[k] - 1]
    /\ recent' = [k \in Keys |-> Older(recent[k])]
    /\ free' = [k \in Keys |-> Older(free[k])]
    /\ UNCHANGED <<connected, call, orphaned>>

\* A request whose EXPIRE was still to come leaves its counter without one.
Die(p) ==
    /\ ProcsMayDie
    /\ connected[p] # None
    /\ connected' = [connected EXCEPT ![p] = None]
    /\ LET lost == {r \in Reqs : call[r] # None /\ call[r].proc = p}
           cut == {call[r].key : r \in {s \in lost : At(s, "expire")}}
       IN /\ call' = [r \in Reqs |-> IF r \in lost THEN None ELSE call[r]]
          /\ orphaned' = orphaned \cup {k \in cut : Endless(k)}
    /\ UNCHANGED <<count, life, history>>

\* What becomes of a command that was sent, and of a request that was counted.
Answered(r) == Incr(r) \/ IncrFails(r) \/ Expire(r) \/ ExpireFails(r) \/ Answer(r)

Use(r) ==
    \/ \E p \in Procs, k \in Keys : SendIncr(r, p, k)
    \/ IncrUnanswered(r) \/ ExpireUnanswered(r)
    \/ Answered(r)

Next ==
    \/ \E p \in Procs : OnModuleInit(p) \/ Die(p)
    \/ \E p \in Procs, k \in Keys : UseUnconnected(p, k)
    \/ \E r \in Reqs : Use(r)
    \/ Tick

Spec == Init /\ [][Next]_vars

\* Time passes, and a command is answered or given up: ioredis retries a command
\* a limited number of times.
FairSpec == Spec /\ WF_vars(Tick) /\ \A r \in Reqs : WF_vars(Answered(r))

-----------------------------------------------------------------------------
Sum(f) == MapThenSumSet(LAMBDA a : f[a], Ages)

\* A fixed window that starts with its first request lets through at most twice
\* the limit in any minute, whatever the interleaving of INCR and EXPIRE of the
\* processes (rate-limit.middleware.ts:80-84), and beyond that only requests that
\* no counter knows of: those of a process without a cache, and those whose INCR
\* was given up (cache.service.ts:351-364).
BurstBounded == \A k \in Keys : Sum(recent[k]) <= 2 * Limit + Sum(free[k])

\* A counter without a TTL, which shuts its client out for good, has a cause: its
\* first request is still about to call expire, or the answer to that request's
\* INCR was lost, its EXPIRE failed, or its process died in between.  Only the
\* last three leave it so.
StuckHasCause ==
    \A k \in Keys :
        /\ Endless(k) => k \in orphaned \/ \E r \in Reqs : At(r, "expire") /\ call[r].key = k
        /\ k \in orphaned => Endless(k)

\* A client that is over the limit is let in again, however often it retries,
\* unless its counter has lost its EXPIRE.
BlockIsTemporary ==
    \A k \in Keys : count[k] > Limit ~> (count[k] = 0 \/ k \in orphaned)
=============================================================================
