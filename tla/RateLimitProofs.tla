--------------------------- MODULE RateLimitProofs ---------------------------
(***************************************************************************)
(* Proofs about RateLimit, for any number of processes, keys and requests, *)
(* any limit and any window: the state stays typed, a counter without a    *)
(* TTL always has a cause, and a burst is at most twice the limit and what *)
(* passed uncounted.                                                       *)
(***************************************************************************)
EXTENDS RateLimit, Sums

\* A key that Redis does not have has no TTL either.
TtlOfKey == \A k \in Keys : count[k] = 0 => life[k] = Forever

\* The inductive invariant.
RInv == TypeOK /\ StuckHasCause /\ TtlOfKey

\* A slot holds nothing, or a typed request with one of the three positions.
LEMMA CallTypes ==
  ASSUME TypeOK, NEW r \in Reqs, call[r] # None
  PROVE  /\ call[r] \in CallRecord
         /\ call[r].proc \in Procs /\ call[r].key \in Keys /\ call[r].n \in 0 .. Full
         /\ call[r].pc \in {"incr", "expire", "answer"}
<1>1. call[r] \in CallRecord
  BY DEF TypeOK
<1>2. QED
  BY <1>1 DEF CallRecord

\* Limit and Window are positive, so the derived bounds are numbers in order.
LEMMA Bounds == /\ Full \in Nat /\ Full >= 2 /\ 0 \in 0 .. Full
                /\ Forever \in 2 .. Forever /\ Window \in 1 .. Forever /\ Window # Forever
BY LimitAssumption, WindowAssumption DEF Full, Forever

\* INCR keeps a counter in its range and makes it positive.
LEMMA NextOne ==
  ASSUME NEW n \in 0 .. Full
  PROVE  /\ Next1(n) \in 0 .. Full /\ Next1(n) \in Nat /\ Next1(n) > 0 /\ Next1(n) >= n
         /\ n = 0 => IsFirst(Next1(n))
         /\ Allowed(Next1(n)) => Next1(n) = n + 1 /\ Next1(n) <= Limit
BY Bounds, LimitAssumption DEF Next1, IsFirst, Full, Allowed

\* The window is a finite set of ticks that has 0.
LEMMA AgesFinite == /\ IsFiniteSet(Ages) /\ 0 \in Ages
                    /\ \A a \in Ages : a \in Nat /\ a < Window /\ (a # 0 => a - 1 \in Ages)
BY WindowAssumption, FS_Interval DEF Ages

\* Writing the present tick of a history.
LEMMA PutTyped ==
  ASSUME NEW S, NEW f \in [Ages -> S], NEW v \in S
  PROVE  [f EXCEPT ![0] = v] \in [Ages -> S]
OBVIOUS

\* Histories stay typed when a request passes uncounted.
LEMMA PassTyped ==
  ASSUME TypeOK, NEW k \in Keys, PassUncounted(k)
  PROVE  recent' \in [Keys -> [Ages -> Nat]] /\ free' \in [Keys -> [Ages -> 0 .. MaxFree]]
<1>1. /\ recent[k] \in [Ages -> Nat] /\ recent[k][0] \in Nat
      /\ free[k] \in [Ages -> 0 .. MaxFree] /\ free[k][0] \in 0 .. MaxFree
  BY AgesFinite DEF TypeOK
<1>2. CASE free[k][0] < MaxFree
  <2>1. /\ recent' = [recent EXCEPT ![k] = [recent[k] EXCEPT ![0] = recent[k][0] + 1]]
        /\ free' = [free EXCEPT ![k] = [free[k] EXCEPT ![0] = free[k][0] + 1]]
    BY <1>2 DEF PassUncounted
  <2>2. recent[k][0] + 1 \in Nat /\ free[k][0] + 1 \in 0 .. MaxFree
    BY <1>1, <1>2, MaxFreeAssumption
  <2>3. /\ [recent[k] EXCEPT ![0] = recent[k][0] + 1] \in [Ages -> Nat]
        /\ [free[k] EXCEPT ![0] = free[k][0] + 1] \in [Ages -> 0 .. MaxFree]
    BY <1>1, <2>2, PutTyped
  <2>4. QED
    BY <2>1, <2>3 DEF TypeOK
<1>3. CASE ~(free[k][0] < MaxFree)
  BY <1>3 DEF PassUncounted, history, TypeOK
<1>4. QED
  BY <1>2, <1>3

\* Redis starts without keys.
LEMMA InitRInv == Init => RInv
<1> SUFFICES ASSUME Init PROVE RInv
  OBVIOUS
<1>1. NoneYet \in [Keys -> [Ages -> Nat]] /\ NoneYet \in [Keys -> [Ages -> 0 .. MaxFree]]
  BY MaxFreeAssumption DEF NoneYet
<1>2. TypeOK
  BY <1>1, Bounds DEF Init, TypeOK
<1>3. StuckHasCause
  BY DEF Init, StuckHasCause, Endless
<1>4. QED
  BY <1>2, <1>3 DEF RInv, Init, TtlOfKey

-----------------------------------------------------------------------------
(* One lemma per action *)

\* The request in slot r is what gives the counter of k its TTL.
Gives(x, k) == x # None /\ x.pc = "expire" /\ x.key = k

\* A step of one slot is harmless if every counter that is endless after it is
\* orphaned, has the slot to wait for, or was endless before for another reason
\* than that slot.
LEMMA SlotKeeps ==
  ASSUME RInv, NEW r \in Reqs, NEW new \in CallRecord \cup {None}, call' = [call EXCEPT ![r] = new],
         connected' = connected, count' \in [Keys -> 0 .. Full], life' \in [Keys -> 1 .. Forever],
         orphaned' \subseteq Keys,
         recent' \in [Keys -> [Ages -> Nat]], free' \in [Keys -> [Ages -> 0 .. MaxFree]],
         \A k \in Keys : k \in orphaned' => Endless(k)',
         \A k \in Keys : count'[k] = 0 => life'[k] = Forever,
         \A k \in Keys : Endless(k)' =>
            \/ k \in orphaned' \/ Gives(new, k)
            \/ Endless(k) /\ k \notin orphaned /\ ~Gives(call[r], k)
  PROVE  RInv'
<1>1. TypeOK'
  BY DEF RInv, TypeOK
<1>2. call'[r] = new /\ \A q \in Reqs \ {r} : call'[q] = call[q]
  BY DEF RInv, TypeOK
<1>3. ASSUME NEW k \in Keys, Endless(k)'
      PROVE  k \in orphaned' \/ \E q \in Reqs : (At(q, "expire") /\ call[q].key = k)'
  <2>1. CASE k \in orphaned'
    BY <2>1
  <2>2. CASE Gives(new, k)
    BY <1>2, <2>2 DEF Gives, At
  <2>3. CASE Endless(k) /\ k \notin orphaned /\ ~Gives(call[r], k)
    <3>1. PICK q \in Reqs : At(q, "expire") /\ call[q].key = k
      BY <2>3 DEF RInv, StuckHasCause
    <3>2. q # r
      BY <2>3, <3>1 DEF Gives, At
    <3>3. QED
      BY <1>2, <3>1, <3>2 DEF At
  <2>4. QED
    BY <1>3, <2>1, <2>2, <2>3
<1>4. QED
  BY <1>1, <1>3 DEF RInv, StuckHasCause, TtlOfKey

\* A step that leaves Redis alone, of a slot that owes nothing.
LEMMA NoRedisKeeps ==
  ASSUME RInv, NEW r \in Reqs, NEW new \in CallRecord \cup {None}, call' = [call EXCEPT ![r] = new],
         UNCHANGED <<redis, connected>>, ~At(r, "expire"),
         recent' \in [Keys -> [Ages -> Nat]], free' \in [Keys -> [Ages -> 0 .. MaxFree]]
  PROVE  RInv'
<1>1. /\ count' = count /\ life' = life /\ orphaned' = orphaned /\ connected' = connected
  BY DEF redis
<1>2. \A k \in Keys : Endless(k)' <=> Endless(k)
  BY <1>1 DEF Endless
<1>3. \A k \in Keys : ~Gives(call[r], k)
  BY DEF Gives, At
<1>4. \A k \in Keys : k \in orphaned => Endless(k)
  BY DEF RInv, StuckHasCause
<1>5. \A k \in Keys : k \in orphaned' => Endless(k)'
  BY <1>1, <1>2, <1>4
<1>6. \A k \in Keys : Endless(k)' =>
            \/ k \in orphaned' \/ Gives(new, k)
            \/ Endless(k) /\ k \notin orphaned /\ ~Gives(call[r], k)
  BY <1>1, <1>2, <1>3
<1>7. count' \in [Keys -> 0 .. Full] /\ life' \in [Keys -> 1 .. Forever] /\ orphaned' \subseteq Keys
  BY <1>1 DEF RInv, TypeOK
<1>8. QED
  BY <1>1, <1>5, <1>6, <1>7, SlotKeeps DEF RInv, TtlOfKey

\* A command is sent.
LEMMA SendIncrKeeps ==
  ASSUME RInv, NEW r \in Reqs, NEW p \in Procs, NEW k \in Keys, SendIncr(r, p, k)
  PROVE  RInv'
<1> DEFINE new == [proc |-> p, key |-> k, n |-> 0, pc |-> "incr"]
<1>1. new \in CallRecord
  BY Bounds DEF CallRecord
<1>2. call' = [call EXCEPT ![r] = new] /\ UNCHANGED <<redis, connected>> /\ ~At(r, "expire")
      /\ recent' = recent /\ free' = free
  BY DEF SendIncr, At, history
<1> HIDE DEF new
<1>3. recent' \in [Keys -> [Ages -> Nat]] /\ free' \in [Keys -> [Ages -> 0 .. MaxFree]]
  BY <1>2 DEF RInv, TypeOK
<1>4. QED
  BY <1>1, <1>2, <1>3, NoRedisKeeps

\* Who counts first has an EXPIRE to send; every later one changes no cause.
LEMMA IncrKeeps ==
  ASSUME RInv, NEW r \in Reqs, Incr(r)
  PROVE  RInv'
<1> DEFINE k == call[r].key
           n == Next1(count[k])
           new == [call[r] EXCEPT !.n = n, !.pc = IF IsFirst(n) THEN "expire" ELSE "answer"]
           m == IF Allowed(n) THEN recent[k][0] + 1 ELSE recent[k][0]
<1>1. call[r] # None /\ call[r].pc = "incr" /\ call[r] \in CallRecord /\ k \in Keys
  BY CallTypes DEF Incr, At, RInv
<1>2. count[k] \in 0 .. Full /\ recent[k] \in [Ages -> Nat] /\ recent[k][0] \in Nat
  BY <1>1, AgesFinite DEF RInv, TypeOK
<1>3. n \in 0 .. Full /\ n > 0 /\ (count[k] = 0 => IsFirst(n))
  BY <1>2, NextOne
<1>4. /\ count' = [count EXCEPT ![k] = n] /\ call' = [call EXCEPT ![r] = new]
      /\ recent' = [recent EXCEPT ![k] = [recent[k] EXCEPT ![0] = m]]
      /\ life' = life /\ connected' = connected /\ free' = free /\ orphaned' = orphaned
  BY DEF Incr
<1> HIDE DEF n
<1>5. new \in CallRecord /\ new.key = k /\ (IsFirst(n) => new.pc = "expire")
  BY <1>1, <1>3 DEF CallRecord
<1>6. new # None
  BY <1>5, NoneAssumption
<1>7. [recent[k] EXCEPT ![0] = m] \in [Ages -> Nat]
  <2>1. m \in Nat
    BY <1>2
  <2>2. QED
    BY <1>2, <2>1, PutTyped
<1> HIDE DEF new, m, k
<1>8. /\ count' \in [Keys -> 0 .. Full] /\ life' \in [Keys -> 1 .. Forever] /\ orphaned' \subseteq Keys
      /\ recent' \in [Keys -> [Ages -> Nat]] /\ free' \in [Keys -> [Ages -> 0 .. MaxFree]]
  BY <1>1, <1>3, <1>4, <1>7 DEF RInv, TypeOK
<1>9. /\ \A j \in Keys \ {k} : count'[j] = count[j]
      /\ count'[k] = n
  BY <1>1, <1>4 DEF RInv, TypeOK
<1>10. \A j \in Keys : j \in orphaned' => Endless(j)'
  BY <1>3, <1>4, <1>9 DEF RInv, StuckHasCause, Endless
<1>11. ASSUME NEW j \in Keys, Endless(j)', j \notin orphaned', ~Gives(new, j)
       PROVE  Endless(j) /\ j \notin orphaned /\ ~Gives(call[r], j)
  <2>1. ~(j = k /\ count[k] = 0)
    BY <1>3, <1>5, <1>6, <1>11 DEF Gives
  <2>2. count[j] > 0
    BY <1>2, <1>9, <1>11, <2>1 DEF Endless
  <2>3. Endless(j) /\ ~Gives(call[r], j)
    BY <1>1, <1>4, <1>11, <2>2 DEF Endless, Gives
  <2>4. QED
    BY <1>4, <1>11, <2>3
<1>12. \A j \in Keys : count'[j] = 0 => life'[j] = Forever
  BY <1>3, <1>4, <1>9 DEF RInv, TtlOfKey
<1>13. QED
  BY <1>4, <1>5, <1>8, <1>10, <1>11, <1>12, SlotKeeps

\* A first INCR without an answer leaves its counter to nobody.
LEMMA IncrUnansweredKeeps ==
  ASSUME RInv, NEW r \in Reqs, IncrUnanswered(r)
  PROVE  RInv'
<1> DEFINE k == call[r].key
           n == Next1(count[k])
<1>1. call[r] # None /\ call[r].pc = "incr" /\ call[r] \in CallRecord /\ k \in Keys
  BY CallTypes DEF IncrUnanswered, At, RInv
<1>2. count[k] \in 0 .. Full /\ life[k] \in 1 .. Forever
  BY <1>1 DEF RInv, TypeOK
<1>3. n \in 0 .. Full /\ n > 0
  BY <1>2, NextOne
<1>4. /\ count' = [count EXCEPT ![k] = n] /\ call' = call
      /\ orphaned' = IF count[k] = 0 THEN orphaned \cup {k} ELSE orphaned
      /\ life' = life /\ connected' = connected /\ recent' = recent /\ free' = free
  BY DEF IncrUnanswered, history
<1> HIDE DEF n, k
<1>5. call' = [call EXCEPT ![r] = call[r]]
  BY <1>4 DEF RInv, TypeOK
<1>6. /\ count' \in [Keys -> 0 .. Full] /\ life' \in [Keys -> 1 .. Forever] /\ orphaned' \subseteq Keys
      /\ recent' \in [Keys -> [Ages -> Nat]] /\ free' \in [Keys -> [Ages -> 0 .. MaxFree]]
  BY <1>1, <1>3, <1>4 DEF RInv, TypeOK
<1>7. /\ \A j \in Keys \ {k} : count'[j] = count[j]
      /\ count'[k] = n
  BY <1>1, <1>4 DEF RInv, TypeOK
<1>8. count[k] = 0 => life[k] = Forever
  BY <1>1 DEF RInv, TtlOfKey
<1>9. \A j \in Keys : j \in orphaned' => Endless(j)'
  BY <1>3, <1>4, <1>7, <1>8 DEF RInv, StuckHasCause, Endless
<1>10. ASSUME NEW j \in Keys, Endless(j)', j \notin orphaned'
       PROVE  Endless(j) /\ j \notin orphaned /\ ~Gives(call[r], j)
  BY <1>1, <1>2, <1>4, <1>7, <1>10 DEF Endless, Gives
<1>11. \A j \in Keys : count'[j] = 0 => life'[j] = Forever
  BY <1>3, <1>4, <1>7 DEF RInv, TtlOfKey
<1>12. QED
  BY <1>1, <1>4, <1>5, <1>6, <1>9, <1>10, <1>11, SlotKeeps

\* An INCR that is given up touches no key.
LEMMA IncrFailsKeeps ==
  ASSUME RInv, NEW r \in Reqs, IncrFails(r)
  PROVE  RInv'
<1> DEFINE new == [call[r] EXCEPT !.pc = "answer"]
<1>1. call[r] # None /\ call[r].pc = "incr" /\ call[r] \in CallRecord /\ call[r].key \in Keys
  BY CallTypes DEF IncrFails, At, RInv
<1>2. new \in CallRecord
  BY <1>1 DEF CallRecord
<1>3. call' = [call EXCEPT ![r] = new] /\ UNCHANGED <<redis, connected>> /\ ~At(r, "expire")
  BY <1>1 DEF IncrFails, At
<1>4. recent' \in [Keys -> [Ages -> Nat]] /\ free' \in [Keys -> [Ages -> 0 .. MaxFree]]
  BY <1>1, PassTyped DEF IncrFails, RInv
<1> HIDE DEF new
<1>5. QED
  BY <1>2, <1>3, <1>4, NoRedisKeeps

\* EXPIRE gives a counter its TTL, whoever sends it and whatever the slot does next.
LEMMA TtlKeeps ==
  ASSUME RInv, NEW r \in Reqs, NEW new \in CallRecord \cup {None}, call' = [call EXCEPT ![r] = new],
         At(r, "expire"), SetTtl(call[r].key), UNCHANGED <<count, connected, recent, free>>
  PROVE  RInv'
<1> DEFINE k == call[r].key
<1>1. call[r] # None /\ k \in Keys
  BY CallTypes DEF At, RInv
<1>2. /\ life' = IF count[k] > 0 THEN [life EXCEPT ![k] = Window] ELSE life
      /\ orphaned' = orphaned \ {k}
  BY DEF SetTtl
<1> HIDE DEF k
<1>3. /\ count' \in [Keys -> 0 .. Full] /\ life' \in [Keys -> 1 .. Forever] /\ orphaned' \subseteq Keys
      /\ recent' \in [Keys -> [Ages -> Nat]] /\ free' \in [Keys -> [Ages -> 0 .. MaxFree]]
  BY <1>2, Bounds DEF RInv, TypeOK
<1>4. /\ \A j \in Keys \ {k} : life'[j] = life[j]
      /\ count[k] > 0 => life'[k] # Forever
      /\ count[k] = 0 => life'[k] = life[k]
  BY <1>1, <1>2, Bounds DEF RInv, TypeOK
<1>5. \A j \in Keys : j \in orphaned' => Endless(j)'
  BY <1>2, <1>4 DEF RInv, StuckHasCause, Endless
<1>6. \A j \in Keys : count'[j] = 0 => life'[j] = Forever
  BY <1>1, <1>4 DEF RInv, TtlOfKey, TypeOK
<1>7. ASSUME NEW j \in Keys, Endless(j)', j \notin orphaned'
      PROVE  Endless(j) /\ j \notin orphaned /\ ~Gives(call[r], j)
  <2>1. j # k
    BY <1>4, <1>7 DEF Endless
  <2>2. QED
    BY <1>2, <1>4, <1>7, <2>1 DEF Endless, Gives, k
<1>8. QED
  BY <1>3, <1>5, <1>6, <1>7, SlotKeeps

LEMMA ExpireKeeps ==
  ASSUME RInv, NEW r \in Reqs, Expire(r)
  PROVE  RInv'
<1> DEFINE new == [call[r] EXCEPT !.pc = "answer"]
<1>1. call[r] \in CallRecord
  BY CallTypes DEF Expire, At, RInv
<1>2. new \in CallRecord
  BY <1>1 DEF CallRecord
<1>3. call' = [call EXCEPT ![r] = new] /\ At(r, "expire") /\ SetTtl(call[r].key)
      /\ UNCHANGED <<count, connected, recent, free>>
  BY DEF Expire, history
<1> HIDE DEF new
<1>4. QED
  BY <1>2, <1>3, TtlKeeps

LEMMA ExpireUnansweredKeeps ==
  ASSUME RInv, NEW r \in Reqs, ExpireUnanswered(r)
  PROVE  RInv'
<1>1. call[r] \in CallRecord
  BY CallTypes DEF ExpireUnanswered, At, RInv
<1>2. call' = [call EXCEPT ![r] = call[r]] /\ At(r, "expire") /\ SetTtl(call[r].key)
      /\ UNCHANGED <<count, connected, recent, free>>
  BY DEF ExpireUnanswered, history, RInv, TypeOK
<1>3. QED
  BY <1>1, <1>2, TtlKeeps

\* An EXPIRE that is given up leaves its counter in orphaned, if it never came.
LEMMA ExpireFailsKeeps ==
  ASSUME RInv, NEW r \in Reqs, ExpireFails(r)
  PROVE  RInv'
<1> DEFINE new == [call[r] EXCEPT !.pc = "answer"]
<1>1. call[r] # None /\ call[r] \in CallRecord /\ call[r].key \in Keys
  BY CallTypes DEF ExpireFails, At, RInv
<1>2. new \in CallRecord
  BY <1>1 DEF CallRecord
<1>3. call' = [call EXCEPT ![r] = new] /\ UNCHANGED <<count, life, connected, recent, free>>
      /\ orphaned' = orphaned \cup {k \in {call[r].key} : Endless(k)}
  BY DEF ExpireFails, history
<1> HIDE DEF new
<1>4. /\ count' \in [Keys -> 0 .. Full] /\ life' \in [Keys -> 1 .. Forever] /\ orphaned' \subseteq Keys
      /\ recent' \in [Keys -> [Ages -> Nat]] /\ free' \in [Keys -> [Ages -> 0 .. MaxFree]]
  BY <1>1, <1>3 DEF RInv, TypeOK
<1>5. \A j \in Keys : Endless(j)' <=> Endless(j)
  BY <1>3 DEF Endless
<1>6. \A j \in Keys : j \in orphaned' => Endless(j)'
  BY <1>3, <1>5 DEF RInv, StuckHasCause
<1>7. ASSUME NEW j \in Keys, Endless(j)', j \notin orphaned'
      PROVE  Endless(j) /\ j \notin orphaned /\ ~Gives(call[r], j)
  BY <1>3, <1>5, <1>7 DEF Gives
<1>8. \A j \in Keys : count'[j] = 0 => life'[j] = Forever
  BY <1>3 DEF RInv, TtlOfKey
<1>9. QED
  BY <1>2, <1>3, <1>4, <1>6, <1>7, <1>8, SlotKeeps

\* A request that is answered had its expire behind it.
LEMMA AnswerKeeps ==
  ASSUME RInv, NEW r \in Reqs, Answer(r)
  PROVE  RInv'
<1>1. call' = [call EXCEPT ![r] = None] /\ UNCHANGED <<redis, connected>> /\ ~At(r, "expire")
      /\ recent' = recent /\ free' = free
  BY DEF Answer, At, history
<1>2. recent' \in [Keys -> [Ages -> Nat]] /\ free' \in [Keys -> [Ages -> 0 .. MaxFree]]
  BY <1>1 DEF RInv, TypeOK
<1>3. QED
  BY <1>1, <1>2, NoRedisKeeps

\* One tick later a history is still a history.
LEMMA OlderTyped ==
  ASSUME NEW S, 0 \in S, NEW f \in [Ages -> S]
  PROVE  Older(f) \in [Ages -> S]
BY AgesFinite DEF Older

\* Time removes a counter together with its TTL and never takes a TTL away alone.
LEMMA TickKeeps ==
  ASSUME RInv, Tick
  PROVE  RInv'
<1>1. \A k \in Keys : life[k] \in 1 .. Forever /\ count[k] \in 0 .. Full
  BY DEF RInv, TypeOK
<1>2. \A k \in Keys : life'[k] = IF life[k] \in {1, Forever} THEN Forever ELSE life[k] - 1
  BY DEF Tick
<1>3. \A k \in Keys : count'[k] = IF life[k] = 1 THEN 0 ELSE count[k]
  BY DEF Tick
<1>4. life' \in [Keys -> 1 .. Forever]
  <2>1. \A k \in Keys : life'[k] \in 1 .. Forever
    BY <1>1, <1>2, Bounds
  <2>2. QED
    BY <2>1 DEF Tick
<1>5. count' \in [Keys -> 0 .. Full]
  <2>1. \A k \in Keys : count'[k] \in 0 .. Full
    BY <1>1, <1>3, Bounds
  <2>2. QED
    BY <2>1 DEF Tick
<1>6. recent' \in [Keys -> [Ages -> Nat]] /\ free' \in [Keys -> [Ages -> 0 .. MaxFree]]
  <2>1. \A k \in Keys : Older(recent[k]) \in [Ages -> Nat]
    BY OlderTyped DEF RInv, TypeOK
  <2>2. 0 \in 0 .. MaxFree
    BY MaxFreeAssumption
  <2>3. \A k \in Keys : Older(free[k]) \in [Ages -> 0 .. MaxFree]
    BY <2>2, OlderTyped DEF RInv, TypeOK
  <2>4. QED
    BY <2>1, <2>3 DEF Tick
<1>7. TypeOK'
  BY <1>4, <1>5, <1>6 DEF RInv, TypeOK, Tick
<1>8. \A k \in Keys : Endless(k)' <=> Endless(k)
  <2>1. TAKE k \in Keys
  <2>2. life'[k] = Forever => life[k] \in {1, Forever}
    BY <1>1, <1>2, Bounds
  <2>3. Forever # 1
    BY Bounds
  <2>4. QED
    BY <1>1, <1>2, <1>3, <2>2, <2>3 DEF Endless
<1>9. StuckHasCause'
  BY <1>8 DEF RInv, StuckHasCause, Tick, At
<1>10. TtlOfKey'
  BY <1>2, <1>3 DEF RInv, TtlOfKey
<1>11. QED
  BY <1>7, <1>9, <1>10 DEF RInv

\* A process that dies orphans the counters whose EXPIRE it had not sent yet.
LEMMA DieKeeps ==
  ASSUME RInv, NEW p \in Procs, Die(p)
  PROVE  RInv'
<1> DEFINE lost == {r \in Reqs : call[r] # None /\ call[r].proc = p}
           cut == {call[r].key : r \in {s \in lost : At(s, "expire")}}
<1>1. call' = [r \in Reqs |-> IF r \in lost THEN None ELSE call[r]]
  BY DEF Die
<1>2. orphaned' = orphaned \cup {k \in cut : Endless(k)}
  BY DEF Die
<1>3. connected' \in [Procs -> BOOLEAN \cup {None}]
  BY DEF Die, RInv, TypeOK
<1>4. orphaned' \subseteq Keys
  BY <1>2, CallTypes DEF RInv, TypeOK
<1>5. call' \in [Reqs -> CallRecord \cup {None}]
  BY <1>1 DEF RInv, TypeOK
<1>6. UNCHANGED <<count, life, recent, free>>
  BY DEF Die, history
<1>7. TypeOK'
  BY <1>3, <1>4, <1>5, <1>6 DEF RInv, TypeOK
<1>8. \A k \in Keys : Endless(k)' <=> Endless(k)
  BY <1>6 DEF Endless
<1>9. ASSUME NEW k \in Keys, Endless(k)
      PROVE  k \in orphaned' \/ \E q \in Reqs : (At(q, "expire") /\ call[q].key = k)'
  <2>1. CASE k \in orphaned
    BY <2>1, <1>2
  <2>2. CASE \E q \in Reqs : At(q, "expire") /\ call[q].key = k
    <3>1. PICK q \in Reqs : At(q, "expire") /\ call[q].key = k
      BY <2>2
    <3>2. CASE q \in lost
      BY <1>2, <1>9, <3>1, <3>2
    <3>3. CASE q \notin lost
      <4>1. call'[q] = call[q]
        BY <1>1, <3>3
      <4>2. QED
        BY <3>1, <4>1 DEF At
    <3>4. QED
      BY <3>2, <3>3
  <2>3. QED
    BY <1>9, <2>1, <2>2 DEF RInv, StuckHasCause
<1>10. \A k \in Keys : k \in orphaned' => Endless(k)
  BY <1>2 DEF RInv, StuckHasCause
<1>11. StuckHasCause'
  BY <1>8, <1>9, <1>10 DEF StuckHasCause
<1>12. QED
  BY <1>6, <1>7, <1>11 DEF RInv, TtlOfKey

\* Starting a process concerns no key.
LEMMA OnModuleInitKeeps ==
  ASSUME RInv, NEW p \in Procs, OnModuleInit(p)
  PROVE  RInv'
<1>1. connected' \in [Procs -> BOOLEAN \cup {None}]
  <2>1. PICK ok \in BOOLEAN : connected' = [connected EXCEPT ![p] = ok]
    BY DEF OnModuleInit
  <2>2. QED
    BY <2>1 DEF RInv, TypeOK
<1>2. UNCHANGED <<count, life, call, recent, free, orphaned>>
  BY DEF OnModuleInit, redis, history
<1>3. QED
  BY <1>1, <1>2 DEF RInv, TypeOK, StuckHasCause, TtlOfKey, Endless, At

\* Nor does a process without a cache.
LEMMA UseUnconnectedKeeps ==
  ASSUME RInv, NEW p \in Procs, NEW k \in Keys, UseUnconnected(p, k)
  PROVE  RInv'
<1>1. recent' \in [Keys -> [Ages -> Nat]] /\ free' \in [Keys -> [Ages -> 0 .. MaxFree]]
  BY PassTyped DEF UseUnconnected, RInv
<1>2. UNCHANGED <<count, life, connected, call, orphaned>>
  BY DEF UseUnconnected, redis
<1>3. QED
  BY <1>1, <1>2 DEF RInv, TypeOK, StuckHasCause, TtlOfKey, Endless, At

-----------------------------------------------------------------------------
\* Every step keeps the invariant.
LEMMA NextKeeps == RInv /\ [Next]_vars => RInv'
<1> SUFFICES ASSUME RInv, [Next]_vars PROVE RInv'
  OBVIOUS
<1>1. CASE \E p \in Procs : OnModuleInit(p) \/ Die(p)
  BY <1>1, OnModuleInitKeeps, DieKeeps
<1>2. CASE \E p \in Procs, k \in Keys : UseUnconnected(p, k)
  BY <1>2, UseUnconnectedKeeps
<1>3. CASE \E r \in Reqs : Use(r)
  BY <1>3, SendIncrKeeps, IncrKeeps, IncrUnansweredKeeps, IncrFailsKeeps, ExpireKeeps,
     ExpireUnansweredKeeps, ExpireFailsKeeps, AnswerKeeps DEF Use, Answered
<1>4. CASE Tick
  BY <1>4, TickKeeps
<1>5. CASE UNCHANGED vars
  BY <1>5 DEF vars, RInv, TypeOK, StuckHasCause, TtlOfKey, Endless, At
<1>6. QED
  BY <1>1, <1>2, <1>3, <1>4, <1>5 DEF Next

\* Counters, TTLs and requests in flight keep their types under every
\* interleaving, failure and restart.
THEOREM RateLimitTypeCorrect == Spec => []TypeOK
<1>1. RInv => TypeOK
  BY DEF RInv
<1>2. QED
  BY InitRInv, NextKeeps, <1>1, PTL DEF Spec

\* A counter that would never expire is one whose first request is still about to
\* call expire, or has lost the answer to its INCR, its EXPIRE or its process
\* (rate-limit.middleware.ts:80-84, cache.service.ts:351-364): commands that
\* overlap, are sent twice or arrive late make no other, and a counter that has
\* lost its EXPIRE is without a TTL indeed.
THEOREM StuckCountersHaveCause == Spec => []StuckHasCause
<1>1. RInv => StuckHasCause
  BY DEF RInv
<1>2. QED
  BY InitRInv, NextKeeps, <1>1, PTL DEF Spec

-----------------------------------------------------------------------------
(* The burst *)

\* The requests of the last Window that were let through for key k: those its
\* present counter counted (new), those of the counters before it (old), and those
\* nobody counted.  The old ones are so old that they leave the window no later
\* than the counter dies.
Split(k, old, new) ==
  /\ old \in [Ages -> Nat] /\ new \in [Ages -> Nat]
  /\ \A a \in Ages : recent[k][a] = old[a] + new[a] + free[k][a]
  /\ Total(old, Ages) <= Limit
  /\ Total(new, Ages) <= count[k] /\ Total(new, Ages) <= Limit
  /\ \A a \in Ages : old[a] > 0 => a >= 1 /\ a + life[k] > Window

BurstInv == \A k \in Keys : \E old, new : Split(k, old, new)

None0 == [a \in Ages |-> 0]

\* The terms of a history are numbers.
LEMMA Counts == ASSUME NEW f \in [Ages -> Nat] PROVE Numbers(f, Ages) /\ Total(f, Ages) \in Nat
<1>1. Numbers(f, Ages)
  BY DEF Numbers
<1>2. QED
  BY <1>1, AgesFinite, TotalNat

\* Time adds nothing to a history.
LEMMA OlderIsLess ==
  ASSUME NEW f \in [Ages -> Nat]
  PROVE  Older(f) \in [Ages -> Nat] /\ Total(Older(f), Ages) <= Total(f, Ages)
<1> DEFINE g == Older(f)
           S == Ages \ {0}
           h == [a \in S |-> a - 1]
<1>1. g \in [Ages -> Nat] /\ g[0] = 0
  BY AgesFinite DEF Older
<1>2. Numbers(g, Ages) /\ Numbers(g, S) /\ Numbers(f, Ages)
  BY <1>1 DEF Numbers
<1>3. Total(g, Ages) = g[0] + Total(g, S)
  BY <1>2, AgesFinite, TotalOne
<1>4. IsFiniteSet(S)
  BY AgesFinite, FS_RemoveElement
<1>5. Total(g, S) <= Total(f, Ages)
  <2>1. h \in [S -> Ages] /\ \A x \in S : g[x] <= f[h[x]]
    BY AgesFinite DEF Older
  <2>2. \A x, y \in S : h[x] = h[y] => x = y
    BY AgesFinite
  <2> HIDE DEF g, S, h
  <2>3. QED
    BY <1>2, <1>4, <2>1, <2>2, AgesFinite, TotalInto
<1>6. Total(g, S) \in Nat
  BY <1>2, <1>4, TotalNat
<1>7. QED
  BY <1>1, <1>3, <1>5, <1>6

\* A history that let nothing through.
LEMMA NoneTotal == None0 \in [Ages -> Nat] /\ Total(None0, Ages) = 0
BY AgesFinite, TotalZero DEF None0

\* One more request now.
LEMMA OneMore ==
  ASSUME NEW f \in [Ages -> Nat]
  PROVE  LET g == [f EXCEPT ![0] = @ + 1]
         IN g \in [Ages -> Nat] /\ Total(g, Ages) = Total(f, Ages) + 1
<1> DEFINE g == [f EXCEPT ![0] = @ + 1]
           S == Ages \ {0}
<1>1. g \in [Ages -> Nat] /\ g[0] = f[0] + 1 /\ f[0] \in Nat /\ \A a \in S : g[a] = f[a]
  BY AgesFinite
<1>2. Total(g, Ages) = g[0] + Total(g, S) /\ Total(f, Ages) = f[0] + Total(f, S)
  <2>1. Numbers(g, Ages) /\ Numbers(f, Ages)
    BY <1>1, Counts
  <2> HIDE DEF g
  <2>2. QED
    BY <2>1, AgesFinite, TotalOne
<1>3. /\ IsFiniteSet(S) /\ Numbers(g, S) /\ Numbers(f, S)
      /\ Total(g, S) \in Nat /\ Total(f, S) \in Nat
  <2>1. IsFiniteSet(S) /\ Numbers(g, S) /\ Numbers(f, S)
    BY <1>1, AgesFinite, FS_RemoveElement DEF Numbers
  <2>2. QED
    BY <2>1, TotalNat
<1> HIDE DEF g
<1>4. Total(g, S) <= Total(f, S) /\ Total(f, S) <= Total(g, S)
  BY <1>1, <1>3, TotalMono
<1>5. QED
  BY <1>1, <1>2, <1>3, <1>4 DEF g

\* No request has been let through yet.
LEMMA InitBurst == Init => BurstInv
<1> SUFFICES ASSUME Init, NEW k \in Keys PROVE \E old, new : Split(k, old, new)
  BY DEF BurstInv
<1>1. recent[k] = None0 /\ free[k] = None0 /\ count[k] = 0
  BY DEF Init, NoneYet, None0
<1>2. \A a \in Ages : None0[a] = 0
  BY DEF None0
<1>3. Split(k, None0, None0)
  BY <1>1, <1>2, NoneTotal, LimitAssumption DEF Split
<1>4. QED
  BY <1>3

\* A counter that grows, and a request it may have let through within the limit.
LEMMA IncrBurst ==
  ASSUME RInv, BurstInv, NEW r \in Reqs, Incr(r)
  PROVE  BurstInv'
<1> DEFINE j == call[r].key
           n == Next1(count[j])
<1>1. /\ count' = [count EXCEPT ![j] = n] /\ life' = life /\ free' = free
      /\ recent' = [recent EXCEPT ![j] = [recent[j] EXCEPT ![0] = IF Allowed(n) THEN @ + 1 ELSE @]]
  BY DEF Incr
<1>2. /\ count \in [Keys -> 0 .. Full] /\ recent \in [Keys -> [Ages -> Nat]]
      /\ free \in [Keys -> [Ages -> 0 .. MaxFree]] /\ j \in Keys
  BY CallTypes DEF RInv, TypeOK, Incr, At
<1>3. n \in Nat /\ n >= count[j] /\ (Allowed(n) => n = count[j] + 1 /\ n <= Limit)
  BY <1>2, NextOne
<1> HIDE DEF n, j
<1> SUFFICES ASSUME NEW k \in Keys PROVE \E old, new : Split(k, old, new)'
  BY DEF BurstInv
<1>4. PICK old, new : Split(k, old, new)
  BY DEF BurstInv
<1>5. old \in [Ages -> Nat] /\ new \in [Ages -> Nat] /\ Total(new, Ages) \in Nat
  BY <1>4, Counts DEF Split
<1>6. CASE k # j
  <2>1. count'[k] = count[k] /\ recent'[k] = recent[k]
    BY <1>1, <1>2, <1>6
  <2>2. Split(k, old, new)'
    BY <1>1, <1>4, <2>1 DEF Split
  <2>3. QED
    BY <2>2
<1>7. CASE k = j /\ ~Allowed(n)
  <2>1. count'[k] = n /\ recent'[k] = recent[k]
    BY <1>1, <1>2, <1>7, AgesFinite
  <2>2. Total(new, Ages) <= n
    BY <1>2, <1>3, <1>4, <1>5, <1>7 DEF Split
  <2>3. Split(k, old, new)'
    BY <1>1, <1>4, <2>1, <2>2 DEF Split
  <2>4. QED
    BY <2>3
<1>8. CASE k = j /\ Allowed(n)
  <2> DEFINE more == [new EXCEPT ![0] = @ + 1]
  <2>1. count'[k] = n /\ recent'[k] = [recent[k] EXCEPT ![0] = @ + 1]
    BY <1>1, <1>2, <1>8
  <2>2. more \in [Ages -> Nat] /\ Total(more, Ages) = Total(new, Ages) + 1
    BY <1>5, OneMore
  <2>3. \A a \in Ages : recent'[k][a] = old[a] + more[a] + free[k][a]
    <3>1. TAKE a \in Ages
    <3>2. /\ recent[k] \in [Ages -> Nat] /\ recent[k][a] = old[a] + new[a] + free[k][a]
          /\ old[a] \in Nat /\ new[a] \in Nat /\ free[k][a] \in 0 .. MaxFree
      BY <1>2, <1>4, <1>5 DEF Split
    <3>3. CASE a = 0
      <4>1. recent'[k][a] = recent[k][a] + 1 /\ more[a] = new[a] + 1
        BY <2>1, <3>2, <3>3, <1>5
      <4>2. QED
        BY <3>2, <4>1, MaxFreeAssumption
    <3>4. CASE a # 0
      BY <2>1, <3>2, <3>4, <1>5
    <3>5. QED
      BY <3>3, <3>4
  <2> HIDE DEF more
  <2>4. Total(more, Ages) <= n /\ Total(more, Ages) <= Limit
    <3>1. Total(new, Ages) <= count[k]
      BY <1>4 DEF Split
    <3>2. n = count[k] + 1 /\ n <= Limit /\ count[k] \in Nat
      BY <1>2, <1>3, <1>8
    <3> DEFINE t == Total(new, Ages)
               m == Total(more, Ages)
    <3>3. m = t + 1 /\ t \in Nat /\ t <= count[k]
      BY <2>2, <3>1, <1>5
    <3> HIDE DEF t, m
    <3>4. m <= n /\ m <= Limit
      BY <3>2, <3>3, LimitAssumption
    <3>5. QED
      BY <3>4 DEF m
  <2>5. Split(k, old, more)'
    BY <1>1, <1>4, <2>1, <2>2, <2>3, <2>4 DEF Split
  <2>6. QED
    BY <2>5
<1>9. QED
  BY <1>6, <1>7, <1>8

\* A counter that grows without letting anybody through only leaves less room.
LEMMA IncrUnansweredBurst ==
  ASSUME RInv, BurstInv, NEW r \in Reqs, IncrUnanswered(r)
  PROVE  BurstInv'
<1> SUFFICES ASSUME NEW k \in Keys PROVE \E old, new : Split(k, old, new)'
  BY DEF BurstInv
<1>1. life' = life /\ recent' = recent /\ free' = free
  BY DEF IncrUnanswered, history
<1>2. count[k] \in 0 .. Full /\ count'[k] \in Nat /\ count'[k] >= count[k]
  <2>1. count' = [count EXCEPT ![call[r].key] = Next1(count[call[r].key])]
    BY DEF IncrUnanswered
  <2>2. count[k] \in 0 .. Full
    BY DEF RInv, TypeOK
  <2>3. count'[k] = count[k] \/ count'[k] = Next1(count[k])
    BY <2>1 DEF RInv, TypeOK
  <2>4. QED
    BY <2>2, <2>3, NextOne
<1>3. PICK old, new : Split(k, old, new)
  BY DEF BurstInv
<1>4. Total(new, Ages) \in Nat
  BY <1>3, Counts DEF Split
<1>5. Total(new, Ages) <= count'[k]
  BY <1>2, <1>3, <1>4 DEF Split
<1>6. Split(k, old, new)'
  BY <1>1, <1>3, <1>5 DEF Split
<1>7. QED
  BY <1>6

\* What passes uncounted is on neither side of the split.
LEMMA PassBurst ==
  ASSUME RInv, BurstInv, NEW j \in Keys, PassUncounted(j), UNCHANGED <<count, life>>
  PROVE  BurstInv'
<1> SUFFICES ASSUME NEW k \in Keys PROVE \E old, new : Split(k, old, new)'
  BY DEF BurstInv
<1>1. PICK old, new : Split(k, old, new)
  BY DEF BurstInv
<1>2. \A a \in Ages : recent'[k][a] = old[a] + new[a] + free'[k][a]
  <2>1. TAKE a \in Ages
  <2>2. /\ recent[k] \in [Ages -> Nat] /\ recent[k][a] = old[a] + new[a] + free[k][a]
        /\ old[a] \in Nat /\ new[a] \in Nat /\ free[k][a] \in Nat /\ free[k] \in [Ages -> 0 .. MaxFree]
        /\ recent \in [Keys -> [Ages -> Nat]] /\ free \in [Keys -> [Ages -> 0 .. MaxFree]]
    BY <1>1, MaxFreeAssumption DEF Split, RInv, TypeOK
  <2>3. \/ recent'[k][a] = recent[k][a] + 1 /\ free'[k][a] = free[k][a] + 1
        \/ recent'[k][a] = recent[k][a] /\ free'[k][a] = free[k][a]
    BY <2>2 DEF PassUncounted, history
  <2>4. QED
    BY <2>2, <2>3
<1>3. Split(k, old, new)'
  BY <1>1, <1>2 DEF Split
<1>4. QED
  BY <1>3

\* A counter that gets its TTL lives for a whole window.
LEMMA TtlBurst ==
  ASSUME RInv, BurstInv, NEW j \in Keys, SetTtl(j), UNCHANGED <<count, recent, free>>
  PROVE  BurstInv'
<1> SUFFICES ASSUME NEW k \in Keys PROVE \E old, new : Split(k, old, new)'
  BY DEF BurstInv
<1>2. life'[k] = life[k] \/ life'[k] = Window
  BY DEF SetTtl, RInv, TypeOK
<1>3. PICK old, new : Split(k, old, new)
  BY DEF BurstInv
<1>4. \A a \in Ages : old[a] > 0 => a >= 1 /\ a + life'[k] > Window
  <2>1. TAKE a \in Ages
  <2>2. a \in Nat /\ (old[a] > 0 => a >= 1 /\ a + life[k] > Window)
    BY <1>3, AgesFinite DEF Split
  <2>3. QED
    BY <1>2, <2>2, WindowAssumption
<1>5. Split(k, old, new)'
  BY <1>3, <1>4 DEF Split
<1>6. QED
  BY <1>5

\* While the counter lives both parts grow older; when it dies, what the counters
\* before it let through is out of the window and what it let through is old.
LEMMA TickBurst ==
  ASSUME RInv, BurstInv, Tick
  PROVE  BurstInv'
<1> SUFFICES ASSUME NEW k \in Keys PROVE \E old, new : Split(k, old, new)'
  BY DEF BurstInv
<1>1. count[k] \in Nat /\ life[k] \in 1 .. Forever /\ recent[k] \in [Ages -> Nat]
      /\ free[k] \in [Ages -> 0 .. MaxFree]
  BY DEF RInv, TypeOK, Full
<1>2. /\ count'[k] = IF life[k] = 1 THEN 0 ELSE count[k]
      /\ life'[k] = IF life[k] \in {1, Forever} THEN Forever ELSE life[k] - 1
      /\ recent'[k] = Older(recent[k]) /\ free'[k] = Older(free[k])
  BY DEF Tick
<1>3. PICK old, new : Split(k, old, new)
  BY DEF BurstInv
<1>4. /\ old \in [Ages -> Nat] /\ new \in [Ages -> Nat]
      /\ \A a \in Ages : recent[k][a] = old[a] + new[a] + free[k][a]
      /\ \A a \in Ages : old[a] > 0 => a >= 1 /\ a + life[k] > Window
      /\ Total(old, Ages) <= Limit /\ Total(new, Ages) <= Limit /\ Total(new, Ages) <= count[k]
  BY <1>3 DEF Split
<1> DEFINE O == Older(old)
           N == Older(new)
<1>5. O \in [Ages -> Nat] /\ N \in [Ages -> Nat] /\ Total(O, Ages) <= Total(old, Ages)
      /\ Total(N, Ages) <= Total(new, Ages)
  BY <1>4, OlderIsLess
<1>6. /\ Total(O, Ages) \in Nat /\ Total(N, Ages) \in Nat
      /\ Total(old, Ages) \in Nat /\ Total(new, Ages) \in Nat
  BY <1>4, <1>5, Counts
<1>7. \A a \in Ages : /\ recent'[k][a] = O[a] + N[a] + free'[k][a]
                      /\ O[a] = (IF a = 0 THEN 0 ELSE old[a - 1])
                      /\ N[a] = (IF a = 0 THEN 0 ELSE new[a - 1])
  BY <1>1, <1>2, <1>4, AgesFinite DEF Older
<1> HIDE DEF O, N
<1>8. CASE life[k] = 1
  <2>1. \A a \in Ages : O[a] = 0
    <3>1. TAKE a \in Ages
    <3>2. CASE a # 0
      <4>1. a - 1 \in Ages /\ a \in Nat /\ a < Window /\ O[a] = old[a - 1] /\ old[a - 1] \in Nat
        BY <3>2, <1>4, <1>7, AgesFinite
      <4>2. ~(old[a - 1] > 0)
        BY <4>1, <1>4, <1>8, WindowAssumption
      <4>3. QED
        BY <4>1, <4>2
    <3>3. QED
      BY <3>2, <1>7
  <2>2. \A a \in Ages : recent'[k][a] = N[a] + None0[a] + free'[k][a]
    <3>1. TAKE a \in Ages
    <3>2. recent'[k][a] = O[a] + N[a] + free'[k][a] /\ O[a] = 0 /\ N[a] \in Nat /\ None0[a] = 0
      BY <2>1, <1>5, <1>7 DEF None0
    <3>3. QED
      BY <3>2
  <2>3. \A a \in Ages : N[a] > 0 => a >= 1 /\ a + life'[k] > Window
    <3>1. life'[k] = Window + 1
      BY <1>2, <1>8 DEF Forever
    <3>2. QED
      BY <3>1, <1>7, AgesFinite, WindowAssumption
  <2>4. Total(N, Ages) <= Limit /\ count'[k] = 0
    BY <1>2, <1>4, <1>5, <1>6, <1>8, LimitAssumption
  <2>5. Split(k, N, None0)'
    BY <1>5, <2>2, <2>3, <2>4, NoneTotal, LimitAssumption DEF Split
  <2>6. QED
    BY <2>5
<1>9. CASE life[k] # 1
  <2>1. life'[k] + 1 >= life[k] /\ life'[k] \in Nat /\ count'[k] = count[k]
    BY <1>1, <1>2, <1>9, Bounds, WindowAssumption DEF Forever
  <2>2. \A a \in Ages : O[a] > 0 => a >= 1 /\ a + life'[k] > Window
    <3>1. SUFFICES ASSUME NEW a \in Ages, O[a] > 0 PROVE a >= 1 /\ a + life'[k] > Window
      OBVIOUS
    <3>2. a # 0 /\ a \in Nat /\ a - 1 \in Ages /\ old[a - 1] > 0
      BY <3>1, <1>7, AgesFinite
    <3>3. (a - 1) + life[k] > Window
      BY <3>2, <1>4
    <3>4. QED
      BY <3>2, <3>3, <2>1, <1>1, WindowAssumption
  <2>3. Total(O, Ages) <= Limit /\ Total(N, Ages) <= Limit /\ Total(N, Ages) <= count'[k]
    BY <1>1, <1>4, <1>5, <1>6, <2>1, LimitAssumption
  <2>4. Split(k, O, N)'
    BY <1>5, <1>7, <2>2, <2>3 DEF Split
  <2>5. QED
    BY <2>4
<1>10. QED
  BY <1>8, <1>9

\* Every other step leaves counters, TTLs and the histories alone.
LEMMA NextBurst == RInv /\ BurstInv /\ [Next]_vars => BurstInv'
<1> SUFFICES ASSUME RInv, BurstInv, [Next]_vars PROVE BurstInv'
  OBVIOUS
<1>1. CASE \E r \in Reqs : Incr(r)
  BY <1>1, IncrBurst
<1>2. CASE \E r \in Reqs : IncrUnanswered(r)
  BY <1>2, IncrUnansweredBurst
<1>3. CASE \E r \in Reqs : IncrFails(r)
  <2>1. PICK r \in Reqs : IncrFails(r)
    BY <1>3
  <2>2. call[r].key \in Keys /\ PassUncounted(call[r].key) /\ UNCHANGED <<count, life>>
    BY <2>1, CallTypes DEF IncrFails, At, redis, RInv
  <2>3. QED
    BY <2>2, PassBurst
<1>4. CASE \E p \in Procs, k \in Keys : UseUnconnected(p, k)
  BY <1>4, PassBurst DEF UseUnconnected, redis
<1>5. CASE \E r \in Reqs : Expire(r) \/ ExpireUnanswered(r)
  <2>1. PICK r \in Reqs : Expire(r) \/ ExpireUnanswered(r)
    BY <1>5
  <2>2. call[r].key \in Keys /\ SetTtl(call[r].key) /\ UNCHANGED <<count, recent, free>>
    BY <2>1, CallTypes DEF Expire, ExpireUnanswered, At, history, RInv
  <2>3. QED
    BY <2>2, TtlBurst
<1>6. CASE Tick
  BY <1>6, TickBurst
<1>7. CASE UNCHANGED <<count, life, recent, free>>
  BY <1>7 DEF BurstInv, Split
<1>8. \/ \E r \in Reqs : Incr(r) \/ IncrUnanswered(r) \/ IncrFails(r)
      \/ \E p \in Procs, k \in Keys : UseUnconnected(p, k)
      \/ \E r \in Reqs : Expire(r) \/ ExpireUnanswered(r)
      \/ Tick
      \/ UNCHANGED <<count, life, recent, free>>
  BY DEF Next, Use, Answered, SendIncr, OnModuleInit, Die, ExpireFails, Answer, vars, redis, history
<1>9. QED
  BY <1>1, <1>2, <1>3, <1>4, <1>5, <1>6, <1>7, <1>8

\* The parts of a split add up.
LEMMA SplitTotal ==
  ASSUME RInv, BurstInv, NEW k \in Keys
  PROVE  /\ Total(recent[k], Ages) <= 2 * Limit + Total(free[k], Ages)
         /\ Total(recent[k], Ages) \in Nat /\ Total(free[k], Ages) \in Nat
<1>1. PICK old, new : Split(k, old, new)
  BY DEF BurstInv
<1> DEFINE both == [a \in Ages |-> old[a] + new[a]]
<1>2. /\ old \in [Ages -> Nat] /\ new \in [Ages -> Nat] /\ both \in [Ages -> Nat]
      /\ free[k] \in [Ages -> Nat] /\ recent[k] \in [Ages -> Nat]
  BY <1>1, MaxFreeAssumption DEF Split, RInv, TypeOK
<1>3. \A a \in Ages : both[a] = old[a] + new[a] /\ recent[k][a] = both[a] + free[k][a]
  BY <1>1 DEF Split
<1> HIDE DEF both
<1>4. /\ Numbers(old, Ages) /\ Numbers(new, Ages) /\ Numbers(both, Ages) /\ Numbers(free[k], Ages)
      /\ Total(old, Ages) \in Nat /\ Total(new, Ages) \in Nat
      /\ Total(free[k], Ages) \in Nat /\ Total(recent[k], Ages) \in Nat
  BY <1>2, Counts
<1>5. Total(both, Ages) = Total(old, Ages) + Total(new, Ages)
  BY <1>3, <1>4, AgesFinite, TotalPlus
<1>6. Total(recent[k], Ages) = Total(both, Ages) + Total(free[k], Ages)
  BY <1>3, <1>4, AgesFinite, TotalPlus
<1>7. QED
  BY <1>1, <1>4, <1>5, <1>6, LimitAssumption DEF Split

\* No client gets more than twice the limit through in any minute, but for what no
\* counter knows of, however the INCR and EXPIRE of overlapping requests, commands
\* sent twice, failures and restarts interleave (rate-limit.middleware.ts:66-84).
THEOREM BurstsAreBounded == Spec => []BurstBounded
<1>1. ASSUME RInv, BurstInv PROVE BurstBounded
  BY <1>1, SplitTotal DEF BurstBounded, Sum, Total
<1>2. QED
  BY InitRInv, NextKeeps, InitBurst, NextBurst, <1>1, PTL DEF Spec

\* While Redis answers, every process is connected and every request counted.
Counted ==
  /\ \A p \in Procs : connected[p] # FALSE
  /\ \A k \in Keys : \A a \in Ages : free[k][a] = 0

TwiceTheLimit == \A k \in Keys : Sum(recent[k]) <= 2 * Limit

\* While Redis answers, no client gets more than twice the limit through in any
\* minute at all, processes that die and start again included.
THEOREM BurstsAreTwiceTheLimit ==
  ASSUME RedisMayFail = FALSE
  PROVE  Spec => []TwiceTheLimit
<1>1. ASSUME Init PROVE Counted
  <2>1. \A p \in Procs : connected[p] = None
    BY <1>1 DEF Init
  <2>2. None # FALSE
    BY NoneAssumption
  <2>3. \A k \in Keys : \A a \in Ages : free[k][a] = 0
    BY <1>1 DEF Init, NoneYet
  <2>4. QED
    BY <2>1, <2>2, <2>3 DEF Counted
<1>2. RInv /\ Counted /\ [Next]_vars => Counted'
  <2> SUFFICES ASSUME RInv, Counted, [Next]_vars PROVE Counted'
    OBVIOUS
  <2>1. CASE \E p \in Procs : OnModuleInit(p)
    <3>1. PICK p \in Procs : OnModuleInit(p)
      BY <2>1
    <3>2. connected' = [connected EXCEPT ![p] = TRUE] /\ free' = free
      BY <3>1 DEF OnModuleInit, history
    <3>3. QED
      BY <3>2 DEF Counted, RInv, TypeOK
  <2>2. CASE \E p \in Procs : Die(p)
    <3>1. PICK p \in Procs : Die(p)
      BY <2>2
    <3>2. connected' = [connected EXCEPT ![p] = None] /\ free' = free
      BY <3>1 DEF Die, history
    <3>3. QED
      BY <3>2, NoneAssumption DEF Counted, RInv, TypeOK
  <2>3. CASE Tick
    <3>1. connected' = connected /\ \A k \in Keys : free'[k] = Older(free[k])
      BY <2>3 DEF Tick
    <3>2. \A k \in Keys : \A a \in Ages : free'[k][a] = IF a = 0 THEN 0 ELSE free[k][a - 1]
      BY <3>1 DEF Older
    <3>3. \A k \in Keys : \A a \in Ages : free'[k][a] = 0
      BY <3>2, AgesFinite DEF Counted
    <3>4. QED
      BY <3>1, <3>3 DEF Counted
  <2>4. CASE UNCHANGED <<connected, free>>
    BY <2>4 DEF Counted
  <2>5. \/ \E p \in Procs : OnModuleInit(p) \/ Die(p)
        \/ Tick
        \/ UNCHANGED <<connected, free>>
    BY DEF Next, Use, Answered, SendIncr, Incr, IncrUnanswered, IncrFails, Expire, ExpireUnanswered,
           ExpireFails, Answer, UseUnconnected, vars, redis, history, Counted
  <2>6. QED
    BY <2>1, <2>2, <2>3, <2>4, <2>5
<1>3. ASSUME RInv, BurstInv, Counted PROVE TwiceTheLimit
  <2> SUFFICES ASSUME NEW k \in Keys PROVE Total(recent[k], Ages) <= 2 * Limit
    BY DEF TwiceTheLimit, Sum, Total
  <2>1. Total(free[k], Ages) = 0
    BY <1>3, AgesFinite, TotalZero DEF Counted
  <2>2. QED
    BY <1>3, <2>1, SplitTotal, LimitAssumption
<1>4. QED
  BY <1>1, <1>2, <1>3, InitRInv, NextKeeps, InitBurst, NextBurst, PTL DEF Spec
=============================================================================
