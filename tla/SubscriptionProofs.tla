------------------------- MODULE SubscriptionProofs -------------------------
(***************************************************************************)
(* Proofs about what subscriptions rest on: EventWaiter, for any waiters,   *)
(* events, permits and times, and HandlerRegistry, for any handlers, event  *)
(* names and priorities.                                                    *)
(***************************************************************************)
EXTENDS EventWaiter, HandlerRegistry, SequenceTheorems, FiniteSetTheorems, TLAPS

-----------------------------------------------------------------------------
(* EventWaiter.                                                             *)

InTime(r) ==
    /\ r.fut \in Events /\ r.deadline # Never => r.since < r.deadline
    /\ r.fut = "timeout" => r.deadline # Never /\ r.since >= r.deadline
    /\ r.got \notin {"none", "cancelled"} => r.got = r.fut

FirstKept(r) ==
    /\ r.first # "none" => r.fut \in {r.first, "cancelled"}
    /\ r.fut \in Events => r.fut = r.first
    /\ r.got \in Events => r.got = r.first

(* A future exists from the entry of the context to its exit and was not    *)
(* completed in the future, a timer has a deadline, only await_for() is     *)
(* cancelled by its own timer, and a chain that waits or wants a permit     *)
(* holds none.                                                              *)
Sound(r) ==
    /\ r.since <= clock
    /\ r.at = "idle" => /\ ~r.open /\ r.fut = "none" /\ r.got = "none"
                        /\ r.first = "none"
    /\ r.at = "waiting" => r.open
    /\ r.at \in {"idle", "waiting", "regain"} => ~r.held
    /\ r.open => r.fut \notin {"none", "closed"}
    /\ r.timer => r.deadline # Never
    /\ Context(r) => ~r.expired
    /\ ~Context(r) => r.fut # "timeout"
    /\ Context(r) /\ r.open => InTime(r)
    /\ r.open => FirstKept(r)

(* Those who hold a permit: no bound on free, the sum gives it. *)
Holders == {w \in Waiters : waiter[w].held}
               \cup {e \in Events : event[e].at = "running"}

PermitsSum ==
    /\ IsFiniteSet(Holders) /\ free \in Nat
    /\ free + Cardinality(Holders) = Permits

IInv ==
    /\ clock \in 0..MaxTime
    /\ free \in Int
    /\ waiter \in [Waiters -> Waiter]
    /\ event \in [Events -> Event]
    /\ \A w \in Waiters : Sound(waiter[w])

-----------------------------------------------------------------------------
(* What a step makes of one waiter.                                         *)

Good(s) == s \in Waiter /\ Sound(s)

LEMMA WaiterGood ==
    ASSUME IInv, NEW w \in Waiters
    PROVE  Good(waiter[w])
BY DEF IInv, Good

(* The fields a record keeps but for its future. *)
SameBut(r, s) ==
    /\ s.kind = r.kind /\ s.at = r.at /\ s.held = r.held /\ s.open = r.open
    /\ s.deadline = r.deadline /\ s.expired = r.expired /\ s.must = r.must
    /\ s.got = r.got /\ s.first = r.first

LEMMA CompletedFields ==
    ASSUME NEW r \in Waiter, NEW o \in Outcome, clock \in 0..MaxTime
    PROVE  /\ Completed(r, o) \in Waiter /\ SameBut(r, Completed(r, o))
           /\ Completed(r, o).fut = o /\ Completed(r, o).since = clock
           /\ Completed(r, o).timer = r.timer
BY DEF Completed, Waiter, SameBut

LEMMA CompletedGood ==
    ASSUME NEW r, Good(r), clock \in 0..MaxTime,
           NEW o \in {"timeout", "cancelled"}, r.fut = "pending",
           o = "timeout" => Context(r) /\ r.deadline # Never /\ clock >= r.deadline
    PROVE  Good(Completed(r, o))
<1>1. o \in Outcome /\ o \notin Events
  BY WaiterAssumption DEF Outcome
<1>2. /\ Completed(r, o) \in Waiter /\ SameBut(r, Completed(r, o))
      /\ Completed(r, o).fut = o /\ Completed(r, o).since = clock
      /\ Completed(r, o).timer = r.timer
  BY <1>1, CompletedFields DEF Good
<1>3. r.open => r.first = "none" /\ r.got \notin Events
  BY WaiterAssumption DEF Good, Sound, FirstKept, Waiter
<1>4. Context(r) /\ r.open => r.got \in {"none", "cancelled"}
  BY WaiterAssumption DEF Good, Sound, InTime, Waiter, Outcome
<1>5. clock \in Int /\ clock <= clock
  OBVIOUS
<1>. QED
  BY <1>1, <1>2, <1>3, <1>4, <1>5 DEF Good, Sound, InTime, FirstKept, Context, SameBut

LEMMA CompletedOnceGood ==
    ASSUME NEW r, Good(r), clock \in 0..MaxTime,
           NEW o \in {"timeout", "cancelled"},
           o = "timeout" => Context(r) /\ r.deadline # Never /\ clock >= r.deadline
    PROVE  /\ Good(CompletedOnce(r, o)) /\ SameBut(r, CompletedOnce(r, o))
<1>1. o \in Outcome
  BY DEF Outcome
<1>2. SameBut(r, Completed(r, o)) /\ SameBut(r, r)
  BY <1>1, CompletedFields DEF Good, SameBut
<1>. QED  BY <1>2, CompletedGood DEF CompletedOnce

LEMMA FlagsGood ==
    ASSUME NEW s, Good(s)
    PROVE  /\ Good([s EXCEPT !.timer = FALSE])
           /\ Good([s EXCEPT !.must = TRUE])
           /\ ~Context(s) => Good([s EXCEPT !.timer = FALSE, !.expired = TRUE])
<1>. DEFINE a == [s EXCEPT !.timer = FALSE]
            b == [s EXCEPT !.must = TRUE]
            c == [s EXCEPT !.timer = FALSE, !.expired = TRUE]
            same(t) == /\ t.fut = s.fut /\ t.got = s.got /\ t.open = s.open
                       /\ t.at = s.at /\ t.since = s.since /\ t.kind = s.kind
                       /\ t.deadline = s.deadline /\ t.held = s.held
                       /\ t.first = s.first
<1>1. s \in Waiter
  BY DEF Good
<1>2. a \in Waiter /\ same(a) /\ a.expired = s.expired /\ ~a.timer
  BY <1>1 DEF Waiter
<1>3. b \in Waiter /\ same(b) /\ b.expired = s.expired /\ b.timer = s.timer
  BY <1>1 DEF Waiter
<1>4. c \in Waiter /\ same(c) /\ ~c.timer
  BY <1>1 DEF Waiter
<1>. HIDE DEF a, b, c
<1>5. Good(a)
  BY <1>2 DEF Good, Sound, InTime, FirstKept, Context
<1>6. Good(b)
  BY <1>3 DEF Good, Sound, InTime, FirstKept, Context
<1>7. ~Context(s) => Good(c)
  BY <1>4 DEF Good, Sound, InTime, FirstKept, Context
<1>. QED  BY <1>5, <1>6, <1>7 DEF a, b, c

(* An event that reaches a waiter: the first one in time is what it keeps. *)
LEMMA ResolvedGood ==
    ASSUME NEW r, Good(r), clock \in 0..MaxTime, NEW e \in Events
    PROVE  LET s == Resolved(Reached(r, e), e)
           IN  Good(s) /\ s.held = r.held
<1>. DEFINE q == Reached(r, e)
            s == Resolved(q, e)
            f == IF r.open /\ r.first = "none" /\ ~Late(r) THEN e ELSE r.first
<1>1. e \in Outcome /\ "timeout" \in Outcome /\ e \notin {"timeout", "none", "cancelled"}
      /\ "timeout" \notin Events /\ "none" \notin Events /\ "cancelled" \notin Events
      /\ e \notin {"pending", "closed"}
  BY WaiterAssumption DEF Outcome
<1>2. r \in Waiter /\ Sound(r)
  BY DEF Good
<1>3. /\ q \in Waiter /\ q.first = f /\ q.kind = r.kind /\ q.at = r.at
      /\ q.held = r.held /\ q.open = r.open /\ q.deadline = r.deadline
      /\ q.timer = r.timer /\ q.fut = r.fut /\ q.since = r.since
      /\ q.expired = r.expired /\ q.got = r.got
  BY <1>2 DEF Reached, Waiter
<1>4. Late(q) <=> Late(r)
  BY <1>3 DEF Late, Context
<1>5. clock \in Int /\ r.since \in Int /\ r.deadline \in Int \cup {Never}
  BY <1>2 DEF Waiter
<1>. HIDE DEF q, f
<1>6. CASE r.fut # "pending"
  <2>1. s = q
    BY <1>3, <1>6 DEF Resolved
  <2>2. r.open /\ r.first = "none" /\ ~Late(r) => r.fut = "cancelled"
    <3>. SUFFICES ASSUME r.open, r.first = "none", ~Late(r)  PROVE r.fut = "cancelled"
      OBVIOUS
    <3>1. r.fut \notin Events
      BY <1>1, <1>2 DEF Sound, FirstKept
    <3>2. r.fut # "timeout"
      BY <1>2, <1>5 DEF Sound, InTime, Late
    <3>. QED  BY <1>2, <1>6, <3>1, <3>2 DEF Sound, Waiter, Outcome
  <2>3. r.open => FirstKept(q)
    BY <1>1, <1>2, <1>3, <2>2 DEF Sound, FirstKept, f
  <2>4. Good(q)
    BY <1>1, <1>2, <1>3, <2>3 DEF Good, Sound, InTime, Context, f
  <2>. QED  BY <1>3, <2>1, <2>4 DEF q
<1>7. CASE r.fut = "pending"
  <2>1. r.open => r.first = "none" /\ r.got \notin Events
    BY <1>1, <1>2, <1>7, WaiterAssumption DEF Sound, FirstKept, Waiter
  <2>2. Context(r) /\ r.open => r.got \in {"none", "cancelled"}
    BY <1>1, <1>2, <1>7, WaiterAssumption DEF Sound, InTime, Waiter, Outcome
  <2>3. r.at # "idle"
    BY <1>2, <1>7 DEF Sound
  <2>4. CASE Late(r)
    <3>1. s = Completed(q, "timeout")
      BY <1>3, <1>4, <1>7, <2>4 DEF Resolved
    <3>2. /\ s \in Waiter /\ SameBut(q, s) /\ s.fut = "timeout"
          /\ s.since = clock /\ s.timer = q.timer
      BY <1>1, <1>3, <3>1, CompletedFields
    <3>. HIDE DEF s
    <3>3. r.open => f = "none"
      BY <2>1, <2>4 DEF f
    <3>4. Good(s)
      BY <1>1, <1>2, <1>3, <1>5, <2>1, <2>2, <2>3, <2>4, <3>2, <3>3
         DEF Good, Sound, InTime, FirstKept, SameBut, Context, Late
    <3>. QED  BY <1>3, <3>2, <3>4 DEF SameBut, s, q
  <2>5. CASE ~Late(r)
    <3>. DEFINE c == Completed(q, e)
                b == r.timer /\ ~Context(r)
    <3>1. /\ c \in Waiter /\ SameBut(q, c) /\ c.fut = e
          /\ c.since = clock /\ c.timer = q.timer
      BY <1>1, <1>3, CompletedFields
    <3>2. b \in BOOLEAN /\ (b => r.timer)
      BY <1>2 DEF Waiter
    <3>3. s = [c EXCEPT !.timer = b]
      BY <1>3, <1>4, <1>7, <2>5 DEF Resolved, Context
    <3>. HIDE DEF c, b
    <3>4. /\ s \in Waiter /\ SameBut(c, s) /\ s.fut = e /\ s.since = clock
          /\ s.timer = b
      BY <3>1, <3>2, <3>3 DEF Waiter, SameBut
    <3>. HIDE DEF s
    <3>5. r.open => f = e
      BY <2>1, <2>5 DEF f
    <3>6. Context(r) /\ r.deadline # Never => clock < r.deadline
      BY <1>5, <2>5 DEF Late
    <3>7. SameBut(q, s)
      BY <3>1, <3>4 DEF SameBut
    <3>8. Good(s)
      BY <1>1, <1>2, <1>3, <1>5, <2>1, <2>2, <2>3, <3>2, <3>4, <3>5, <3>6, <3>7
         DEF Good, Sound, InTime, FirstKept, SameBut, Context
    <3>. QED  BY <1>3, <3>7, <3>8 DEF SameBut, s, q
  <2>. QED  BY <2>4, <2>5
<1>. QED  BY <1>6, <1>7

LEMMA ClosedFields ==
    ASSUME NEW r \in Waiter
    PROVE  /\ Closed(r) \in Waiter
           /\ Closed(r).at = r.at /\ Closed(r).kind = r.kind /\ ~Closed(r).open
           /\ Closed(r).fut = "closed" /\ ~Closed(r).timer
           /\ ~Closed(r).expired /\ Closed(r).got = "none"
           /\ Closed(r).since = 0 /\ Closed(r).held = r.held
<1>1. 0 \in 0..MaxTime /\ Never \in 0..MaxTime \cup {Never}
  BY WaiterAssumption
<1>2. Closed(r) \in Waiter
  BY <1>1 DEF Closed, Waiter
<1>3. /\ Closed(r).at = r.at /\ Closed(r).kind = r.kind /\ ~Closed(r).open
      /\ Closed(r).fut = "closed" /\ Closed(r).since = 0 /\ Closed(r).held = r.held
  BY DEF Closed, Waiter
<1>4. ~Closed(r).timer /\ ~Closed(r).expired /\ Closed(r).got = "none"
  BY DEF Closed, Waiter
<1>. QED  BY <1>2, <1>3, <1>4

(* A closed waiter whose chain is in its body or has ended. *)
LEMMA ClosedGood ==
    ASSUME NEW r \in Waiter, r.at = "body", clock \in 0..MaxTime
    PROVE  /\ Good(Closed(r))
           /\ Good([Closed(r) EXCEPT !.at = "done", !.held = FALSE])
<1>. DEFINE c == Closed(r)
            d == [c EXCEPT !.at = "done", !.held = FALSE]
<1>1. /\ c \in Waiter /\ c.at = "body" /\ c.kind = r.kind /\ ~c.open
      /\ c.fut = "closed" /\ ~c.timer /\ ~c.expired /\ c.got = "none"
      /\ c.since = 0
  BY ClosedFields
<1>. HIDE DEF c
<1>2. /\ d \in Waiter /\ d.at = "done" /\ d.kind = r.kind /\ ~d.open
      /\ d.fut = "closed" /\ ~d.timer /\ ~d.expired /\ d.got = "none"
      /\ d.since = 0
  BY <1>1 DEF Waiter
<1>. HIDE DEF d
<1>3. 0 <= clock
  OBVIOUS
<1>4. Good(c) /\ Good(d)
  BY <1>1, <1>2, <1>3 DEF Good, Sound, InTime, Context
<1>. QED  BY <1>4 DEF c, d

-----------------------------------------------------------------------------
(* The steps                                                                *)

LEMMA SetKeeps ==
    ASSUME IInv, NEW w \in Waiters, NEW r, Set(w, r), Good(r),
           UNCHANGED clock, free' \in Int, event' \in [Events -> Event]
    PROVE  IInv'
BY DEF IInv, Set, Good, Sound, InTime, FirstKept, Context

LEMMA EnterKeeps ==
    ASSUME IInv, NEW w \in Waiters, Enter(w)
    PROVE  IInv'
<1>. DEFINE r == waiter[w]
            at == IF Context(r) THEN "body" ELSE "waiting"
            held == Context(r)
<1>1. PICK d \in (clock..MaxTime) \cup {Never} :
          Set(w, [r EXCEPT !.at = at, !.held = held, !.open = TRUE,
                           !.fut = "pending", !.deadline = d, !.timer = d # Never])
  BY DEF Enter
<1>. DEFINE b == d # Never
            s == [r EXCEPT !.at = at, !.held = held, !.open = TRUE, !.fut = "pending",
                           !.deadline = d, !.timer = b]
<1>2. /\ r \in Waiter /\ Sound(r) /\ r.at = "idle"
  BY WaiterGood DEF Enter, Good
<1>3. d \in 0..MaxTime \cup {Never} /\ b \in BOOLEAN
  BY DEF IInv
<1>4. /\ at \in {"body", "waiting"} /\ (at = "waiting" => ~held)
      /\ held \in BOOLEAN /\ Set(w, s)
  BY <1>1 DEF Context
<1>. HIDE DEF b, at, held, r
<1>5. /\ s \in Waiter /\ s.at = at /\ s.held = held /\ s.open /\ s.fut = "pending"
      /\ s.deadline = d /\ s.timer = b /\ s.kind = r.kind /\ s.since = r.since
      /\ s.expired = r.expired /\ s.got = r.got /\ s.first = r.first
  BY ZenonT(40), <1>2, <1>3, <1>4 DEF Waiter
<1>. HIDE DEF s
<1>6. Good(s)
  BY <1>2, <1>4, <1>5, WaiterAssumption
     DEF Good, Sound, InTime, FirstKept, Context, b
<1>7. UNCHANGED <<clock, event>> /\ free' \in Int /\ event \in [Events -> Event]
  BY DEF Enter, IInv
<1>. QED  BY <1>4, <1>6, <1>7, SetKeeps DEF r

LEMMA WaitKeeps ==
    ASSUME IInv, NEW w \in Waiters, Wait(w)
    PROVE  IInv'
<1>. DEFINE r == waiter[w]
            s == [r EXCEPT !.at = "waiting", !.held = FALSE, !.got = "none"]
<1>1. r \in Waiter /\ Sound(r) /\ r.open /\ Set(w, s)
  BY WaiterGood DEF Wait, Good
<1>. HIDE DEF r
<1>2. /\ s \in Waiter /\ s.at = "waiting" /\ ~s.held /\ s.got = "none"
      /\ s.kind = r.kind /\ s.open = r.open /\ s.deadline = r.deadline
      /\ s.timer = r.timer /\ s.fut = r.fut /\ s.since = r.since
      /\ s.expired = r.expired /\ s.first = r.first
  BY <1>1 DEF Waiter
<1>. HIDE DEF s
<1>3. Good(s)
  BY <1>1, <1>2, WaiterAssumption DEF Good, Sound, InTime, FirstKept, Context
<1>4. UNCHANGED <<clock, event>> /\ free' \in Int /\ event \in [Events -> Event]
  BY DEF Wait, IInv, FreeWithout
<1>. QED  BY <1>1, <1>3, <1>4, SetKeeps

LEMMA ExpireKeeps ==
    ASSUME IInv, NEW w \in Waiters, Expire(w)
    PROVE  IInv' /\ waiter'[w].held = waiter[w].held
<1>. DEFINE r == waiter[w]
            a == CompletedOnce(r, "timeout")
            b == CompletedOnce(r, "cancelled")
<1>1. /\ Good(r) /\ r.timer /\ clock >= r.deadline /\ clock \in 0..MaxTime
      /\ waiter \in [Waiters -> Waiter]
  BY WaiterGood DEF Expire, IInv
<1>2. UNCHANGED <<clock, free, event>> /\ free \in Int /\ event \in [Events -> Event]
  BY DEF Expire, IInv
<1>3. Good(b) /\ SameBut(r, b)
  BY <1>1, CompletedOnceGood
<1>4. CASE Context(r)
  <2>1. Set(w, [a EXCEPT !.timer = FALSE])
    BY <1>4 DEF Expire
  <2>2. Good(a) /\ SameBut(r, a)
    BY <1>1, <1>4, CompletedOnceGood DEF Good, Sound
  <2>. HIDE DEF a
  <2>3. Good([a EXCEPT !.timer = FALSE])
    BY <2>2, FlagsGood
  <2>4. [a EXCEPT !.timer = FALSE].held = a.held
    BY <2>2 DEF Good, Waiter
  <2>. QED  BY <1>1, <1>2, <2>1, <2>2, <2>3, <2>4, SetKeeps DEF Set, SameBut
<1>5. CASE ~Context(r)
  <2>1. Set(w, [b EXCEPT !.timer = FALSE, !.expired = TRUE])
    BY <1>5 DEF Expire
  <2>. HIDE DEF b
  <2>2. Good([b EXCEPT !.timer = FALSE, !.expired = TRUE])
    BY <1>3, <1>5, FlagsGood DEF Context, SameBut
  <2>3. [b EXCEPT !.timer = FALSE, !.expired = TRUE].held = b.held
    BY <1>3 DEF Good, Waiter
  <2>. QED  BY <1>1, <1>2, <1>3, <2>1, <2>2, <2>3, SetKeeps DEF Set, SameBut
<1>. QED  BY <1>4, <1>5

LEMMA CancelWaitKeeps ==
    ASSUME IInv, NEW w \in Waiters, CancelWait(w)
    PROVE  IInv' /\ waiter'[w].held = waiter[w].held
<1>. DEFINE b == CompletedOnce(waiter[w], "cancelled")
<1>1. Good(b) /\ SameBut(waiter[w], b)
  <2>1. clock \in 0..MaxTime
    BY DEF IInv
  <2>. QED  BY <2>1, WaiterGood, CompletedOnceGood
<1>2. Set(w, [b EXCEPT !.must = TRUE]) /\ waiter \in [Waiters -> Waiter]
  BY DEF CancelWait, IInv
<1>3. UNCHANGED <<clock, free, event>> /\ free \in Int /\ event \in [Events -> Event]
  BY DEF CancelWait, IInv
<1>. HIDE DEF b
<1>4. Good([b EXCEPT !.must = TRUE])
  BY <1>1, FlagsGood
<1>5. [b EXCEPT !.must = TRUE].held = b.held
  BY <1>1 DEF Good, Waiter
<1>. QED  BY <1>1, <1>2, <1>3, <1>4, <1>5, SetKeeps DEF Set, SameBut

LEMMA ResumeKeeps ==
    ASSUME IInv, NEW w \in Waiters, Resume(w)
    PROVE  IInv' /\ waiter'[w].held = waiter[w].held
<1>. DEFINE r == waiter[w]
            b == r.timer /\ Context(r)
            got == IF r.must THEN "cancelled" ELSE IF r.expired THEN "timeout" ELSE r.fut
            s == [r EXCEPT !.at = "regain", !.must = FALSE, !.timer = b, !.got = got]
<1>1. /\ r \in Waiter /\ Sound(r) /\ r.at = "waiting" /\ r.fut # "pending"
      /\ waiter \in [Waiters -> Waiter]
  BY WaiterGood DEF Resume, Good, IInv
<1>2. Set(w, s) /\ UNCHANGED <<clock, free, event>>
      /\ free \in Int /\ event \in [Events -> Event]
  BY DEF Resume, IInv
<1>. HIDE DEF r
<1>3. /\ b \in BOOLEAN /\ (b => r.timer) /\ got \in Outcome
      /\ Context(r) /\ got # "cancelled" => got = r.fut
      /\ got \in Events => got = r.fut
  BY <1>1, WaiterAssumption DEF Sound, Waiter, Outcome
<1>. HIDE DEF b, got
<1>4. /\ s \in Waiter /\ s.at = "regain" /\ s.timer = b /\ s.got = got
      /\ s.fut = r.fut /\ s.since = r.since /\ s.deadline = r.deadline
      /\ s.open = r.open /\ s.expired = r.expired /\ s.kind = r.kind
      /\ s.held = r.held /\ s.first = r.first
  BY ZenonT(40), <1>1, <1>3 DEF Waiter
<1>. HIDE DEF s
<1>5. Good(s)
  BY <1>1, <1>3, <1>4 DEF Good, Sound, InTime, FirstKept, Context
<1>6. waiter'[w].held = r.held
  BY <1>1, <1>2, <1>4 DEF Set
<1>. QED  BY <1>2, <1>5, <1>6, SetKeeps DEF r

(* The exit of suspend_process(), with a permit or without one. *)
LEMMA BackGood ==
    ASSUME NEW r, Good(r), r.at = "regain", clock \in 0..MaxTime,
           NEW b \in Waiter, b.at = "body", b.kind = r.kind, b.open = r.open,
           b.deadline = r.deadline, b.timer = r.timer, b.fut = r.fut,
           b.since = r.since, b.expired = r.expired, b.first = r.first,
           b.got \in {r.got, "cancelled"}
    PROVE  LET s == IF Context(b) THEN b ELSE Closed(b)
           IN  Good(s) /\ s.held = b.held
<1>1. Good(b)
  BY WaiterAssumption DEF Good, Sound, InTime, FirstKept, Context
<1>2. Good(Closed(b)) /\ Closed(b).held = b.held
  BY ClosedGood, ClosedFields
<1>. QED  BY <1>1, <1>2

LEMMA RegainKeeps ==
    ASSUME IInv, NEW w \in Waiters, Regain(w)
    PROVE  IInv' /\ waiter'[w].held
<1>. DEFINE r == waiter[w]
            b == [r EXCEPT !.at = "body", !.held = TRUE]
            s == IF Context(b) THEN b ELSE Closed(b)
<1>1. Good(r) /\ r.at = "regain" /\ clock \in 0..MaxTime /\ waiter \in [Waiters -> Waiter]
  BY WaiterGood DEF Regain, IInv
<1>2. UNCHANGED <<clock, event>> /\ free' \in Int /\ event \in [Events -> Event]
  BY DEF Regain, IInv
<1>3. Set(w, s)
  BY DEF Regain
<1>. HIDE DEF r
<1>4. /\ b \in Waiter /\ b.at = "body" /\ b.kind = r.kind /\ b.open = r.open
      /\ b.deadline = r.deadline /\ b.timer = r.timer /\ b.fut = r.fut
      /\ b.since = r.since /\ b.expired = r.expired /\ b.first = r.first
      /\ b.got = r.got /\ b.held
  BY <1>1 DEF Waiter, Good
<1>. HIDE DEF b
<1>5. Good(s) /\ s.held = b.held
  BY <1>1, <1>4, BackGood
<1>6. waiter'[w] = s
  BY <1>1, <1>3 DEF Set
<1>. HIDE DEF s
<1>. QED  BY <1>2, <1>3, <1>4, <1>5, <1>6, SetKeeps

LEMMA CancelRegainKeeps ==
    ASSUME IInv, NEW w \in Waiters, CancelRegain(w)
    PROVE  IInv' /\ waiter'[w].held = waiter[w].held
<1>. DEFINE r == waiter[w]
            b == [r EXCEPT !.at = "body", !.got = "cancelled"]
            s == IF Context(b) THEN b ELSE Closed(b)
<1>1. Good(r) /\ r.at = "regain" /\ clock \in 0..MaxTime /\ waiter \in [Waiters -> Waiter]
  BY WaiterGood DEF CancelRegain, IInv
<1>2. UNCHANGED <<clock, event>> /\ free' \in Int /\ event \in [Events -> Event]
  BY DEF CancelRegain, IInv
<1>3. Set(w, s)
  BY DEF CancelRegain
<1>. HIDE DEF r
<1>4. /\ b \in Waiter /\ b.at = "body" /\ b.kind = r.kind /\ b.open = r.open
      /\ b.deadline = r.deadline /\ b.timer = r.timer /\ b.fut = r.fut
      /\ b.since = r.since /\ b.expired = r.expired /\ b.first = r.first
      /\ b.got = "cancelled" /\ b.held = r.held
  BY <1>1 DEF Waiter, Good, Outcome
<1>. HIDE DEF b
<1>5. Good(s) /\ s.held = b.held
  BY <1>1, <1>4, BackGood
<1>6. waiter'[w] = s
  BY <1>1, <1>3 DEF Set
<1>. HIDE DEF s
<1>7. waiter'[w].held = r.held
  BY <1>4, <1>5, <1>6
<1>. QED  BY <1>2, <1>3, <1>5, <1>7, SetKeeps DEF r

LEMMA LeaveKeeps ==
    ASSUME IInv, NEW w \in Waiters, Leave(w)
    PROVE  IInv' /\ ~waiter'[w].held
<1>. DEFINE c == Closed(waiter[w])
            s == [c EXCEPT !.at = "done", !.held = FALSE]
<1>1. /\ Set(w, s) /\ waiter[w].at = "body" /\ waiter[w] \in Waiter
      /\ clock \in 0..MaxTime /\ waiter \in [Waiters -> Waiter]
  BY DEF Leave, IInv
<1>2. UNCHANGED <<clock, event>> /\ free' \in Int /\ event \in [Events -> Event]
  BY DEF Leave, IInv, FreeWithout
<1>3. Good(s) /\ c \in Waiter
  BY <1>1, ClosedGood, ClosedFields
<1>. HIDE DEF c
<1>4. ~s.held
  BY <1>3 DEF Waiter
<1>. HIDE DEF s
<1>. QED  BY <1>1, <1>2, <1>3, <1>4, SetKeeps DEF Set

LEMMA NotifyKeeps ==
    ASSUME IInv, NEW e \in Events, NEW w \in Waiters, Notify(e, w)
    PROVE  IInv' /\ waiter'[w].held = waiter[w].held
<1>. DEFINE s == Resolved(Reached(waiter[w], e), e)
<1>1. Set(w, s) /\ UNCHANGED <<clock, free>> /\ free \in Int
      /\ waiter \in [Waiters -> Waiter]
  BY DEF Notify, IInv, Functions, Resolving
<1>2. event' \in [Events -> Event]
  <2>1. [event[e] EXCEPT !.chain = @ \ {w}] \in Event
    BY DEF IInv, Event
  <2>. QED  BY <2>1 DEF Notify, IInv
<1>3. Good(s) /\ s.held = waiter[w].held
  <2>1. clock \in 0..MaxTime
    BY DEF IInv
  <2>. QED  BY <2>1, WaiterGood, ResolvedGood
<1>. HIDE DEF s
<1>. QED  BY <1>1, <1>2, <1>3, SetKeeps DEF Set

LEMMA EventsKeep ==
    ASSUME IInv, NEW e \in Events,
           Dequeue(e) \/ Drop(e) \/ Dispatch(e) \/ EventEnds(e)
    PROVE  IInv'
<1>1. UNCHANGED <<clock, waiter>> /\ free' \in Int
  BY DEF Dequeue, Drop, Dispatch, EventEnds, IInv
<1>2. event' \in [Events -> Event]
  <2>1. PICK at \in {"ahead", "pending", "running", "over"}, chain \in SUBSET Waiters :
            \/ event' = [event EXCEPT ![e] = [at |-> at, chain |-> chain]]
            \/ event' = [event EXCEPT ![e].at = at]
    <3>1. {w \in Waiters : waiter[w].open} \in SUBSET Waiters /\ {} \in SUBSET Waiters
      OBVIOUS
    <3>. QED  BY <3>1 DEF Dequeue, Drop, Dispatch, EventEnds
  <2>2. /\ [at |-> at, chain |-> chain] \in Event
        /\ [event[e] EXCEPT !.at = at] \in Event
    BY DEF IInv, Event
  <2>. QED  BY <2>1, <2>2 DEF IInv
<1>. QED  BY <1>1, <1>2 DEF IInv, Sound, InTime, FirstKept, Context

-----------------------------------------------------------------------------
(* The permits: a step moves one or none between free and Holders.          *)

Taken(c) == c \notin Holders /\ Holders' = Holders \cup {c}
Given(c) == c \in Holders /\ Holders' = Holders \ {c}

PermitMove ==
    \/ UNCHANGED <<free, Holders>>
    \/ \E c \in Waiters \cup Events :
           \/ Taken(c) /\ free > 0 /\ free' = free - 1
           \/ Given(c) /\ free' = free + 1

LEMMA WaiterMoves ==
    ASSUME IInv, NEW w \in Waiters, NEW r, Set(w, r), UNCHANGED event
    PROVE  /\ ~waiter[w].held /\ r.held => Taken(w)
           /\ waiter[w].held /\ ~r.held => Given(w)
           /\ (waiter[w].held <=> r.held) => Holders' = Holders
BY WaiterAssumption DEF IInv, Set, Holders, Taken, Given

LEMMA EventMoves ==
    ASSUME IInv, NEW e \in Events, NEW at, UNCHANGED waiter,
           event' \in [Events -> Event], event'[e].at = at,
           \A f \in Events \ {e} : event'[f].at = event[f].at
    PROVE  /\ event[e].at # "running" /\ at = "running" => Taken(e)
           /\ event[e].at = "running" /\ at # "running" => Given(e)
           /\ (event[e].at = "running" <=> at = "running") => Holders' = Holders
BY WaiterAssumption DEF IInv, Holders, Taken, Given

(* wait() and the end of the dispatch give back what is held, if anything.  *)
LEMMA GivenBack ==
    ASSUME IInv, NEW w \in Waiters, NEW r, Set(w, r), ~r.held, UNCHANGED event,
           free' = FreeWithout(waiter[w])
    PROVE  PermitMove
BY WaiterMoves DEF FreeWithout, PermitMove

LEMMA WaitersMovePermits ==
    ASSUME IInv, NEW w \in Waiters,
           \/ Enter(w) \/ WaiterStep(w) \/ Regain(w)
           \/ CancelWait(w) \/ CancelRegain(w)
    PROVE  PermitMove
<1>. DEFINE r == waiter[w]
<1>1. r \in Waiter /\ Sound(r) /\ waiter \in [Waiters -> Waiter]
  BY WaiterGood DEF Good, IInv
<1>2. CASE Enter(w)
  <2>. DEFINE at == IF Context(r) THEN "body" ELSE "waiting"
              held == Context(r)
  <2>1. PICK d \in (clock..MaxTime) \cup {Never} :
          Set(w, [r EXCEPT !.at = at, !.held = held, !.open = TRUE,
                           !.fut = "pending", !.deadline = d, !.timer = d # Never])
    BY <1>2 DEF Enter
  <2>. DEFINE s == [r EXCEPT !.at = at, !.held = held, !.open = TRUE,
                             !.fut = "pending", !.deadline = d, !.timer = d # Never]
  <2>2. s.held = held /\ Set(w, s)
    BY <1>1, <2>1 DEF Waiter
  <2>3. ~r.held /\ free > 0 /\ UNCHANGED event
        /\ free' = IF held THEN free - 1 ELSE free
    BY <1>1, <1>2 DEF Enter, Sound
  <2>. HIDE DEF s, held
  <2>. QED  BY <2>2, <2>3, WaiterMoves DEF PermitMove
<1>3. CASE Wait(w)
  <2>. DEFINE s == [r EXCEPT !.at = "waiting", !.held = FALSE, !.got = "none"]
  <2>1. ~s.held /\ Set(w, s)
    BY <1>1, <1>3 DEF Wait, Waiter
  <2>. HIDE DEF s
  <2>. QED  BY <1>3, <2>1, GivenBack DEF Wait
<1>4. CASE Leave(w)
  <2>. DEFINE c == Closed(r)
              s == [c EXCEPT !.at = "done", !.held = FALSE]
  <2>1. c \in Waiter /\ Set(w, s)
    BY <1>1, <1>4, ClosedFields DEF Leave
  <2>. HIDE DEF c
  <2>2. ~s.held
    BY <2>1 DEF Waiter
  <2>. HIDE DEF s
  <2>. QED  BY <1>4, <2>1, <2>2, GivenBack DEF Leave
<1>5. CASE Regain(w)
  <2>1. waiter'[w].held /\ ~r.held
    BY <1>1, <1>5, RegainKeeps DEF Regain, Sound
  <2>2. PICK s : Set(w, s)
    BY <1>5 DEF Regain
  <2>3. s.held
    BY <1>1, <2>1, <2>2 DEF Set
  <2>4. free > 0 /\ free' = free - 1 /\ UNCHANGED event
    BY <1>5 DEF Regain
  <2>. QED  BY <2>1, <2>2, <2>3, <2>4, WaiterMoves DEF PermitMove
<1>6. CASE Expire(w) \/ Resume(w) \/ CancelWait(w) \/ CancelRegain(w)
  <2>1. waiter'[w].held = r.held /\ UNCHANGED <<free, event>>
    BY <1>6, ExpireKeeps, ResumeKeeps, CancelWaitKeeps, CancelRegainKeeps
       DEF Expire, Resume, CancelWait, CancelRegain
  <2>2. PICK s : Set(w, s)
    BY <1>6 DEF Expire, Resume, CancelWait, CancelRegain
  <2>3. s.held = r.held
    BY <1>1, <2>1, <2>2 DEF Set
  <2>. QED  BY <2>1, <2>2, <2>3, WaiterMoves DEF PermitMove
<1>. QED  BY <1>2, <1>3, <1>4, <1>5, <1>6 DEF WaiterStep

LEMMA EventsMovePermits ==
    ASSUME IInv, NEW e \in Events,
           Dequeue(e) \/ Drop(e) \/ Dispatch(e) \/ EventStep(e)
    PROVE  PermitMove
<1>1. event \in [Events -> Event] /\ event' \in [Events -> Event]
  BY EventsKeep, NotifyKeeps DEF IInv, EventStep
<1>2. CASE Dequeue(e) \/ Drop(e)
  <2>1. /\ event'[e].at # "running" /\ event[e].at # "running"
        /\ \A f \in Events \ {e} : event'[f].at = event[f].at
        /\ UNCHANGED <<waiter, free>>
    BY <1>1, <1>2 DEF Dequeue, Drop, Event
  <2>2. Holders' = Holders
    BY <1>1, <2>1, EventMoves
  <2>. QED  BY <2>1, <2>2 DEF PermitMove
<1>3. CASE Dispatch(e)
  <2>1. /\ event'[e].at = "running" /\ event[e].at # "running"
        /\ \A f \in Events \ {e} : event'[f].at = event[f].at
        /\ UNCHANGED waiter
    BY <1>1, <1>3 DEF Dispatch, Event
  <2>2. Taken(e)
    BY <1>1, <2>1, EventMoves
  <2>. QED  BY <1>3, <2>2 DEF Dispatch, PermitMove
<1>4. CASE EventEnds(e)
  <2>1. /\ event'[e].at # "running" /\ event[e].at = "running"
        /\ \A f \in Events \ {e} : event'[f].at = event[f].at
        /\ UNCHANGED waiter
    BY <1>1, <1>4 DEF EventEnds, Event
  <2>2. Given(e)
    BY <1>1, <2>1, EventMoves
  <2>. QED  BY <1>4, <2>2 DEF EventEnds, PermitMove
<1>5. ASSUME NEW w \in Waiters, Notify(e, w)
      PROVE  PermitMove
  <2>1. \A f \in Events : event'[f].at = event[f].at
    BY <1>1, <1>5 DEF Notify, Event
  <2>2. waiter'[w].held = waiter[w].held
    BY <1>5, NotifyKeeps
  <2>3. \A v \in Waiters : waiter'[v].held = waiter[v].held
    BY <1>5, <2>2 DEF Notify, Set, IInv
  <2>. QED  BY <1>5, <2>1, <2>3 DEF Notify, PermitMove, Holders
<1>. QED  BY <1>2, <1>3, <1>4, <1>5 DEF EventStep

LEMMA SumKept ==
    ASSUME PermitsSum, PermitMove
    PROVE  PermitsSum'
<1>1. /\ \A c : IsFiniteSet(Holders \cup {c}) /\ IsFiniteSet(Holders \ {c})
      /\ \A c : c \notin Holders => Cardinality(Holders \cup {c}) = Cardinality(Holders) + 1
      /\ \A c : c \in Holders => Cardinality(Holders \ {c}) = Cardinality(Holders) - 1
      /\ Cardinality(Holders) \in Nat
  BY FS_AddElement, FS_RemoveElement, FS_CardinalityType DEF PermitsSum
<1>2. CASE UNCHANGED <<free, Holders>>
  BY <1>2 DEF PermitsSum
<1>3. ASSUME NEW c, Taken(c), free > 0, free' = free - 1  PROVE PermitsSum'
  <2>1. Holders' = Holders \cup {c} /\ c \notin Holders
    BY <1>3 DEF Taken
  <2>2. IsFiniteSet(Holders') /\ Cardinality(Holders') = Cardinality(Holders) + 1
    BY <1>1, <2>1
  <2>3. free' \in Nat /\ free' + Cardinality(Holders') = Permits
    BY <1>1, <1>3, <2>2 DEF PermitsSum
  <2>. QED  BY <2>2, <2>3, WaiterAssumption DEF PermitsSum
<1>4. ASSUME NEW c, Given(c), free' = free + 1  PROVE PermitsSum'
  <2>1. Holders' = Holders \ {c} /\ c \in Holders
    BY <1>4 DEF Given
  <2>2. IsFiniteSet(Holders') /\ Cardinality(Holders') = Cardinality(Holders) - 1
    BY <1>1, <2>1
  <2>3. free' \in Nat /\ free' + Cardinality(Holders') = Permits
    BY <1>1, <1>4, <2>2 DEF PermitsSum
  <2>. QED  BY <2>2, <2>3 DEF PermitsSum
<1>. QED  BY <1>2, <1>3, <1>4 DEF PermitMove

-----------------------------------------------------------------------------
(* The invariant                                                            *)

LEMMA Initially == Init => IInv /\ PermitsSum
<1>. SUFFICES ASSUME Init PROVE IInv /\ PermitsSum
  OBVIOUS
<1>1. 0 \in 0..MaxTime /\ Never \in 0..MaxTime \cup {Never}
  BY WaiterAssumption
<1>2. clock = 0 /\ free = Permits /\ Permits \in Nat
  BY WaiterAssumption DEF Init
<1>3. event \in [Events -> Event] /\ \A e \in Events : event[e].at = "ahead"
  BY DEF Init, Event
<1>4. ASSUME NEW w \in Waiters
      PROVE  waiter[w] \in Waiter /\ Sound(waiter[w]) /\ ~waiter[w].held
  <2>. DEFINE kind == IF w \in Contexts THEN "wait_for_event" ELSE "await_for"
  <2>1. kind \in {"wait_for_event", "await_for"}
    OBVIOUS
  <2>2. waiter[w] = [kind |-> kind, at |-> "idle", held |-> FALSE, open |-> FALSE,
            deadline |-> Never, timer |-> FALSE, fut |-> "none", since |-> 0,
            expired |-> FALSE, must |-> FALSE, got |-> "none", first |-> "none"]
    BY DEF Init
  <2>. HIDE DEF kind
  <2>3. waiter[w] \in Waiter
    BY <1>1, <2>1, <2>2 DEF Waiter
  <2>. QED  BY <1>2, <2>2, <2>3 DEF Sound
<1>5. waiter \in [Waiters -> Waiter]
  <2>1. waiter = [w \in Waiters |-> waiter[w]]
    BY DEF Init
  <2>. QED  BY <1>4, <2>1
<1>6. IInv
  BY <1>1, <1>2, <1>3, <1>4, <1>5 DEF IInv
<1>7. Holders = {}
  BY <1>3, <1>4 DEF Holders
<1>. QED  BY <1>2, <1>6, <1>7, FS_EmptySet DEF PermitsSum

LEMMA StepKeeps == IInv /\ PermitsSum /\ [Next]_vars => IInv' /\ PermitsSum'
<1>. SUFFICES ASSUME IInv, PermitsSum, [Next]_vars
              PROVE  IInv' /\ PermitMove
  BY SumKept
<1>1. CASE UNCHANGED vars
  BY <1>1 DEF vars, IInv, Sound, InTime, FirstKept, Context, PermitMove, Holders
<1>2. CASE Tick
  <2>1. clock' \in 0..MaxTime /\ clock' > clock /\ clock \in 0..MaxTime
    <3>1. clock \in 0..MaxTime
      BY DEF IInv
    <3>. QED  BY <1>2, <3>1, WaiterAssumption DEF Tick
  <2>2. UNCHANGED <<free, waiter, event>>
    BY <1>2 DEF Tick
  <2>3. \A w \in Waiters : waiter[w].since \in Int
    BY DEF IInv, Waiter
  <2>4. \A w \in Waiters : Sound(waiter[w])'
    BY <2>1, <2>2, <2>3 DEF IInv, Sound, InTime, FirstKept, Context
  <2>. QED  BY <2>1, <2>2, <2>4 DEF IInv, PermitMove, Holders
<1>3. ASSUME NEW w \in Waiters,
             \/ Enter(w) \/ WaiterStep(w) \/ Regain(w)
             \/ CancelWait(w) \/ CancelRegain(w)
      PROVE  IInv' /\ PermitMove
  BY <1>3, EnterKeeps, ExpireKeeps, ResumeKeeps, WaitKeeps, LeaveKeeps, RegainKeeps,
     CancelWaitKeeps, CancelRegainKeeps, WaitersMovePermits DEF WaiterStep
<1>4. ASSUME NEW e \in Events,
             Dequeue(e) \/ Drop(e) \/ Dispatch(e) \/ EventStep(e)
      PROVE  IInv' /\ PermitMove
  BY <1>4, EventsKeep, NotifyKeeps, EventsMovePermits DEF EventStep
<1>. QED  BY <1>1, <1>2, <1>3, <1>4 DEF Next

LEMMA Invariance == Spec => [](IInv /\ PermitsSum)
BY Initially, StepKeeps, PTL DEF Spec

-----------------------------------------------------------------------------
(* What follows                                                             *)

(* Types, and the permits: no wait releases a permit that its chain does    *)
(* not hold, although a cancelled reacquisition leaves chains without one.  *)
THEOREM WaiterTypes == Spec => []TypeOK
<1>1. IInv /\ PermitsSum => free \in 0..Permits
  <2>. SUFFICES ASSUME PermitsSum  PROVE free \in 0..Permits
    OBVIOUS
  <2>1. Cardinality(Holders) \in Nat
    BY FS_CardinalityType DEF PermitsSum
  <2>. QED  BY <2>1, WaiterAssumption DEF PermitsSum
<1>2. IInv /\ PermitsSum => TypeOK
  BY <1>1 DEF IInv, TypeOK
<1>. QED  BY <1>2, Invariance, PTL

(* A stored event came before the deadline and a stored timeout after it,   *)
(* whatever the order in which events, timer, cancellation and wait() run.  *)
THEOREM ResultsAreInTime == Spec => []ResultInTime
<1>1. IInv /\ PermitsSum => ResultInTime
  BY DEF IInv, Sound, InTime, ResultInTime
<1>. QED  BY <1>1, Invariance, PTL

(* The first event that reaches a registered waiter in time is kept and     *)
(* returned, however it was handled, unless a wait was cancelled before.    *)
THEOREM FirstEventsAreKept == Spec => []FirstEventIsKept
<1>1. IInv /\ PermitsSum => FirstEventIsKept
  BY DEF IInv, Sound, FirstKept, FirstEventIsKept
<1>. QED  BY <1>1, Invariance, PTL

-----------------------------------------------------------------------------
(* HandlerRegistry: one place more in a bucket.                             *)

Injective(s) == \A i, j \in DOMAIN s : s[i] = s[j] => i = j

(* s is t without the name at index i. *)
Skips(s, t, i) ==
    /\ i \in 1..Len(t)
    /\ Len(t) = Len(s) + 1
    /\ \A k \in 1..Len(s) : s[k] = t[IF k < i THEN k ELSE k + 1]

LEMMA RemoveSkips ==
    ASSUME NEW S, NEW t \in Seq(S), NEW i \in 1..Len(t)
    PROVE  RemoveAt(t, i) \in Seq(S) /\ Skips(RemoveAt(t, i), t, i)
<1>. DEFINE u == SubSeq(t, 1, i - 1)
            v == SubSeq(t, i + 1, Len(t))
<1>1. /\ u \in Seq(S) /\ Len(u) = i - 1
      /\ \A k \in 1..(i - 1) : u[k] = t[k]
  BY SubSeqProperties
<1>2. /\ v \in Seq(S) /\ Len(v) = Len(t) - i
      /\ \A k \in 1..(Len(t) - i) : v[k] = t[i + k]
  <2>1. CASE i = Len(t)
    <3>1. v = << >>
      BY <2>1, SubSeqEmpty
    <3>. QED  BY <2>1, <3>1
  <2>2. CASE i < Len(t)
    BY <2>2, SubSeqProperties
  <2>. QED  BY <2>1, <2>2
<1>. HIDE DEF u, v
<1>3. /\ u \o v \in Seq(S) /\ Len(u \o v) = Len(u) + Len(v)
      /\ \A k \in 1..(Len(u) + Len(v)) :
            (u \o v)[k] = IF k <= Len(u) THEN u[k] ELSE v[k - Len(u)]
  BY <1>1, <1>2, ConcatProperties
<1>. DEFINE s == u \o v
<1>. HIDE DEF s
<1>4. s \in Seq(S) /\ Len(t) \in Nat /\ Len(s) = Len(t) - 1
  BY <1>1, <1>2, <1>3 DEF s
<1>5. ASSUME NEW k \in 1..Len(s)  PROVE  s[k] = t[IF k < i THEN k ELSE k + 1]
  <2>1. k \in 1..(Len(u) + Len(v))
    BY <1>1, <1>2, <1>4
  <2>2. s[k] = IF k <= Len(u) THEN u[k] ELSE v[k - Len(u)]
    BY <1>3, <2>1 DEF s
  <2>3. CASE k < i
    BY <1>1, <2>2, <2>3
  <2>4. CASE ~(k < i)
    <3>1. k - Len(u) \in 1..(Len(t) - i) /\ k - Len(u) = k - i + 1 /\ ~(k <= Len(u))
      BY <1>1, <1>4, <2>4
    <3>2. v[k - Len(u)] = t[i + (k - Len(u))] /\ i + (k - Len(u)) = k + 1
      BY <1>2, <3>1
    <3>. QED  BY <2>2, <2>4, <3>1, <3>2
  <2>. QED  BY <2>3, <2>4
<1>6. RemoveAt(t, i) = s
  BY DEF RemoveAt, u, v, s
<1>. QED  BY <1>4, <1>5, <1>6 DEF Skips

LEMMA InsertSkips ==
    ASSUME NEW S, NEW s \in Seq(S), NEW i \in 1..(Len(s) + 1), NEW e \in S
    PROVE  /\ InsertAt(s, i, e) \in Seq(S) /\ Skips(s, InsertAt(s, i, e), i)
           /\ InsertAt(s, i, e)[i] = e
<1>. DEFINE u == SubSeq(s, 1, i - 1)
            v == SubSeq(s, i, Len(s))
            w == Append(u, e)
            t == w \o v
<1>1. /\ u \in Seq(S) /\ Len(u) = i - 1
      /\ \A k \in 1..(i - 1) : u[k] = s[k]
  BY SubSeqProperties
<1>2. /\ v \in Seq(S) /\ Len(v) = Len(s) - i + 1
      /\ \A k \in 1..(Len(s) - i + 1) : v[k] = s[i + k - 1]
  <2>1. CASE i = Len(s) + 1
    <3>1. v = << >>
      BY <2>1, SubSeqEmpty
    <3>. QED  BY <2>1, <3>1
  <2>2. CASE i < Len(s) + 1
    BY <2>2, SubSeqProperties
  <2>. QED  BY <2>1, <2>2
<1>. HIDE DEF u, v, w
<1>0. w \in Seq(S) /\ Len(w) = i /\ w[i] = e
      /\ \A k \in 1..(i - 1) : w[k] = s[k]
  BY <1>1, AppendProperties DEF w
<1>3. /\ t \in Seq(S) /\ Len(t) = i + Len(v)
      /\ \A k \in 1..(i + Len(v)) : t[k] = IF k <= i THEN w[k] ELSE v[k - i]
  BY ZenonT(40), <1>0, <1>2, ConcatProperties
<1>4. InsertAt(s, i, e) = t
  BY <1>1, AppendIsConcat DEF InsertAt, t, u, v, w
<1>. HIDE DEF t
<1>5. t[i] = e /\ Len(t) = Len(s) + 1
  BY <1>0, <1>2, <1>3
<1>6. ASSUME NEW k \in 1..Len(s)  PROVE  s[k] = t[IF k < i THEN k ELSE k + 1]
  <2>1. CASE k < i
    <3>1. k \in 1..(i + Len(v)) /\ k <= i /\ k \in 1..(i - 1)
      BY <1>2, <2>1
    <3>. QED  BY <1>0, <1>3, <2>1, <3>1
  <2>2. CASE ~(k < i)
    <3>1. /\ k + 1 \in 1..(i + Len(v)) /\ ~(k + 1 <= i)
          /\ (k + 1) - i \in 1..(Len(s) - i + 1)
      BY <1>2, <2>2
    <3>2. t[k + 1] = v[(k + 1) - i]
      BY <1>3, <3>1
    <3>3. v[(k + 1) - i] = s[i + ((k + 1) - i) - 1] /\ i + ((k + 1) - i) - 1 = k
      BY <1>2, <3>1
    <3>. QED  BY <2>2, <3>2, <3>3
  <2>. QED  BY <2>1, <2>2
<1>7. Skips(s, t, i)
  BY <1>2, <1>5, <1>6 DEF Skips
<1>. QED  BY <1>3, <1>4, <1>5, <1>7

(* A bucket with one place more holds the same other names in the same order. *)
LEMMA SkipsKeeps ==
    ASSUME NEW S, NEW s \in Seq(S), NEW t \in Seq(S), NEW i, Skips(s, t, i)
    PROVE  /\ \A a \in S : Contains(t, a) <=> Contains(s, a) \/ a = t[i]
           /\ \A a, b \in S \ {t[i]} : Precedes(t, a, b) <=> Precedes(s, a, b)
           /\ Injective(t) => Injective(s) /\ ~Contains(s, t[i])
           /\ Injective(s) /\ ~Contains(s, t[i]) => Injective(t)
<1>. DEFINE up(k) == IF k < i THEN k ELSE k + 1
            down(k) == IF k < i THEN k ELSE k - 1
<1>0. i \in 1..Len(t) /\ Len(t) = Len(s) + 1 /\ Len(s) \in Nat /\ Len(t) \in Nat
      /\ DOMAIN s = 1..Len(s) /\ DOMAIN t = 1..Len(t)
  BY DEF Skips
<1>1. \A k \in 1..Len(s) : up(k) \in 1..Len(t) \ {i} /\ t[up(k)] = s[k]
                           /\ down(up(k)) = k
  BY <1>0 DEF Skips
<1>2. \A k \in 1..Len(t) \ {i} : down(k) \in 1..Len(s) /\ s[down(k)] = t[k]
                                 /\ up(down(k)) = k
  <2>1. \A k \in 1..Len(t) \ {i} : down(k) \in 1..Len(s) /\ up(down(k)) = k
    BY <1>0
  <2>. QED  BY <1>1, <2>1
<1>3. /\ \A k, l \in 1..Len(s) : k < l => up(k) < up(l)
      /\ \A k, l \in 1..Len(t) \ {i} : k < l => down(k) < down(l)
  BY <1>0
<1>. HIDE DEF up, down
<1>4. \A a \in S : Contains(t, a) <=> Contains(s, a) \/ a = t[i]
  <2>. TAKE a \in S
  <2>1. ASSUME NEW k \in 1..Len(t), t[k] = a  PROVE  Contains(s, a) \/ a = t[i]
    BY <1>2, <2>1 DEF Contains
  <2>2. ASSUME NEW k \in 1..Len(s), s[k] = a  PROVE  Contains(t, a)
    BY <1>1, <2>2 DEF Contains
  <2>3. Contains(t, t[i])
    BY <1>0 DEF Contains
  <2>. QED  BY <2>1, <2>2, <2>3 DEF Contains
<1>5. \A a, b \in S \ {t[i]} : Precedes(t, a, b) <=> Precedes(s, a, b)
  <2>. TAKE a, b \in S \ {t[i]}
  <2>1. ASSUME Precedes(t, a, b)  PROVE  Precedes(s, a, b)
    <3>1. PICK k, l \in 1..Len(t) : k < l /\ t[k] = a /\ t[l] = b
      BY <1>0, <2>1 DEF Precedes
    <3>2. k # i /\ l # i
      BY <3>1
    <3>. QED  BY <1>0, <1>2, <1>3, <3>1, <3>2 DEF Precedes
  <2>2. ASSUME Precedes(s, a, b)  PROVE  Precedes(t, a, b)
    <3>1. PICK k, l \in 1..Len(s) : k < l /\ s[k] = a /\ s[l] = b
      BY <1>0, <2>2 DEF Precedes
    <3>. QED  BY <1>0, <1>1, <1>3, <3>1 DEF Precedes
  <2>. QED  BY <2>1, <2>2
<1>6. Injective(t) => Injective(s) /\ ~Contains(s, t[i])
  BY <1>0, <1>1 DEF Injective, Contains
<1>7. Injective(s) /\ ~Contains(s, t[i]) => Injective(t)
  <2>. SUFFICES ASSUME Injective(s), ~Contains(s, t[i]),
                       NEW k \in 1..Len(t), NEW l \in 1..Len(t), t[k] = t[l]
                PROVE  k = l
    BY <1>0 DEF Injective
  <2>1. CASE k # i /\ l # i
    BY <1>0, <1>2, <2>1 DEF Injective
  <2>2. CASE k = i \/ l = i
    BY <1>0, <1>2, <2>2 DEF Contains
  <2>. QED  BY <2>1, <2>2
<1>. QED  BY <1>4, <1>5, <1>6, <1>7

-----------------------------------------------------------------------------
(* One place more in the buckets.                                           *)

BucketMap(bs) == DOMAIN bs \subseteq Priorities /\ \A p \in DOMAIN bs : bs[p] \in Seq(Names)

Distinct(bs) ==
    \A p, q \in DOMAIN bs : \A i \in DOMAIN bs[p], j \in DOMAIN bs[q] :
        bs[p][i] = bs[q][j] => p = q /\ i = j

NoneEmpty(bs) == \A p \in DOMAIN bs : bs[p] # << >>

(* cs is bs with n one place more, at index i of bucket p. *)
OneMore(bs, cs, p, i, n) ==
    /\ BucketMap(bs) /\ BucketMap(cs) /\ p \in Priorities /\ n \in Names
    /\ Skips(Bucket(bs, p), Bucket(cs, p), i)
    /\ Bucket(cs, p)[i] = n
    /\ \A q \in Priorities \ {p} : Bucket(bs, q) = Bucket(cs, q)

LEMMA BucketView ==
    ASSUME NEW bs, BucketMap(bs)
    PROVE  /\ \A p \in Priorities : Bucket(bs, p) \in Seq(Names)
           /\ Yielded(bs) = {m \in Names : \E p \in Priorities : Contains(Bucket(bs, p), m)}
           /\ \A a, b : Before(bs, a, b) <=>
                \E p, q \in Priorities :
                    \/ p > q /\ Contains(Bucket(bs, p), a) /\ Contains(Bucket(bs, q), b)
                    \/ p = q /\ Precedes(Bucket(bs, p), a, b)
<1>1. \A p \in Priorities : Bucket(bs, p) \in Seq(Names)
  BY DEF BucketMap, Bucket
<1>2. \A p \in Priorities \ DOMAIN bs : \A a, b :
        ~Contains(Bucket(bs, p), a) /\ ~Precedes(Bucket(bs, p), a, b)
  BY DEF Bucket, Contains, Precedes
<1>3. \A p \in DOMAIN bs : p \in Priorities /\ Bucket(bs, p) = bs[p]
  BY DEF BucketMap, Bucket
<1>4. \A p \in DOMAIN bs : ToSet(bs[p]) = {m \in Names : Contains(bs[p], m)}
  BY DEF BucketMap, ToSet, Contains
<1>5. Yielded(bs) = {m \in Names : \E p \in DOMAIN bs : Contains(bs[p], m)}
  BY <1>4 DEF Yielded
<1>6. Yielded(bs) = {m \in Names : \E p \in Priorities : Contains(Bucket(bs, p), m)}
  BY <1>2, <1>3, <1>5
<1>7. ASSUME NEW a, NEW b
      PROVE  Before(bs, a, b) <=>
                \E p, q \in Priorities :
                    \/ p > q /\ Contains(Bucket(bs, p), a) /\ Contains(Bucket(bs, q), b)
                    \/ p = q /\ Precedes(Bucket(bs, p), a, b)
  BY <1>2, <1>3 DEF Before
<1>. QED  BY <1>1, <1>6, <1>7

LEMMA DistinctSplit ==
    ASSUME NEW bs, BucketMap(bs)
    PROVE  Distinct(bs) <=>
             /\ \A p \in Priorities : Injective(Bucket(bs, p))
             /\ \A p, q \in Priorities : \A m \in Names :
                  Contains(Bucket(bs, p), m) /\ Contains(Bucket(bs, q), m) => p = q
<1>1. \A p \in DOMAIN bs : /\ p \in Priorities /\ Bucket(bs, p) = bs[p]
                           /\ bs[p] \in Seq(Names)
  BY DEF BucketMap, Bucket
<1>2. \A p \in Priorities \ DOMAIN bs :
        DOMAIN Bucket(bs, p) = {} /\ \A m : ~Contains(Bucket(bs, p), m)
  BY DEF Bucket, Contains
<1>3. ASSUME Distinct(bs)
      PROVE  /\ \A p \in Priorities : Injective(Bucket(bs, p))
             /\ \A p, q \in Priorities : \A m \in Names :
                  Contains(Bucket(bs, p), m) /\ Contains(Bucket(bs, q), m) => p = q
  <2>1. ASSUME NEW p \in Priorities  PROVE  Injective(Bucket(bs, p))
    BY <1>1, <1>2, <1>3 DEF Distinct, Injective
  <2>2. ASSUME NEW p \in Priorities, NEW q \in Priorities, NEW m \in Names,
               Contains(Bucket(bs, p), m), Contains(Bucket(bs, q), m)
        PROVE  p = q
    <3>1. /\ p \in DOMAIN bs /\ q \in DOMAIN bs
          /\ Contains(bs[p], m) /\ Contains(bs[q], m)
      BY <1>1, <1>2, <2>2
    <3>2. PICK i \in DOMAIN bs[p], j \in DOMAIN bs[q] : bs[p][i] = m /\ bs[q][j] = m
      BY <1>1, <3>1 DEF Contains
    <3>. QED  BY <1>3, <3>1, <3>2 DEF Distinct
  <2>. QED  BY <2>1, <2>2
<1>4. ASSUME \A p \in Priorities : Injective(Bucket(bs, p)),
             \A p, q \in Priorities : \A m \in Names :
                Contains(Bucket(bs, p), m) /\ Contains(Bucket(bs, q), m) => p = q
      PROVE  Distinct(bs)
  <2>. SUFFICES ASSUME NEW p \in DOMAIN bs, NEW q \in DOMAIN bs,
                       NEW i \in DOMAIN bs[p], NEW j \in DOMAIN bs[q], bs[p][i] = bs[q][j]
                PROVE  p = q /\ i = j
    BY DEF Distinct
  <2>1. bs[p][i] \in Names /\ Contains(bs[p], bs[p][i]) /\ Contains(bs[q], bs[p][i])
    BY <1>1 DEF Contains
  <2>2. p = q
    BY <1>1, <1>4, <2>1
  <2>. QED  BY <1>1, <1>4, <2>2 DEF Injective
<1>. QED  BY <1>3, <1>4

(* One place more leaves the other names where they are. *)
LEMMA OneMoreKeeps ==
    ASSUME NEW bs, NEW cs, NEW p, NEW i, NEW n, OneMore(bs, cs, p, i, n)
    PROVE  /\ \A q \in Priorities : \A m \in Names :
                Contains(Bucket(cs, q), m) <=>
                    Contains(Bucket(bs, q), m) \/ (q = p /\ m = n)
           /\ Yielded(cs) = Yielded(bs) \cup {n}
           /\ OthersKept(bs, cs, n)
           /\ Distinct(cs) => Distinct(bs) /\ n \notin Yielded(bs)
           /\ Distinct(bs) /\ n \notin Yielded(bs) => Distinct(cs)
<1>0. /\ BucketMap(bs) /\ BucketMap(cs) /\ p \in Priorities /\ n \in Names
      /\ \A q \in Priorities : Bucket(bs, q) \in Seq(Names) /\ Bucket(cs, q) \in Seq(Names)
      /\ Skips(Bucket(bs, p), Bucket(cs, p), i) /\ Bucket(cs, p)[i] = n
      /\ \A q \in Priorities \ {p} : Bucket(bs, q) = Bucket(cs, q)
  BY BucketView DEF OneMore
<1>1. /\ \A m \in Names : Contains(Bucket(cs, p), m) <=> Contains(Bucket(bs, p), m) \/ m = n
      /\ \A a, b \in Names \ {n} :
            Precedes(Bucket(cs, p), a, b) <=> Precedes(Bucket(bs, p), a, b)
      /\ Injective(Bucket(cs, p)) => /\ Injective(Bucket(bs, p))
                                     /\ ~Contains(Bucket(bs, p), n)
      /\ Injective(Bucket(bs, p)) /\ ~Contains(Bucket(bs, p), n)
            => Injective(Bucket(cs, p))
  BY <1>0, SkipsKeeps
<1>2. \A q \in Priorities : \A m \in Names :
        Contains(Bucket(cs, q), m) <=> Contains(Bucket(bs, q), m) \/ (q = p /\ m = n)
  BY <1>0, <1>1
<1>3. \A q \in Priorities : \A a, b \in Names \ {n} :
        Precedes(Bucket(cs, q), a, b) <=> Precedes(Bucket(bs, q), a, b)
  BY <1>0, <1>1
<1>4. /\ Yielded(bs) = {m \in Names : \E q \in Priorities : Contains(Bucket(bs, q), m)}
      /\ Yielded(cs) = {m \in Names : \E q \in Priorities : Contains(Bucket(cs, q), m)}
  BY <1>0, BucketView
<1>5. Yielded(cs) = Yielded(bs) \cup {n}
  BY <1>0, <1>2, <1>4
<1>6. ASSUME NEW a \in Names \ {n}, NEW b \in Names \ {n}
      PROVE  Before(bs, a, b) <=> Before(cs, a, b)
  <2>1. /\ \A q \in Priorities : Contains(Bucket(cs, q), a) <=> Contains(Bucket(bs, q), a)
        /\ \A q \in Priorities : Contains(Bucket(cs, q), b) <=> Contains(Bucket(bs, q), b)
        /\ \A q \in Priorities :
              Precedes(Bucket(cs, q), a, b) <=> Precedes(Bucket(bs, q), a, b)
    BY <1>2, <1>3
  <2>. QED  BY <1>0, <2>1, BucketView
<1>7. OthersKept(bs, cs, n)
  BY <1>5, <1>6 DEF OthersKept
<1>8. ASSUME Distinct(cs)  PROVE  Distinct(bs) /\ n \notin Yielded(bs)
  <2>1. /\ \A q \in Priorities : Injective(Bucket(cs, q))
        /\ \A q, r \in Priorities : \A m \in Names :
              Contains(Bucket(cs, q), m) /\ Contains(Bucket(cs, r), m) => q = r
    BY <1>0, <1>8, DistinctSplit
  <2>2. \A q \in Priorities : Injective(Bucket(bs, q))
    BY <1>0, <1>1, <2>1
  <2>3. \A q, r \in Priorities : \A m \in Names :
            Contains(Bucket(bs, q), m) /\ Contains(Bucket(bs, r), m) => q = r
    BY <1>2, <2>1
  <2>4. ~Contains(Bucket(bs, p), n)
    BY <1>0, <1>1, <2>1
  <2>5. \A q \in Priorities : ~Contains(Bucket(bs, q), n)
    BY <1>0, <1>2, <2>1, <2>4
  <2>. QED  BY <1>0, <1>4, <2>2, <2>3, <2>5, DistinctSplit
<1>9. ASSUME Distinct(bs), n \notin Yielded(bs)  PROVE  Distinct(cs)
  <2>1. /\ \A q \in Priorities : Injective(Bucket(bs, q)) /\ ~Contains(Bucket(bs, q), n)
        /\ \A q, r \in Priorities : \A m \in Names :
              Contains(Bucket(bs, q), m) /\ Contains(Bucket(bs, r), m) => q = r
    BY <1>0, <1>4, <1>9, DistinctSplit
  <2>2. \A q \in Priorities : Injective(Bucket(cs, q))
    BY <1>0, <1>1, <2>1
  <2>3. \A q, r \in Priorities : \A m \in Names :
            Contains(Bucket(cs, q), m) /\ Contains(Bucket(cs, r), m) => q = r
    BY <1>2, <2>1
  <2>. QED  BY <1>0, <2>2, <2>3, DistinctSplit
<1>. QED  BY <1>2, <1>5, <1>7, <1>8, <1>9

LEMMA OthersKeptTrans ==
    ASSUME NEW bs, NEW cs, NEW ds, NEW n, OthersKept(bs, cs, n)
    PROVE  /\ OthersKept(cs, bs, n)
           /\ OthersKept(cs, ds, n) => OthersKept(bs, ds, n)
BY DEF OthersKept

(* A chain depends only on the handlers that match its event. *)
LEMMA ChainOfOthers ==
    ASSUME NEW bs, NEW cs, NEW n, NEW x, NEW r, NEW s,
           BucketMap(bs), BucketMap(cs), OthersKept(bs, cs, n),
           DOMAIN r \ {n} = DOMAIN s \ {n},
           \A m \in DOMAIN r \ {n} : r[m] = s[m],
           n \in DOMAIN r => x \notin r[n].accepts,
           n \in DOMAIN s => x \notin s[n].accepts
    PROVE  Chain(r, bs, x) = Chain(s, cs, x)
<1>. DEFINE S == {m \in Yielded(bs) \cap DOMAIN r : x \in r[m].accepts}
            T == {m \in Yielded(cs) \cap DOMAIN s : x \in s[m].accepts}
<1>1. \A m : m \in S => /\ m # n /\ m \in Yielded(cs) /\ m \in DOMAIN s
                        /\ r[m] = s[m]
  BY DEF OthersKept
<1>2. \A m : m \in T => /\ m # n /\ m \in Yielded(bs) /\ m \in DOMAIN r
                        /\ r[m] = s[m]
  BY DEF OthersKept
<1>3. S = T
  BY <1>1, <1>2
<1>4. S \subseteq Names \ {n}
  BY <1>1, BucketView
<1>. HIDE DEF S, T
<1>5. Order(bs, S) = Order(cs, T)
  BY <1>3, <1>4 DEF Order, OthersKept
<1>6. Chain(r, bs, x) = Listed(S, Order(bs, S)) /\ Chain(s, cs, x) = Listed(T, Order(cs, T))
  BY DEF Chain, S, T
<1>. QED  BY <1>3, <1>5, <1>6

-----------------------------------------------------------------------------
(* The buckets of a registry.                                               *)

Consistent(reg, bs) ==
    /\ BucketMap(bs)
    /\ Yielded(bs) = DOMAIN reg
    /\ Distinct(bs)
    /\ NoneEmpty(bs)
    /\ \A n \in DOMAIN reg : \E p \in Priorities :
            reg[n].priority \in {p, Between} /\ Contains(Bucket(bs, p), n)

LEMMA FoundPlace ==
    ASSUME RegistryTypeOK, NEW n, Found(n)
    PROVE  /\ n \in Names
           /\ Home(n) \in DOMAIN buckets /\ Home(n) \in Priorities
           /\ n \in DOMAIN registry => registry[n].priority \in {Home(n), Between}
           /\ buckets[Home(n)] \in Seq(Names)
           /\ Bucket(buckets, Home(n)) = buckets[Home(n)]
           /\ Position(n) \in 1..Len(buckets[Home(n)])
           /\ buckets[Home(n)][Position(n)] = n
<1>1. Home(n) \in Homes(n)
  BY DEF Found, Home
<1>2. /\ Home(n) \in DOMAIN buckets /\ Contains(buckets[Home(n)], n)
      /\ n \in DOMAIN registry => registry[n].priority \in {Home(n), Between}
  BY <1>1 DEF Homes
<1>3. /\ Home(n) \in Priorities
      /\ buckets[Home(n)] \in Seq(Names)
  BY <1>2 DEF RegistryTypeOK
<1>4. PICK i \in 1..Len(buckets[Home(n)]) : buckets[Home(n)][i] = n
  BY <1>2 DEF Contains
<1>5. i \in DOMAIN buckets[Home(n)] /\ DOMAIN buckets[Home(n)] = 1..Len(buckets[Home(n)])
  BY <1>3, <1>4
<1>6. /\ Position(n) \in DOMAIN buckets[Home(n)]
      /\ buckets[Home(n)][Position(n)] = n
  BY <1>4, <1>5 DEF Position, IndexOf
<1>7. n \in Names
  BY <1>3, <1>4
<1>. QED  BY <1>2, <1>3, <1>5, <1>6, <1>7 DEF Bucket

LEMMA MatchesConsistent ==
    ASSUME RegistryTypeOK
    PROVE  BucketsMatchRegistry <=> Consistent(registry, buckets)
<1>1. BucketMap(buckets)
  BY DEF RegistryTypeOK, BucketMap
<1>2. ASSUME NEW n \in DOMAIN registry
      PROVE  Found(n) <=> \E p \in Priorities :
                registry[n].priority \in {p, Between} /\ Contains(Bucket(buckets, p), n)
  <2>1. \A p \in Priorities : Contains(Bucket(buckets, p), n) =>
            p \in DOMAIN buckets /\ Bucket(buckets, p) = buckets[p]
    BY DEF Bucket, Contains
  <2>2. \A p \in DOMAIN buckets : p \in Priorities /\ Bucket(buckets, p) = buckets[p]
    BY <1>1 DEF Bucket, BucketMap
  <2>. QED  BY <2>1, <2>2 DEF Found, Homes
<1>. QED  BY <1>1, <1>2 DEF BucketsMatchRegistry, Consistent, Distinct, NoneEmpty

LEMMA RemovedOneMore ==
    ASSUME RegistryTypeOK, NEW n, Found(n), NoneEmpty(buckets)
    PROVE  /\ OneMore(BucketsWithout(n), buckets, Home(n), Position(n), n)
           /\ NoneEmpty(BucketsWithout(n))
<1>. DEFINE p == Home(n)
            rest == RemoveAt(buckets[p], Position(n))
            bs == BucketsWithout(n)
<1>1. /\ n \in Names /\ p \in DOMAIN buckets /\ p \in Priorities
      /\ buckets[p] \in Seq(Names) /\ Bucket(buckets, p) = buckets[p]
      /\ Position(n) \in 1..Len(buckets[p]) /\ buckets[p][Position(n)] = n
  BY FoundPlace
<1>2. rest \in Seq(Names) /\ Skips(rest, buckets[p], Position(n))
  BY <1>1, RemoveSkips
<1>3. bs = IF rest = << >> THEN Without(buckets, p) ELSE With(buckets, p, rest)
  BY DEF BucketsWithout
<1>. HIDE DEF p, rest, bs
<1>4. BucketMap(buckets)
  BY DEF RegistryTypeOK, BucketMap
<1>5. BucketMap(bs) /\ NoneEmpty(bs)
  BY <1>1, <1>2, <1>3, <1>4 DEF BucketMap, NoneEmpty, With, Without
<1>6. Bucket(bs, p) = rest
  BY <1>3 DEF Bucket, With, Without
<1>7. \A q \in Priorities \ {p} : Bucket(bs, q) = Bucket(buckets, q)
  BY <1>3 DEF Bucket, With, Without
<1>8. OneMore(bs, buckets, p, Position(n), n)
  BY <1>1, <1>2, <1>4, <1>5, <1>6, <1>7 DEF OneMore
<1>. QED  BY <1>5, <1>8 DEF p, bs

LEMMA InsertedOneMore ==
    ASSUME NEW bs, BucketMap(bs), NoneEmpty(bs), NEW p \in Priorities, NEW n \in Names,
           NEW i \in 1..(Len(Bucket(bs, p)) + 1)
    PROVE  LET cs == With(bs, p, InsertAt(Bucket(bs, p), i, n))
           IN  OneMore(bs, cs, p, i, n) /\ NoneEmpty(cs)
<1>. DEFINE t == InsertAt(Bucket(bs, p), i, n)
            cs == With(bs, p, t)
<1>1. Bucket(bs, p) \in Seq(Names)
  BY DEF Bucket, BucketMap
<1>2. t \in Seq(Names) /\ Skips(Bucket(bs, p), t, i) /\ t[i] = n
  BY <1>1, InsertSkips
<1>3. t # << >>
  BY <1>2 DEF Skips
<1>. HIDE DEF t
<1>4. BucketMap(cs) /\ NoneEmpty(cs)
  BY <1>2, <1>3 DEF BucketMap, NoneEmpty, With
<1>5. Bucket(cs, p) = t /\ \A q \in Priorities \ {p} : Bucket(cs, q) = Bucket(bs, q)
  BY DEF Bucket, With
<1>6. OneMore(bs, cs, p, i, n)
  BY <1>2, <1>4, <1>5 DEF OneMore
<1>. QED  BY <1>4, <1>6 DEF t

-----------------------------------------------------------------------------
(* Operations.                                                              *)

RegistryInv == RegistryTypeOK /\ BucketsMatchRegistry /\ CacheCoherent

(* What unregister_handler(n, missing_ok=True) leaves of the registry. *)
LEMMA UnregisteredKeeps ==
    ASSUME RegistryTypeOK, Consistent(registry, buckets), NEW n \in Names
    PROVE  LET b == Unregistered(n)
           IN  /\ Consistent(b.registry, b.buckets)
               /\ DOMAIN b.registry = DOMAIN registry \ {n}
               /\ \A m \in DOMAIN b.registry : b.registry[m] = registry[m]
               /\ OthersKept(buckets, b.buckets, n)
               /\ \A q \in Priorities : \A m \in Names \ {n} :
                    Contains(Bucket(buckets, q), m) => Contains(Bucket(b.buckets, q), m)
               /\ DOMAIN b.cached \subseteq DOMAIN cached
               /\ \A x \in DOMAIN b.cached :
                    /\ b.cached[x] = cached[x]
                    /\ n \in DOMAIN registry => x \notin registry[n].accepts
<1>1. CASE n \notin DOMAIN registry
  <2>1. /\ Unregistered(n).registry = registry /\ Unregistered(n).buckets = buckets
        /\ Unregistered(n).cached = cached
    BY <1>1 DEF Unregistered
  <2>. QED  BY <1>1, <2>1 DEF OthersKept
<1>2. CASE n \in DOMAIN registry
  <2>. DEFINE b == Unregistered(n)
              bs == BucketsWithout(n)
              r == Without(registry, n)
  <2>1. b.registry = r /\ b.buckets = bs /\ b.cached = Expired(cached, registry[n])
    BY <1>2 DEF Unregistered
  <2>2. Found(n)
    BY <1>2, MatchesConsistent DEF BucketsMatchRegistry
  <2>3. /\ OneMore(bs, buckets, Home(n), Position(n), n)
        /\ NoneEmpty(bs) /\ BucketMap(bs)
    BY <2>2, RemovedOneMore DEF Consistent, OneMore
  <2>. HIDE DEF b, bs, r
  <2>4. DOMAIN r = DOMAIN registry \ {n} /\ \A m \in DOMAIN r : r[m] = registry[m]
    BY DEF r, Without
  <2>5. /\ \A q \in Priorities : \A m \in Names \ {n} :
             Contains(Bucket(buckets, q), m) => Contains(Bucket(bs, q), m)
        /\ OthersKept(buckets, bs, n) /\ Distinct(bs) /\ n \notin Yielded(bs)
        /\ Yielded(buckets) = Yielded(bs) \cup {n}
    BY <2>3, OneMoreKeeps, OthersKeptTrans DEF Consistent
  <2>6. Yielded(bs) = DOMAIN r
    BY <2>4, <2>5 DEF Consistent
  <2>7. DOMAIN registry \subseteq Names
    BY DEF RegistryTypeOK
  <2>8. Consistent(r, bs)
    BY <2>3, <2>4, <2>5, <2>6, <2>7 DEF Consistent
  <2>9. LET c == Expired(cached, registry[n])
        IN  /\ DOMAIN c \subseteq DOMAIN cached
            /\ \A x \in DOMAIN c : c[x] = cached[x] /\ x \notin registry[n].accepts
    BY DEF Expired
  <2>. QED  BY <1>2, <2>1, <2>4, <2>5, <2>8, <2>9 DEF b
<1>. QED  BY <1>1, <1>2

LEMMA UnregisteredTypes ==
    ASSUME RegistryTypeOK, Consistent(registry, buckets), NEW n \in Names
    PROVE  LET b == Unregistered(n)
           IN  /\ DOMAIN b.registry \subseteq Names
               /\ \A m \in DOMAIN b.registry : b.registry[m] \in Handlers
               /\ BucketMap(b.buckets)
               /\ DOMAIN b.cached \subseteq EventNames
BY UnregisteredKeeps DEF RegistryTypeOK, Consistent

(* The three parts of the invariant after an operation on the name n. *)
LEMMA InvPreserved ==
    ASSUME RegistryInv, NEW n \in Names,
           DOMAIN registry' \subseteq Names,
           \A m \in DOMAIN registry' : registry'[m] \in Handlers,
           Consistent(registry', buckets'),
           DOMAIN registry' \ {n} = DOMAIN registry \ {n},
           \A m \in DOMAIN registry \ {n} : registry[m] = registry'[m],
           OthersKept(buckets, buckets', n),
           DOMAIN cached' \subseteq DOMAIN cached,
           \A x \in DOMAIN cached' :
              /\ cached'[x] = cached[x]
              /\ n \in DOMAIN registry => x \notin registry[n].accepts
              /\ n \in DOMAIN registry' => x \notin registry'[n].accepts
    PROVE  RegistryInv'
<1>1. BucketMap(buckets) /\ BucketMap(buckets')
  BY MatchesConsistent DEF RegistryInv, Consistent
<1>2. RegistryTypeOK'
  BY <1>1 DEF RegistryInv, RegistryTypeOK, BucketMap
<1>3. BucketsMatchRegistry'
  <2>1. (RegistryTypeOK => (BucketsMatchRegistry <=> Consistent(registry, buckets)))'
    BY MatchesConsistent, PTL
  <2>. QED  BY <1>2, <2>1
<1>4. ASSUME NEW x \in DOMAIN cached'
      PROVE  cached'[x] = Chain(registry', buckets', x)
  <2>1. Chain(registry, buckets, x) = Chain(registry', buckets', x)
    BY <1>1, ChainOfOthers
  <2>. QED  BY <2>1 DEF RegistryInv, CacheCoherent
<1>. QED  BY <1>2, <1>3, <1>4 DEF RegistryInv, CacheCoherent

LEMMA RegisterAtKeeps ==
    ASSUME RegistryInv, NEW n \in Names, NEW h \in Handlers, NEW p \in Priorities,
           h.priority \in {p, Between}, NEW i \in 1..(Len(Remaining(n, p)) + 1),
           RegisterAt(n, h, p, i)
    PROVE  /\ RegistryInv' /\ Consistent(registry', buckets')
           /\ OthersKept(buckets, buckets', n)
           /\ OneMore(Unregistered(n).buckets, buckets', p, i, n)
<1>. DEFINE b == Unregistered(n)
<1>1. Consistent(registry, buckets) /\ RegistryTypeOK
  BY MatchesConsistent DEF RegistryInv
<1>2. /\ Consistent(b.registry, b.buckets)
      /\ DOMAIN b.registry = DOMAIN registry \ {n}
      /\ \A m \in DOMAIN b.registry : b.registry[m] = registry[m]
      /\ OthersKept(buckets, b.buckets, n)
      /\ DOMAIN b.cached \subseteq DOMAIN cached
      /\ \A x \in DOMAIN b.cached :
            /\ b.cached[x] = cached[x]
            /\ n \in DOMAIN registry => x \notin registry[n].accepts
  BY <1>1, UnregisteredKeeps
<1>3. /\ DOMAIN b.registry \subseteq Names
      /\ \A m \in DOMAIN b.registry : b.registry[m] \in Handlers
      /\ BucketMap(b.buckets)
  BY <1>1, UnregisteredTypes
<1>4. Remaining(n, p) = Bucket(b.buckets, p)
  BY DEF Remaining
<1>5. /\ registry' = With(b.registry, n, h)
      /\ buckets' = With(b.buckets, p, InsertAt(Bucket(b.buckets, p), i, n))
      /\ cached' = Expired(b.cached, h)
  BY <1>4 DEF RegisterAt
<1>. HIDE DEF b
<1>6. OneMore(b.buckets, buckets', p, i, n) /\ NoneEmpty(buckets') /\ BucketMap(buckets')
  BY <1>2, <1>3, <1>4, <1>5, InsertedOneMore DEF Consistent, OneMore
<1>7. /\ \A q \in Priorities : \A m \in Names :
            Contains(Bucket(buckets', q), m) <=>
                Contains(Bucket(b.buckets, q), m) \/ (q = p /\ m = n)
      /\ Yielded(buckets') = Yielded(b.buckets) \cup {n}
      /\ OthersKept(b.buckets, buckets', n)
      /\ Distinct(b.buckets) /\ n \notin Yielded(b.buckets) => Distinct(buckets')
  BY <1>6, OneMoreKeeps
<1>8. OthersKept(buckets, buckets', n)
  BY <1>2, <1>7, OthersKeptTrans
<1>9. /\ DOMAIN registry' = DOMAIN b.registry \cup {n} /\ registry'[n] = h
      /\ \A m \in DOMAIN b.registry \ {n} : registry'[m] = b.registry[m]
  BY <1>5 DEF With
<1>10. Consistent(registry', buckets')
  <2>1. Yielded(buckets') = DOMAIN registry'
    BY <1>2, <1>7, <1>9 DEF Consistent
  <2>2. Distinct(buckets')
    BY <1>2, <1>7 DEF Consistent
  <2>3. ASSUME NEW m \in DOMAIN registry'
        PROVE  \E q \in Priorities : registry'[m].priority \in {q, Between}
                                     /\ Contains(Bucket(buckets', q), m)
    <3>1. CASE m = n
      BY <1>7, <1>9, <3>1
    <3>2. CASE m # n
      <4>1. m \in DOMAIN b.registry /\ m \in Names /\ registry'[m] = b.registry[m]
        BY <1>3, <1>9, <3>2
      <4>2. PICK q \in Priorities : b.registry[m].priority \in {q, Between}
                                    /\ Contains(Bucket(b.buckets, q), m)
        BY <1>2, <4>1 DEF Consistent
      <4>. QED  BY <1>7, <4>1, <4>2
    <3>. QED  BY <3>1, <3>2
  <2>. QED  BY <1>6, <2>1, <2>2, <2>3 DEF Consistent
<1>11. LET c == Expired(b.cached, h)
       IN  /\ DOMAIN c \subseteq DOMAIN b.cached
           /\ \A x \in DOMAIN c : c[x] = b.cached[x] /\ x \notin h.accepts
  BY DEF Expired
<1>12. RegistryInv'
  <2>1. /\ DOMAIN registry' \subseteq Names
        /\ \A m \in DOMAIN registry' : registry'[m] \in Handlers
    BY <1>3, <1>9
  <2>2. /\ DOMAIN registry' \ {n} = DOMAIN registry \ {n}
        /\ \A m \in DOMAIN registry \ {n} : registry[m] = registry'[m]
    BY <1>2, <1>9
  <2>3. /\ DOMAIN cached' \subseteq DOMAIN cached
        /\ \A x \in DOMAIN cached' :
              /\ cached'[x] = cached[x]
              /\ n \in DOMAIN registry => x \notin registry[n].accepts
              /\ n \in DOMAIN registry' => x \notin registry'[n].accepts
    BY <1>2, <1>5, <1>9, <1>11
  <2>. QED  BY <1>8, <1>10, <2>1, <2>2, <2>3, InvPreserved
<1>. QED  BY <1>6, <1>8, <1>10, <1>12 DEF b

LEMMA UnregisterKeeps ==
    ASSUME RegistryInv, NEW n \in Names, Unregister(n)
    PROVE  RegistryInv' /\ OthersKept(buckets, buckets', n)
<1>1. Consistent(registry, buckets) /\ RegistryTypeOK
  BY MatchesConsistent DEF RegistryInv
<1>2. /\ registry' = Unregistered(n).registry /\ buckets' = Unregistered(n).buckets
      /\ cached' = Unregistered(n).cached
  BY DEF Unregister
<1>3. /\ Consistent(registry', buckets')
      /\ DOMAIN registry' = DOMAIN registry \ {n}
      /\ \A m \in DOMAIN registry' : registry'[m] = registry[m]
      /\ OthersKept(buckets, buckets', n)
      /\ DOMAIN cached' \subseteq DOMAIN cached
      /\ \A x \in DOMAIN cached' :
            /\ cached'[x] = cached[x]
            /\ n \in DOMAIN registry => x \notin registry[n].accepts
  BY <1>1, <1>2, UnregisteredKeeps
<1>4. /\ DOMAIN registry' \subseteq Names
      /\ \A m \in DOMAIN registry' : registry'[m] \in Handlers
  BY <1>1, <1>2, UnregisteredTypes
<1>. QED  BY <1>3, <1>4, InvPreserved

LEMMA LookupKeeps ==
    ASSUME RegistryInv, NEW x \in EventNames, Lookup(x)
    PROVE  RegistryInv'
<1>1. /\ registry' = registry /\ buckets' = buckets
      /\ cached' = With(cached, x, Chain(registry, buckets, x))
  BY DEF Lookup
<1>2. BucketsMatchRegistry'
  BY <1>1 DEF RegistryInv, BucketsMatchRegistry, Found, Homes
<1>3. CacheCoherent'
  BY <1>1 DEF RegistryInv, CacheCoherent, With
<1>4. RegistryTypeOK'
  BY <1>1 DEF RegistryInv, RegistryTypeOK, With
<1>. QED  BY <1>2, <1>3, <1>4 DEF RegistryInv

-----------------------------------------------------------------------------
(* The place between two handlers.                                          *)

LEMMA BoundaryPlace ==
    ASSUME RegistryInv, NEW n \in Names, NEW l \in Boundaries, NEW r \in Boundaries,
           ValidBoundaries(n, l, r)
    PROVE  LET e == Edge(l, r)
               p == Home(e)
               s == Remaining(n, p)
           IN  /\ e \in Names \ {n} /\ p \in Priorities
               /\ s \in Seq(Names) /\ IndexOf(s, e) \in 1..Len(s) /\ s[IndexOf(s, e)] = e
               /\ Place(l, r, s) \in 1..(Len(s) + 1)
<1>. DEFINE e == Edge(l, r)
            p == Home(e)
            s == Remaining(n, p)
<1>1. e \in Names \ {n} /\ Found(e)
  BY DEF ValidBoundaries, Edge, Boundaries
<1>2. Consistent(registry, buckets) /\ RegistryTypeOK
  BY MatchesConsistent DEF RegistryInv
<1>3. p \in Priorities /\ Contains(Bucket(buckets, p), e)
  BY <1>1, <1>2, FoundPlace DEF Contains
<1>4. Contains(s, e)
  BY <1>1, <1>2, <1>3, UnregisteredKeeps DEF Remaining
<1>5. s \in Seq(Names)
  BY <1>2, <1>3, UnregisteredTypes, BucketView DEF Remaining
<1>. HIDE DEF e, p, s
<1>6. IndexOf(s, e) \in 1..Len(s) /\ s[IndexOf(s, e)] = e
  <2>1. DOMAIN s = 1..Len(s)
    BY <1>5
  <2>2. \E i \in DOMAIN s : s[i] = e
    BY <1>4, <2>1 DEF Contains
  <2>3. IndexOf(s, e) \in DOMAIN s /\ s[IndexOf(s, e)] = e
    BY <2>2 DEF IndexOf
  <2>. QED  BY <2>1, <2>3
<1>7. Place(l, r, s) = IF r # NoName THEN IndexOf(s, e) ELSE IndexOf(s, e) + 1
  BY DEF Place, e, Edge
<1>8. Len(s) \in Nat
  BY <1>5
<1>9. Place(l, r, s) \in 1..(Len(s) + 1)
  BY <1>6, <1>7, <1>8
<1>. QED  BY <1>1, <1>3, <1>5, <1>6, <1>9 DEF e, p, s

(* In distinct buckets the places decide the order. *)
LEMMA PlacesOrder ==
    ASSUME NEW bs, BucketMap(bs), Distinct(bs),
           NEW p \in DOMAIN bs, NEW i \in DOMAIN bs[p],
           NEW q \in DOMAIN bs, NEW j \in DOMAIN bs[q]
    PROVE  Before(bs, bs[p][i], bs[q][j]) <=> p > q \/ (p = q /\ i < j)
<1>1. bs[p] \in Seq(Names) /\ bs[q] \in Seq(Names)
  BY DEF BucketMap
<1>2. DOMAIN bs[p] = 1..Len(bs[p]) /\ DOMAIN bs[q] = 1..Len(bs[q])
  BY <1>1
<1>3. Contains(bs[p], bs[p][i]) /\ Contains(bs[q], bs[q][j])
  BY <1>2 DEF Contains
<1>4. ASSUME p > q \/ (p = q /\ i < j)  PROVE  Before(bs, bs[p][i], bs[q][j])
  BY <1>3, <1>4 DEF Before, Precedes
<1>5. ASSUME Before(bs, bs[p][i], bs[q][j])  PROVE  p > q \/ (p = q /\ i < j)
  <2>1. PICK a, b \in DOMAIN bs :
            \/ a > b /\ Contains(bs[a], bs[p][i]) /\ Contains(bs[b], bs[q][j])
            \/ a = b /\ Precedes(bs[a], bs[p][i], bs[q][j])
    BY <1>5 DEF Before
  <2>2. CASE a > b /\ Contains(bs[a], bs[p][i]) /\ Contains(bs[b], bs[q][j])
    <3>1. /\ \E k \in DOMAIN bs[a] : bs[a][k] = bs[p][i]
          /\ \E k \in DOMAIN bs[b] : bs[b][k] = bs[q][j]
      BY <2>2 DEF Contains, BucketMap
    <3>2. a = p /\ b = q
      BY <3>1 DEF Distinct
    <3>. QED  BY <2>2, <3>2
  <2>3. CASE a = b /\ Precedes(bs[a], bs[p][i], bs[q][j])
    <3>1. PICK k, m \in DOMAIN bs[a] : k < m /\ bs[a][k] = bs[p][i] /\ bs[a][m] = bs[q][j]
      BY <2>3 DEF Precedes
    <3>2. a = p /\ k = i /\ a = q /\ m = j
      BY <3>1 DEF Distinct
    <3>. QED  BY <3>1, <3>2
  <2>. QED  BY <2>1, <2>2, <2>3
<1>. QED  BY <1>4, <1>5

LEMMA BeforePlaces ==
    ASSUME NEW bs, BucketMap(bs), NEW a, NEW b, Before(bs, a, b)
    PROVE  /\ \E p \in DOMAIN bs : \E i \in DOMAIN bs[p] : bs[p][i] = a
           /\ \E p \in DOMAIN bs : \E i \in DOMAIN bs[p] : bs[p][i] = b
BY DEF Before, Contains, Precedes, BucketMap

(* Neighbours in a bucket are neighbours in dispatch order. *)
LEMMA Neighbours ==
    ASSUME NEW bs, BucketMap(bs), Distinct(bs),
           NEW p \in DOMAIN bs, NEW i \in Nat, i \in DOMAIN bs[p], i + 1 \in DOMAIN bs[p]
    PROVE  RightBefore(bs, bs[p][i], bs[p][i + 1])
<1>0. DOMAIN bs \subseteq Int
  BY PrioritiesAssumption DEF BucketMap
<1>1. Before(bs, bs[p][i], bs[p][i + 1])
  BY PlacesOrder
<1>2. ASSUME NEW m \in Names, Before(bs, bs[p][i], m), Before(bs, m, bs[p][i + 1])
      PROVE  FALSE
  <2>1. PICK q \in DOMAIN bs : \E j \in DOMAIN bs[q] : bs[q][j] = m
    BY <1>2, BeforePlaces
  <2>2. PICK j \in DOMAIN bs[q] : bs[q][j] = m
    BY <2>1
  <2>3. /\ p > q \/ (p = q /\ i < j)
        /\ q > p \/ (q = p /\ j < i + 1)
    BY <1>2, <2>2, PlacesOrder
  <2>4. j \in Nat
    BY DEF BucketMap
  <2>. QED  BY <1>0, <2>3, <2>4
<1>. QED  BY <1>1, <1>2 DEF RightBefore

LEMMA RegisterBetweenKeeps ==
    ASSUME RegistryInv, NEW n \in Names, NEW acc \in SUBSET EventNames,
           NEW l \in Boundaries, NEW r \in Boundaries, RegisterBetween(n, acc, l, r)
    PROVE  /\ RegistryInv' /\ OthersKept(buckets, buckets', n)
           /\ r # NoName => RightBefore(buckets', n, r)
           /\ r = NoName => RightBefore(buckets', l, n)
           /\ l # NoName => Before(buckets', l, n)
<1>. DEFINE e == Edge(l, r)
            p == Home(e)
            s == Remaining(n, p)
            i == Place(l, r, s)
            h == [accepts |-> acc, priority |-> Between]
<1>1. ValidBoundaries(n, l, r) /\ RegisterAt(n, h, p, i)
  BY DEF RegisterBetween
<1>2. /\ e \in Names \ {n} /\ p \in Priorities /\ s \in Seq(Names)
      /\ IndexOf(s, e) \in 1..Len(s) /\ s[IndexOf(s, e)] = e
      /\ i \in 1..(Len(s) + 1)
  BY <1>1, BoundaryPlace
<1>3. h \in Handlers /\ h.priority = Between
  BY DEF Handlers
<1>4. i = (IF r # NoName THEN IndexOf(s, e) ELSE IndexOf(s, e) + 1)
      /\ e = (IF r # NoName THEN r ELSE l) /\ s = Bucket(Unregistered(n).buckets, p)
  BY DEF Place, Edge, Remaining
<1>. HIDE DEF h, e
<1>5. /\ RegistryInv' /\ Consistent(registry', buckets') /\ OthersKept(buckets, buckets', n)
      /\ OneMore(Unregistered(n).buckets, buckets', p, i, n)
  BY <1>1, <1>2, <1>3, RegisterAtKeeps
<1>. HIDE DEF p, s, i
<1>6. /\ BucketMap(buckets') /\ Distinct(buckets')
      /\ Skips(s, Bucket(buckets', p), i) /\ Bucket(buckets', p)[i] = n
  BY <1>4, <1>5 DEF Consistent, OneMore
<1>7. /\ p \in DOMAIN buckets' /\ buckets'[p] \in Seq(Names)
      /\ Bucket(buckets', p) = buckets'[p]
  BY <1>2, <1>6 DEF Skips, Bucket, BucketMap
<1>8. /\ i \in 1..Len(buckets'[p]) /\ Len(buckets'[p]) = Len(s) + 1
      /\ \A k \in 1..Len(s) : s[k] = buckets'[p][IF k < i THEN k ELSE k + 1]
      /\ DOMAIN buckets'[p] = 1..Len(buckets'[p]) /\ Len(s) \in Nat
  BY <1>2, <1>6, <1>7 DEF Skips
<1>9. r # NoName => /\ i + 1 \in DOMAIN buckets'[p] /\ buckets'[p][i + 1] = r
                    /\ RightBefore(buckets', n, r)
  <2>. SUFFICES ASSUME r # NoName
                PROVE  /\ i + 1 \in DOMAIN buckets'[p] /\ buckets'[p][i + 1] = r
                       /\ RightBefore(buckets', n, r)
    OBVIOUS
  <2>1. i = IndexOf(s, e) /\ e = r
    BY <1>4
  <2>2. i \in 1..Len(s) /\ s[i] = r
    BY <1>2, <2>1
  <2>3. i + 1 \in DOMAIN buckets'[p] /\ buckets'[p][i + 1] = r
    BY <1>8, <2>2
  <2>. QED  BY <1>6, <1>7, <1>8, <2>3, Neighbours
<1>10. r = NoName => RightBefore(buckets', l, n)
  <2>. SUFFICES ASSUME r = NoName  PROVE  RightBefore(buckets', l, n)
    OBVIOUS
  <2>. DEFINE j == IndexOf(s, e)
  <2>1. i = j + 1 /\ e = l /\ j \in 1..Len(s) /\ s[j] = l
    BY <1>2, <1>4
  <2>. HIDE DEF j
  <2>2. /\ j \in Nat /\ j \in DOMAIN buckets'[p] /\ j + 1 \in DOMAIN buckets'[p]
        /\ buckets'[p][j] = l /\ buckets'[p][j + 1] = n
    BY <1>6, <1>7, <1>8, <2>1
  <2>. QED  BY <1>6, <1>7, <2>2, Neighbours
<1>11. l # NoName => Before(buckets', l, n)
  <2>1. CASE r = NoName
    BY <1>10, <2>1 DEF RightBefore
  <2>2. CASE r # NoName /\ l # NoName
    <3>1. /\ l \in Names \ {n} /\ r \in Names \ {n} /\ Found(l) /\ Found(r)
          /\ Home(l) > Home(r) \/ (Home(l) = Home(r) /\ Position(l) < Position(r))
      BY <1>1, <2>2 DEF ValidBoundaries, Boundaries
    <3>2. BucketMap(buckets) /\ Distinct(buckets) /\ RegistryTypeOK
      BY MatchesConsistent DEF RegistryInv, Consistent
    <3>3. \A m \in {l, r} :
            /\ Home(m) \in DOMAIN buckets /\ Position(m) \in DOMAIN buckets[Home(m)]
            /\ buckets[Home(m)][Position(m)] = m
      BY <3>1, <3>2, FoundPlace
    <3>4. Before(buckets, l, r)
      BY <3>1, <3>2, <3>3, PlacesOrder
    <3>5. Before(buckets', l, r)
      BY <1>5, <3>1, <3>4 DEF OthersKept
    <3>6. PICK q \in DOMAIN buckets' : \E k \in DOMAIN buckets'[q] : buckets'[q][k] = l
      BY <1>6, <3>5, BeforePlaces
    <3>7. PICK k \in DOMAIN buckets'[q] : buckets'[q][k] = l
      BY <3>6
    <3>8. q > p \/ (q = p /\ k < i + 1)
      BY <1>6, <1>7, <1>9, <2>2, <3>5, <3>7, PlacesOrder
    <3>9. k \in Int /\ (q = p => k # i)
      BY <1>6, <1>7, <3>1, <3>7 DEF BucketMap
    <3>10. q > p \/ (q = p /\ k < i)
      BY <1>8, <3>8, <3>9
    <3>11. Before(buckets', buckets'[q][k], buckets'[p][i])
      BY <1>6, <1>7, <1>8, <3>10, PlacesOrder
    <3>. QED  BY <1>6, <1>7, <3>7, <3>11
  <2>. QED  BY <2>1, <2>2
<1>. QED  BY <1>5, <1>9, <1>10, <1>11

-----------------------------------------------------------------------------
(* Theorems.                                                                *)

LEMMA InvInit == RegistryInit => RegistryInv
<1>. SUFFICES ASSUME RegistryInit  PROVE  RegistryInv
  OBVIOUS
<1>1. DOMAIN registry = {} /\ DOMAIN buckets = {} /\ DOMAIN cached = {}
  BY DEF RegistryInit
<1>. QED  BY <1>1 DEF RegistryInv, RegistryTypeOK, BucketsMatchRegistry,
                      CacheCoherent, Yielded

LEMMA RegisterPriorityKeeps ==
    ASSUME RegistryInv, NEW n \in Names, NEW acc \in SUBSET EventNames,
           NEW p \in Priorities, RegisterPriority(n, acc, p)
    PROVE  RegistryInv' /\ OthersKept(buckets, buckets', n)
<1>. DEFINE h == [accepts |-> acc, priority |-> p]
<1>1. h \in Handlers /\ h.priority = p
  BY DEF Handlers
<1>2. RegistryTypeOK /\ Consistent(registry, buckets)
  BY MatchesConsistent DEF RegistryInv
<1>3. Remaining(n, p) \in Seq(Names)
  BY <1>2, UnregisteredTypes, BucketView DEF Remaining
<1>4. Len(Remaining(n, p)) + 1 \in 1..(Len(Remaining(n, p)) + 1)
  BY <1>3
<1>5. RegisterAt(n, h, p, Len(Remaining(n, p)) + 1)
  BY DEF RegisterPriority
<1>. HIDE DEF h
<1>. QED  BY <1>1, <1>4, <1>5, RegisterAtKeeps

(* What a step of the registry keeps. *)
Kept ==
    /\ RegistryInv'
    /\ buckets' # buckets => \E n \in Names : OthersKept(buckets, buckets', n)
    /\ \A n \in Names, acc \in SUBSET EventNames \ {{}}, l, r \in Boundaries :
        RegisterBetween(n, acc, l, r) =>
            /\ r # NoName => RightBefore(buckets', n, r)
            /\ r = NoName => RightBefore(buckets', l, n)
            /\ l # NoName => Before(buckets', l, n)

LEMMA StepKept ==
    ASSUME RegistryInv, [RegistryNext]_registryVars
    PROVE  Kept
<1>. DEFINE B == \A n \in Names, acc \in SUBSET EventNames \ {{}}, l, r \in Boundaries :
                    RegisterBetween(n, acc, l, r) =>
                        /\ r # NoName => RightBefore(buckets', n, r)
                        /\ r = NoName => RightBefore(buckets', l, n)
                        /\ l # NoName => Before(buckets', l, n)
<1>1. B
  BY RegisterBetweenKeeps
<1>. HIDE DEF B
<1>2. CASE UNCHANGED registryVars
  <2>1. registry' = registry /\ buckets' = buckets /\ cached' = cached
    BY <1>2 DEF registryVars
  <2>2. RegistryInv'
    BY <2>1 DEF RegistryInv, RegistryTypeOK, BucketsMatchRegistry, CacheCoherent,
                Found, Homes
  <2>. QED  BY <1>1, <2>1, <2>2 DEF Kept, B
<1>3. ASSUME NEW x \in EventNames, Lookup(x)  PROVE  Kept
  <2>1. RegistryInv' /\ buckets' = buckets
    BY <1>3, LookupKeeps DEF Lookup
  <2>. QED  BY <1>1, <2>1 DEF Kept, B
<1>4. ASSUME NEW n \in Names, Unregister(n)  PROVE  Kept
  <2>1. RegistryInv' /\ OthersKept(buckets, buckets', n)
    BY <1>4, UnregisterKeeps
  <2>. QED  BY <1>1, <2>1 DEF Kept, B
<1>5. ASSUME NEW n \in Names, NEW acc \in SUBSET EventNames,
             NEW p \in Priorities, RegisterPriority(n, acc, p)
      PROVE  Kept
  <2>1. RegistryInv' /\ OthersKept(buckets, buckets', n)
    BY <1>5, RegisterPriorityKeeps
  <2>. QED  BY <1>1, <2>1 DEF Kept, B
<1>6. ASSUME NEW n \in Names, NEW acc \in SUBSET EventNames,
             NEW l \in Boundaries, NEW r \in Boundaries, RegisterBetween(n, acc, l, r)
      PROVE  Kept
  <2>1. RegistryInv' /\ OthersKept(buckets, buckets', n)
    BY <1>6, RegisterBetweenKeeps
  <2>. QED  BY <1>1, <2>1 DEF Kept, B
<1>. QED  BY <1>2, <1>3, <1>4, <1>5, <1>6 DEF RegistryNext

LEMMA AlwaysInv == RegistrySpec => []RegistryInv
<1>1. RegistryInv /\ [RegistryNext]_registryVars => RegistryInv'
  BY StepKept DEF Kept
<1>. QED  BY <1>1, InvInit, PTL DEF RegistrySpec

(* The registry, the buckets and the names of the cached chains keep their  *)
(* types whatever is registered, replaced and unregistered.                 *)
THEOREM RegistryTypeCorrect == RegistrySpec => []RegistryTypeOK
<1>1. RegistryInv => RegistryTypeOK
  BY DEF RegistryInv
<1>. QED  BY <1>1, AlwaysInv, PTL

(* Every registered name is in the buckets exactly once, nothing else is,   *)
(* no bucket is empty, and a handler with a priority is in the bucket of    *)
(* its priority (register_handler, unregister_handler, _remove_from_bucket).*)
THEOREM BucketsAlwaysMatch == RegistrySpec => []BucketsMatchRegistry
<1>1. RegistryInv => BucketsMatchRegistry
  BY DEF RegistryInv
<1>. QED  BY <1>1, AlwaysInv, PTL

(* get_handlers_chain_for_event never answers with a chain that a change of *)
(* the registrations made stale: a cached chain is what a rebuild gives.    *)
THEOREM CacheAlwaysCoherent == RegistrySpec => []CacheCoherent
<1>1. RegistryInv => CacheCoherent
  BY DEF RegistryInv
<1>. QED  BY <1>1, AlwaysInv, PTL

(* A registration, replacement or removal leaves the dispatch order of all  *)
(* other handlers as it was.                                                *)
THEOREM OthersAlwaysKeepOrder == RegistrySpec => OthersKeepOrder
<1>1. RegistryInv /\ [RegistryNext]_registryVars =>
        [\E n \in Names : OthersKept(buckets, buckets', n)]_buckets
  BY StepKept DEF Kept
<1>. QED  BY <1>1, AlwaysInv, PTL DEF RegistrySpec, OthersKeepOrder

(* register_handler with between_handlers puts the handler next to its      *)
(* boundary, and between the two when both are given.                       *)
THEOREM BetweenAlwaysHonoured == RegistrySpec => BetweenHonoured
<1>1. RegistryInv /\ [RegistryNext]_registryVars =>
        [\A n \in Names, acc \in SUBSET EventNames \ {{}}, l, r \in Boundaries :
            RegisterBetween(n, acc, l, r) =>
                /\ r # NoName => RightBefore(buckets', n, r)
                /\ r = NoName => RightBefore(buckets', l, n)
                /\ l # NoName => Before(buckets', l, n)]_registryVars
  BY StepKept DEF Kept
<1>. QED  BY <1>1, AlwaysInv, PTL DEF RegistrySpec, BetweenHonoured

=============================================================================
