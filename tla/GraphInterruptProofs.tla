------------------------- MODULE GraphInterruptProofs -------------------------
(***************************************************************************)
(* Proofs about GraphInterrupt: whatever the nodes of the batch, however    *)
(* many of them interrupt and however often the dispatch is cancelled.      *)
(***************************************************************************)
EXTENDS GraphInterrupt, TLAPS

(* A cancellation that is due was counted by the task. *)
Counted(r) ==
    /\ r.must => r.cancelling >= 1
    /\ r.at \in {"posting", "blocked"} /\ r.timer = "expired" => r.cancelling >= 1

(* A block is posted and handed out in order, and complete when the node    *)
(* has left interrupt().                                                    *)
Posted(r) ==
    /\ r.at = "code" => r.fut = "none" /\ r.ev = "none"
    /\ r.at \in {"after", "done"} => r.fut # "pending"
    /\ r.ev = "none" => ~r.given

(* A block that was cancelled without a cancellation of its task: someone   *)
(* revoked it, or the attempt has ended.                                    *)
Excused(n, r) ==
    r.fut = "cancelled" /\ r.cancelling = 0
        /\ \/ r.at \in {"posting", "blocked"}
           \/ r.at = "leaving" /\ r.how = "cancelled"
    => n \in revoked \/ completion # "pending"

Stopped(r) == r.timer = "expired" \/ r.how = "cancelled"

(* What becomes of a node whose block was revoked. *)
RevokedNode(n, r) ==
    /\ n \in revoked => r.fut = "cancelled" /\ r.ev # "none"
    /\ r.at = "leaving" /\ (n \in revoked \/ r.fut = "pending") => Stopped(r)
    /\ r.at = "after" /\ n \in revoked => Stopped(r)
    /\ r.at \in {"after", "done"} /\ n \in revoked /\ r.timer # "expired" =>
           /\ r.how \in {"cancelled", "error"}
           /\ ~Running \/ r.cancelling > 0
    
GoodEnd(r) ==
    r.at = "done" /\ batch = "gather" /\ cause = "none" => r.how \in {"ok", "timeout"}

Orphan(r) ==
    /\ Running /\ completion = "pending"
    /\ r.ev = "over" /\ r.fut = "pending" /\ ~r.accepted

Sound(n, r) ==
    Counted(r) /\ Posted(r) /\ Excused(n, r) /\ RevokedNode(n, r)
        /\ GoodEnd(r) /\ ~Orphan(r)

Attempt ==
    /\ Running \/ completion # "pending"
    /\ AbortIsAsked
    /\ batch \in {"raised", "committed", "over"} => AllDone
    /\ batch = "committed" => \A n \in Nodes : node[n].how \in {"ok", "timeout"}

IInv == TypeOK /\ Attempt /\ \A n \in Nodes : Sound(n, node[n])

-----------------------------------------------------------------------------
(* Typing.                                                                  *)

LEMMA CompleteType ==
    ASSUME NEW r \in Node, NEW o \in {"value", "error", "cancelError", "cancelled"}
    PROVE  /\ Complete(r, o) \in Node
           /\ Complete(r, o).fut = IF r.fut = "pending" THEN o ELSE r.fut
BY DEF Node, Complete

LEMMA CancelTaskType ==
    ASSUME NEW r \in Node
    PROVE  CancelTask(r) \in Node
<1>. DEFINE c == r.cancelling + 1
<1>1. c \in Nat
  BY DEF Node
<1>. HIDE DEF c
<1>2. [r EXCEPT !.cancelling = c, !.fut = "cancelled"] \in Node
  BY <1>1 DEF Node
<1>3. [r EXCEPT !.cancelling = c, !.must = TRUE] \in Node
  BY <1>1 DEF Node
<1>. QED  BY <1>2, <1>3 DEF CancelTask, c

LEMMA Initially == Init => IInv
<1>. SUFFICES ASSUME Init PROVE IInv
  OBVIOUS
<1>. DEFINE first(l) == [at |-> "code", how |-> "none", timer |-> "off",
         limit |-> l, cancelling |-> 0, must |-> FALSE, fut |-> "none",
         accepted |-> FALSE, given |-> FALSE, ev |-> "none"]
            firsts == {first(l) : l \in {"off", "armed"}}
<1>1. ASSUME NEW r \in firsts
      PROVE  r \in Node /\ Counted(r) /\ Posted(r)
                 /\ r.at = "code" /\ r.fut = "none" /\ r.ev = "none"
  <2>1. PICK l \in {"off", "armed"} : r = first(l)
    OBVIOUS
  <2>2. r \in Node
    BY <2>1 DEF Node
  <2>. QED  BY <2>1, <2>2 DEF Counted, Posted
<1>2. node \in [Nodes -> firsts]
  BY DEF Init
<1>3. /\ status = "running" /\ completion = "pending" /\ batch = "gather"
      /\ cause = "none" /\ cancelAsked = FALSE /\ cancels = 0
      /\ requested = FALSE /\ revoked = {}
  BY Zenon DEF Init
<1>. HIDE DEF firsts
<1>4. TypeOK
  <2>1. firsts \subseteq Node
    BY <1>1
  <2>2. node \in [Nodes -> Node]
    BY <1>2, <2>1
  <2>3. cancels \in 0..MaxCancels
    BY <1>3, InterruptAssumption
  <2>. QED  BY <1>3, <2>2, <2>3, Zenon DEF TypeOK
<1>5. Attempt
  BY <1>3 DEF Attempt, AbortIsAsked, Running
<1>6. \A n \in Nodes : Sound(n, node[n])
  BY <1>2, <1>3, <1>1 DEF Sound, Excused, RevokedNode, GoodEnd, Orphan
<1>. QED  BY <1>4, <1>5, <1>6 DEF IInv

-----------------------------------------------------------------------------
(* Steps that change one node and nothing else.                             *)

Good(n, r) ==
    /\ r \in Node /\ Sound(n, r)
    /\ node[n].at = "done" => r.at = "done" /\ r.how = node[n].how

(* Attempts only end, and gather() only ends. *)
Onward ==
    /\ ~Running => ~Running'
    /\ completion # "pending" => completion' # "pending"
    /\ batch' = "gather" /\ cause' = "none" => batch = "gather" /\ cause = "none"

(* What a node's record says survives a step of the attempt. *)
LEMMA SoundOnward ==
    ASSUME NEW n, NEW r \in Node, Sound(n, r), Onward,
           n \in revoked' <=> n \in revoked
    PROVE  Sound(n, r)'
BY DEF Sound, Counted, Posted, Excused, RevokedNode, Stopped, GoodEnd, Orphan,
       Onward, Running

LEMMA NodeStepKeeps ==
    ASSUME IInv, NEW n \in Nodes, NEW r, NodeStep(n, r), Good(n, r)
    PROVE  IInv'
<1>. USE DEF NodeStep, Set, attempt, dispatch
<1>1. node \in [Nodes -> Node]
  BY DEF IInv, TypeOK
<1>2. TypeOK'
  BY DEF IInv, TypeOK, Good
<1>3. \A m \in Nodes : Sound(m, node'[m])
  BY <1>1 DEF IInv, Good
<1>4. \A m \in Nodes : Sound(m, node[m])'
  <2>1. ASSUME NEW m \in Nodes PROVE Sound(m, node[m])'
    BY <1>2, <1>3, SoundOnward DEF Onward, Running, TypeOK
  <2>. QED  BY <2>1
<1>5. Attempt'
  BY <1>1 DEF IInv, Attempt, AbortIsAsked, AllDone, Running, Good
<1>. QED  BY <1>2, <1>4, <1>5 DEF IInv

LEMMA CompleteGood ==
    ASSUME NEW n, NEW r, Good(n, r),
           NEW o \in {"value", "error", "cancelError", "cancelled"},
           o = "cancelled" => n \in revoked \/ completion # "pending",
           r.ev # "none" \/ n \notin revoked
    PROVE  Good(n, Complete(r, o))
BY CompleteType DEF Good, Sound, Counted, Posted, Excused, RevokedNode, Stopped,
       GoodEnd, Orphan, Complete, Node

LEMMA CancelTaskGood ==
    ASSUME NEW n, NEW r, Good(n, r)
    PROVE  Good(n, CancelTask(r))
<1>. DEFINE c == r.cancelling + 1
<1>1. c \in Nat /\ c >= 1
  BY DEF Node, Good
<1>2. CancelTask(r) \in Node
  BY CancelTaskType DEF Good
<1>. HIDE DEF c
<1>3. CASE r.at = "done"
  BY <1>3 DEF CancelTask
<1>4. CASE r.at = "blocked" /\ r.fut = "pending"
  <2>1. CancelTask(r) = [r EXCEPT !.cancelling = c, !.fut = "cancelled"]
    BY <1>4 DEF CancelTask, c
  <2>. QED
    BY <1>1, <1>2, <1>4, <2>1 DEF Good, Sound, Counted, Posted, Excused,
       RevokedNode, Stopped, GoodEnd, Orphan, Node
<1>5. CASE r.at # "done" /\ ~(r.at = "blocked" /\ r.fut = "pending")
  <2>1. CancelTask(r) = [r EXCEPT !.cancelling = c, !.must = TRUE]
    BY <1>5 DEF CancelTask, c
  <2>. QED
    BY <1>1, <1>2, <1>5, <2>1 DEF Good, Sound, Counted, Posted, Excused,
       RevokedNode, Stopped, GoodEnd, Orphan, Node
<1>. QED  BY <1>3, <1>4, <1>5

LEMMA NodeGood ==
    ASSUME IInv, NEW n \in Nodes
    PROVE  Good(n, node[n]) /\ (n \in revoked => node[n].ev # "none")
BY DEF IInv, TypeOK, Good, Sound, RevokedNode

-----------------------------------------------------------------------------
(* interrupt() *)

LEMMA InterruptKeeps ==
    ASSUME IInv, NEW n \in Nodes, Interrupt(n)
    PROVE  IInv'
<1>. DEFINE r == node[n]
<1>1. PICK t \in {"off", "armed"} :
          NodeStep(n, [r EXCEPT !.at = "posting", !.fut = "pending", !.timer = t])
  BY DEF Interrupt
<1>. DEFINE s == [r EXCEPT !.at = "posting", !.fut = "pending", !.timer = t]
<1>2. Good(n, r) /\ r \in Node /\ r.at = "code" /\ ~r.must
  BY NodeGood DEF Interrupt, Good
<1>. HIDE DEF r
<1>3. s \in Node /\ s.at = "posting" /\ s.timer = t /\ s.fut = "pending"
  BY <1>2 DEF Node
<1>4. /\ s.must = r.must /\ s.cancelling = r.cancelling /\ s.ev = r.ev
      /\ s.given = r.given
  BY <1>2 DEF Node
<1>. HIDE DEF s
<1>5. Good(n, s)
  BY <1>2, <1>3, <1>4 DEF Good, Sound, Counted, Posted, Excused, RevokedNode,
         Stopped, GoodEnd, Orphan, r
<1>. QED  BY <1>1, <1>5, NodeStepKeeps DEF s

LEMMA PutEventKeeps ==
    ASSUME IInv, NEW n \in Nodes, PutEvent(n)
    PROVE  IInv'
<1>1. Good(n, [node[n] EXCEPT !.ev = "queued"])
  BY NodeGood DEF PutEvent, Good, Sound, Counted, Posted, Excused, RevokedNode,
         Stopped, GoodEnd, Orphan, Node
<1>. QED  BY <1>1, NodeStepKeeps DEF PutEvent

LEMMA PostDoneKeeps ==
    ASSUME IInv, NEW n \in Nodes, PostDone(n)
    PROVE  IInv'
<1>. DEFINE r == node[n]
            blocked == [r EXCEPT !.at = "blocked"]
            how == IF r.fut \in {"value", "error"} THEN r.fut ELSE "cancelled"
            leaving == [r EXCEPT !.at = "leaving", !.timer = "off", !.how = how]
<1>1. Good(n, r) /\ r \in Node /\ r.at = "posting" /\ r.ev # "none" /\ ~r.must
  BY NodeGood DEF PostDone, Good
<1>2. CASE r.fut = "pending"
  <2>1. Good(n, blocked)
    BY <1>1, <1>2 DEF Good, Sound, Counted, Posted, Excused, RevokedNode,
           Stopped, GoodEnd, Orphan, Node
  <2>2. NodeStep(n, blocked)
    BY <1>2 DEF PostDone
  <2>. HIDE DEF blocked
  <2>. QED  BY <2>1, <2>2, NodeStepKeeps
<1>3. CASE r.fut # "pending"
  <2>. HIDE DEF r
  <2>1. /\ leaving \in Node /\ leaving.at = "leaving" /\ leaving.how = how
        /\ leaving.must = r.must /\ leaving.cancelling = r.cancelling
        /\ leaving.fut = r.fut /\ leaving.ev = r.ev /\ leaving.given = r.given
    BY <1>1 DEF Node
  <2>2. NodeStep(n, leaving)
    BY <1>3 DEF PostDone, r
  <2>. HIDE DEF leaving
  <2>3. Good(n, leaving)
    BY <1>1, <1>3, <2>1 DEF Good, Sound, Counted, Posted, Excused, RevokedNode,
           Stopped, GoodEnd, Orphan, r
  <2>. QED  BY <2>2, <2>3, NodeStepKeeps
<1>. QED  BY <1>2, <1>3

LEMMA PostFailsKeeps ==
    ASSUME IInv, NEW n \in Nodes, PostFails(n)
    PROVE  IInv'
<1>. DEFINE r == node[n]
            c == Complete(r, "cancelled")
            how == IF r.must THEN "cancelled" ELSE "error"
            after == [c EXCEPT !.at = "after", !.timer = "off", !.must = FALSE,
                               !.how = how]
<1>1. Good(n, r) /\ r \in Node /\ r.at = "posting" /\ (r.must \/ r.ev = "none")
  BY NodeGood DEF PostFails, Good
<1>2. NodeStep(n, after)
  BY DEF PostFails
<1>3. n \in revoked => r.ev # "none"
  BY NodeGood
<1>. HIDE DEF r
<1>4. c \in Node /\ c.fut = (IF r.fut = "pending" THEN "cancelled" ELSE r.fut)
          /\ c.ev = r.ev /\ c.given = r.given /\ c.cancelling = r.cancelling
          /\ c.must = r.must
  BY <1>1 DEF Node, Complete
<1>. HIDE DEF c
<1>5. /\ after \in Node /\ after.at = "after" /\ after.how = how /\ ~after.must
      /\ after.cancelling = c.cancelling /\ after.fut = c.fut
      /\ after.ev = c.ev /\ after.given = c.given
  <2>1. c \in Node /\ how \in {"cancelled", "error"}
    BY <1>4
  <2>2. after \in Node
    <3>. DEFINE half == [c EXCEPT !.at = "after", !.timer = "off"]
    <3>1. half \in Node
      BY <2>1 DEF Node
    <3>. HIDE DEF half, how
    <3>2. [half EXCEPT !.must = FALSE, !.how = how] \in Node
      BY <2>1, <3>1 DEF Node
    <3>. QED  BY <3>2 DEF half
  <2>3. after.at = "after" /\ after.how = how /\ ~after.must
    BY <2>1 DEF Node
  <2>4. /\ after.cancelling = c.cancelling /\ after.fut = c.fut
        /\ after.ev = c.ev /\ after.given = c.given
    BY <2>1 DEF Node
  <2>. QED  BY <2>2, <2>3, <2>4
<1>. HIDE DEF after
<1>6. Counted(after) /\ Posted(after) /\ Excused(n, after) /\ GoodEnd(after)
          /\ ~Orphan(after)
  BY <1>1, <1>4, <1>5 DEF Good, Sound, Counted, Posted, Excused, GoodEnd, Orphan
<1>7. RevokedNode(n, after)
  <2>1. n \in revoked => after.fut = "cancelled" /\ after.ev # "none"
    BY <1>1, <1>3, <1>4, <1>5 DEF Good, Sound, RevokedNode
  <2>2. n \in revoked => r.must
    BY <1>1, <1>3
  <2>3. r.must => after.how = "cancelled" /\ after.cancelling > 0
    BY <1>1, <1>4, <1>5 DEF Good, Sound, Counted, Node
  <2>. QED  BY <1>5, <2>1, <2>2, <2>3 DEF RevokedNode, Stopped
<1>8. Good(n, after)
  BY <1>1, <1>5, <1>6, <1>7 DEF Good, Sound, r
<1>. QED  BY <1>2, <1>8, NodeStepKeeps

LEMMA ExpireKeeps ==
    ASSUME IInv, NEW n \in Nodes, Expire(n)
    PROVE  IInv'
<1>. DEFINE c == CancelTask(node[n])
            r == [c EXCEPT !.timer = "expired"]
<1>1. Good(n, c) /\ c \in Node
  BY NodeGood, CancelTaskGood DEF Good
<1>2. NodeStep(n, r)
  BY DEF Expire
<1>3. c.cancelling >= 1
  <2>1. node[n].cancelling \in Nat
    BY NodeGood DEF Good, Node
  <2>2. c.cancelling = node[n].cancelling + 1
    BY NodeGood DEF Expire, CancelTask, Good, Node
  <2>. QED  BY <2>1, <2>2
<1>. HIDE DEF c
<1>4. Good(n, r)
  BY <1>1, <1>3 DEF Good, Sound, Counted, Posted, Excused, RevokedNode,
         Stopped, GoodEnd, Orphan, Node
<1>. QED  BY <1>2, <1>4, NodeStepKeeps

LEMMA LimitExpiresKeeps ==
    ASSUME IInv, NEW n \in Nodes, LimitExpires(n)
    PROVE  IInv'
<1>. DEFINE c == CancelTask(node[n])
            r == [c EXCEPT !.limit = "expired"]
<1>1. Good(n, c) /\ c \in Node
  BY NodeGood, CancelTaskGood DEF Good
<1>2. NodeStep(n, r)
  BY DEF LimitExpires
<1>. HIDE DEF c
<1>3. Good(n, r)
  BY <1>1 DEF Good, Sound, Counted, Posted, Excused, RevokedNode, Stopped,
         GoodEnd, Orphan, Node
<1>. QED  BY <1>2, <1>3, NodeStepKeeps

LEMMA WakeKeeps ==
    ASSUME IInv, NEW n \in Nodes, Wake(n)
    PROVE  IInv'
<1>. DEFINE r == node[n]
            raised == r.must \/ r.fut \in {"cancelled", "cancelError"}
            timer == IF r.timer = "armed" THEN "off" ELSE r.timer
            how == IF ~raised THEN r.fut
                   ELSE IF OwnTimeout(r, r.timer) THEN "timeout" ELSE "cancelled"
            left == IF r.timer = "expired" THEN r.cancelling - 1 ELSE r.cancelling
            awake == [r EXCEPT !.at = "leaving", !.must = FALSE, !.timer = timer,
                               !.how = how, !.cancelling = left]
<1>1. /\ Good(n, r) /\ r \in Node /\ r.at = "blocked"
      /\ raised \/ r.fut # "pending"
  BY NodeGood DEF Wake, Good
<1>2. NodeStep(n, awake)
  BY DEF Wake
<1>. HIDE DEF r
<1>3. left \in Nat /\ r.cancelling \in Nat
  BY <1>1 DEF Good, Sound, Counted, Node
<1>4. /\ timer \in {"off", "armed", "expired"}
      /\ timer = "expired" <=> r.timer = "expired"
  BY <1>1 DEF Node
<1>5. /\ how \in {"none", "value", "timeout", "error", "cancelled", "ok"}
      /\ how = "cancelled" /\ left = 0 => r.fut \in {"cancelled", "cancelError"} /\ r.cancelling = 0
      /\ raised => timer = "expired" \/ how = "cancelled"
  <2>1. raised \/ r.fut \in {"none", "value", "error"}
    BY <1>1 DEF Node
  <2>2. ~raised => how = r.fut
    OBVIOUS
  <2>3. raised /\ how # "timeout" => how = "cancelled" /\ ~OwnTimeout(r, r.timer)
    OBVIOUS
  <2>4. raised /\ how = "timeout" => r.timer = "expired"
    BY DEF OwnTimeout
  <2>5. ASSUME how = "cancelled", left = 0
        PROVE  r.fut \in {"cancelled", "cancelError"} /\ r.cancelling = 0
    <3>1. raised
      BY <2>1, <2>2, <2>5
    <3>2. r.timer # "expired"
      BY <1>3, <2>3, <2>5, <3>1 DEF OwnTimeout
    <3>3. ~r.must
      BY <1>1, <2>5, <3>2 DEF Good, Sound, Counted
    <3>. QED  BY <2>5, <3>1, <3>2, <3>3
  <2>. QED  BY <1>4, <2>1, <2>2, <2>3, <2>4, <2>5
<1>. HIDE DEF left, timer, how
<1>6. /\ awake \in Node /\ awake.at = "leaving" /\ awake.must = FALSE
      /\ awake.timer = timer /\ awake.how = how /\ awake.cancelling = left
      /\ awake.fut = r.fut /\ awake.ev = r.ev /\ awake.given = r.given
      /\ awake.accepted = r.accepted
  <2>1. awake \in Node
    <3>. DEFINE s1 == [r EXCEPT !.at = "leaving", !.must = FALSE]
                s2 == [s1 EXCEPT !.timer = timer]
                s3 == [s2 EXCEPT !.how = how]
    <3>1. s1 \in Node
      BY <1>1 DEF Node
    <3>. HIDE DEF s1
    <3>2. s2 \in Node
      BY <1>4, <3>1 DEF Node
    <3>. HIDE DEF s2
    <3>3. s3 \in Node
      BY <1>5, <3>2 DEF Node
    <3>. HIDE DEF s3
    <3>4. [s3 EXCEPT !.cancelling = left] \in Node
      BY <1>3, <3>3 DEF Node
    <3>. QED  BY <3>4 DEF s1, s2, s3
  <2>2. /\ awake.at = "leaving" /\ awake.must = FALSE /\ awake.timer = timer
        /\ awake.how = how /\ awake.cancelling = left
    BY <1>1 DEF Node
  <2>3. /\ awake.fut = r.fut /\ awake.ev = r.ev /\ awake.given = r.given
        /\ awake.accepted = r.accepted
    BY <1>1 DEF Node
  <2>. QED  BY <2>1, <2>2, <2>3
<1>. HIDE DEF awake
<1>7. Sound(n, awake)
  <2>1. Counted(awake) /\ Posted(awake) /\ GoodEnd(awake) /\ ~Orphan(awake)
    BY <1>1, <1>6 DEF Good, Sound, Counted, Posted, GoodEnd, Orphan
  <2>2. Excused(n, awake)
    BY <1>1, <1>5, <1>6 DEF Good, Sound, Excused
  <2>3. RevokedNode(n, awake)
    BY <1>1, <1>5, <1>6 DEF Good, Sound, RevokedNode, Stopped
  <2>. QED  BY <2>1, <2>2, <2>3 DEF Sound
<1>8. Good(n, awake)
  BY <1>1, <1>6, <1>7 DEF Good, r
<1>. QED  BY <1>2, <1>8, NodeStepKeeps

-----------------------------------------------------------------------------
(* The block and its event *)

LEMMA CloseBlockKeeps ==
    ASSUME IInv, NEW n \in Nodes, CloseBlock(n)
    PROVE  IInv'
<1>1. Good(n, Complete(node[n], "cancelled"))
  BY NodeGood, CompleteGood DEF CloseBlock
<1>. QED  BY <1>1, NodeStepKeeps DEF CloseBlock

LEMMA EventGood ==
    ASSUME NEW n, NEW r, Good(n, r), r.ev # "none",
           NEW to \in {"hook", "hooking", "fallback", "over", "lost"},
           to = "over" => \/ r.fut # "pending" \/ r.accepted
                          \/ ~Running \/ completion # "pending"
    PROVE  Good(n, [r EXCEPT !.ev = to])
BY DEF Good, Sound, Counted, Posted, Excused, RevokedNode, Stopped, GoodEnd,
       Orphan, Node

LEMMA EventMovesKeeps ==
    ASSUME IInv, NEW n \in Nodes,
           Dequeue(n) \/ EventLost(n) \/ HookReturns(n)
    PROVE  IInv'
<1>1. PICK to \in {"hook", "fallback", "lost"} :
          NodeStep(n, [node[n] EXCEPT !.ev = to])
  BY DEF Dequeue, EventLost, HookReturns
<1>2. node[n].ev # "none"
  BY DEF Dequeue, EventLost, HookReturns
<1>3. Good(n, [node[n] EXCEPT !.ev = to])
  BY <1>2, NodeGood, EventGood
<1>. QED  BY <1>1, <1>3, NodeStepKeeps

LEMMA HookStartsKeeps ==
    ASSUME IInv, NEW n \in Nodes, HookStarts(n)
    PROVE  IInv'
<1>. DEFINE r == node[n]
            s == [r EXCEPT !.ev = "hooking", !.given = TRUE]
<1>1. Good(n, r) /\ r \in Node /\ r.ev = "hook" /\ r.ev # "none"
  BY NodeGood DEF HookStarts, Good
<1>2. CASE NodeStep(n, s)
  <2>. HIDE DEF r
  <2>1. s \in Node /\ s.ev = "hooking"
    BY <1>1 DEF Node
  <2>2. /\ s.at = r.at /\ s.how = r.how /\ s.timer = r.timer /\ s.must = r.must
        /\ s.cancelling = r.cancelling /\ s.fut = r.fut
    BY <1>1 DEF Node
  <2>. HIDE DEF s
  <2>3. Good(n, s)
    BY <1>1, <2>1, <2>2 DEF Good, Sound, Counted, Posted, Excused, RevokedNode,
           Stopped, GoodEnd, Orphan, r
  <2>. QED  BY <1>2, <2>3, NodeStepKeeps
<1>3. CASE /\ node[n].fut # "pending" \/ ~Running
           /\ NodeStep(n, [node[n] EXCEPT !.ev = "over"])
  <2>1. Good(n, [node[n] EXCEPT !.ev = "over"])
    BY <1>1, <1>3, NodeGood, EventGood
  <2>. QED  BY <1>3, <2>1, NodeStepKeeps
<1>. QED  BY <1>2, <1>3 DEF HookStarts

LEMMA EventStepKeeps ==
    ASSUME IInv, NEW n \in Nodes, NEW from,
           NEW o \in {"error", "cancelError"},
           EventStep(n, from, "over", o), "none" \notin from
    PROVE  IInv'
<1>. DEFINE c == Complete(node[n], o)
<1>1. Good(n, c)
  BY NodeGood, CompleteGood
<1>2. c.ev # "none" /\ c.fut # "pending"
  BY NodeGood DEF EventStep, Complete, Good, Node
<1>3. NodeStep(n, [c EXCEPT !.ev = "over"])
  BY DEF EventStep
<1>. HIDE DEF c
<1>4. Good(n, [c EXCEPT !.ev = "over"])
  BY <1>1, <1>2, EventGood
<1>. QED  BY <1>3, <1>4, NodeStepKeeps

LEMMA FallbackRunsKeeps ==
    ASSUME IInv, NEW n \in Nodes, FallbackRuns(n)
    PROVE  IInv'
<1>. DEFINE c == IF Running /\ Unhandled(n) THEN Complete(node[n], "error")
                 ELSE node[n]
<1>1. Good(n, c)
  BY NodeGood, CompleteGood
<1>2. c.ev # "none" /\ (c.fut # "pending" \/ c.accepted \/ ~Running)
  BY NodeGood DEF FallbackRuns, Unhandled, Complete, Good, Node
<1>3. NodeStep(n, [c EXCEPT !.ev = "over"])
  BY DEF FallbackRuns
<1>. HIDE DEF c
<1>4. Good(n, [c EXCEPT !.ev = "over"])
  BY <1>1, <1>2, EventGood
<1>. QED  BY <1>3, <1>4, NodeStepKeeps

LEMMA ClaimKeeps ==
    ASSUME IInv, NEW n \in Nodes, Claim(n)
    PROVE  IInv'
<1>. DEFINE r == node[n]
            s == [r EXCEPT !.accepted = TRUE]
<1>1. Good(n, r) /\ r \in Node /\ NodeStep(n, s)
  BY NodeGood DEF Claim, Good
<1>. HIDE DEF r
<1>2. s \in Node /\ s.accepted
  BY <1>1 DEF Node
<1>3. /\ s.at = r.at /\ s.how = r.how /\ s.timer = r.timer /\ s.must = r.must
      /\ s.cancelling = r.cancelling /\ s.fut = r.fut /\ s.ev = r.ev
      /\ s.given = r.given
  BY <1>1 DEF Node
<1>. HIDE DEF s
<1>4. Good(n, s)
  BY <1>1, <1>2, <1>3 DEF Good, Sound, Counted, Posted, Excused, RevokedNode,
         Stopped, GoodEnd, Orphan, r
<1>. QED  BY <1>1, <1>4, NodeStepKeeps

LEMMA ResolveKeeps ==
    ASSUME IInv, NEW n \in Nodes, Resolve(n)
    PROVE  IInv'
<1>1. PICK o \in {"value", "error"} : NodeStep(n, Complete(node[n], o))
  BY DEF Resolve
<1>2. Good(n, Complete(node[n], o))
  BY NodeGood, CompleteGood
<1>. QED  BY <1>1, <1>2, NodeStepKeeps

(* A block that is revoked was pending. *)
LEMMA RevokeKeeps ==
    ASSUME IInv, NEW n \in Nodes, NEW ev \in {node[n].ev, "over"},
           node[n].ev # "none",
           Set(n, [Complete(node[n], "cancelled") EXCEPT !.ev = ev]),
           Revoke(n), UNCHANGED <<status, completion, requested, dispatch>>
    PROVE  IInv'
<1>. DEFINE c == Complete(node[n], "cancelled")
            r == [c EXCEPT !.ev = ev]
<1>1. CASE node[n].fut = "pending" /\ Running /\ completion = "pending"
  <2>. USE DEF dispatch
  <2>1. revoked' = revoked \cup {n} /\ node' = [node EXCEPT ![n] = r]
    BY <1>1 DEF Revoke, Set
  <2>2. node \in [Nodes -> Node] /\ node[n].at \notin {"after", "done", "code"}
    BY <1>1 DEF IInv, TypeOK, Sound, Posted
  <2>3. c = [node[n] EXCEPT !.fut = "cancelled"]
    BY <1>1 DEF Complete
  <2>4. r \in Node /\ r.at = node[n].at /\ r.fut = "cancelled" /\ r.ev # "none"
            /\ r.how = node[n].how /\ r.timer = node[n].timer
            /\ r.must = node[n].must /\ r.cancelling = node[n].cancelling
    BY <2>2, <2>3 DEF Node
  <2>. HIDE DEF r, c
  <2>5. \A m \in Nodes \ {n} : node'[m] = node[m] /\ (m \in revoked' <=> m \in revoked)
    BY <2>1, <2>2
  <2>6. node'[n] = r /\ n \in revoked'
    BY <2>1, <2>2
  <2>7. Onward
    BY DEF Onward, Running
  <2>8. ASSUME NEW m \in Nodes PROVE Sound(m, node[m])'
    <3>1. CASE m # n
      BY <2>2, <2>5, <2>7, <3>1, SoundOnward DEF IInv
    <3>2. Sound(n, node[n])'
      BY <1>1, <2>2, <2>4, <2>6 DEF IInv, Sound, Counted, Posted, Excused,
             RevokedNode, Stopped, GoodEnd, Orphan
    <3>. QED  BY <3>1, <3>2
  <2>9. TypeOK'
    BY <2>1, <2>4 DEF IInv, TypeOK
  <2>10. Attempt'
    <3>1. batch' \in {"raised", "committed", "over"} => AllDone'
      BY <2>2 DEF IInv, Attempt, AllDone
    <3>2. batch # "committed"
      BY <2>2 DEF IInv, Attempt, AllDone
    <3>. QED  BY <1>1, <3>1, <3>2 DEF IInv, Attempt, AbortIsAsked, Running
  <2>. QED  BY <2>8, <2>9, <2>10 DEF IInv
<1>2. CASE ~(node[n].fut = "pending" /\ Running /\ completion = "pending")
  <2>1. NodeStep(n, r)
    BY <1>2 DEF Revoke, NodeStep, attempt
  <2>2. Running \/ completion # "pending"
    BY DEF IInv, Attempt
  <2>3. Good(n, c)
    <3>1. CASE node[n].fut = "pending"
      BY <1>2, <2>2, <3>1, NodeGood, CompleteGood
    <3>2. CASE node[n].fut # "pending"
      BY <3>2, NodeGood DEF Complete
    <3>. QED  BY <3>1, <3>2
  <2>4. c.ev = node[n].ev /\ c.ev # "none" /\ c.fut # "pending"
    BY NodeGood DEF Complete, Good, Node
  <2>. HIDE DEF c
  <2>5. Good(n, r)
    BY <2>3, <2>4 DEF Good, Sound, Counted, Posted, Excused, RevokedNode,
           Stopped, GoodEnd, Orphan, Node
  <2>. QED  BY <2>1, <2>5, NodeStepKeeps
<1>. QED  BY <1>1, <1>2

LEMMA RevokingKeeps ==
    ASSUME IInv, NEW n \in Nodes, UpstreamAccepts(n) \/ CancelBlock(n)
    PROVE  IInv'
<1>1. CASE UpstreamAccepts(n)
  BY <1>1, RevokeKeeps DEF UpstreamAccepts
<1>2. CASE CancelBlock(n)
  <2>. DEFINE c == Complete(node[n], "cancelled")
  <2>1. node[n].ev # "none"
    BY <1>2 DEF CancelBlock, Held, IInv, Sound, Posted
  <2>2. c \in Node /\ c.ev = node[n].ev
    BY NodeGood DEF Good, Complete, Node
  <2>3. c = [c EXCEPT !.ev = node[n].ev]
    BY <2>2 DEF Node
  <2>. QED  BY <1>2, <2>1, <2>3, RevokeKeeps DEF CancelBlock
<1>. QED  BY <1>1, <1>2

-----------------------------------------------------------------------------
(* The end of an interruption, and of a node *)

LEMMA LeaveKeeps ==
    ASSUME IInv, NEW n \in Nodes, Leave(n)
    PROVE  IInv'
<1>. DEFINE r == node[n]
            c == Complete(r, "cancelled")
            how == IF r.must THEN "cancelled" ELSE r.how
            s == [c EXCEPT !.at = "after", !.how = how, !.must = FALSE]
            aborts == how = "cancelled" /\ RevokedByHolder(r) /\ Running
<1>1. /\ Good(n, r) /\ r \in Node /\ r.at = "leaving" /\ node \in [Nodes -> Node]
  BY NodeGood DEF Leave, Good, IInv, TypeOK
<1>2. /\ node' = [node EXCEPT ![n] = s] /\ UNCHANGED <<revoked, batch, cause, requested>>
      /\ UNCHANGED <<cancelAsked, cancels>>
      /\ IF aborts THEN Abort ELSE UNCHANGED <<status, completion>>
  BY DEF Leave, Set, dispatch
<1>3. c \in Node /\ c.fut = (IF r.fut = "pending" THEN "cancelled" ELSE r.fut)
          /\ c.timer = r.timer /\ c.cancelling = r.cancelling
          /\ c.ev = r.ev /\ c.given = r.given
  BY <1>1 DEF Complete, Node
<1>4. how \in {"none", "value", "timeout", "error", "cancelled", "ok"}
  BY <1>1 DEF Node
<1>5. Onward
  BY <1>2 DEF Onward, Running, Abort, End
<1>. HIDE DEF c, how
<1>6. /\ s \in Node /\ s.at = "after" /\ s.how = how /\ s.must = FALSE
      /\ s.fut = c.fut /\ s.timer = r.timer /\ s.cancelling = r.cancelling
      /\ s.ev = r.ev /\ s.given = r.given
  BY <1>3, <1>4 DEF Node
<1>. HIDE DEF s
<1>7. node'[n] = s /\ \A m \in Nodes \ {n} : node'[m] = node[m]
  BY <1>1, <1>2
<1>8. TypeOK'
  BY <1>1, <1>2, <1>6 DEF IInv, TypeOK, Abort, End
<1>9. n \in revoked => s.timer = "expired" \/ how = "cancelled"
  BY <1>1, <1>6 DEF Good, Sound, RevokedNode, Stopped, how
<1>10. n \in revoked /\ how = "cancelled" => ~Running' \/ s.cancelling > 0
  <2>1. n \in revoked => r.fut = "cancelled"
    BY <1>1 DEF Good, Sound, RevokedNode
  <2>2. r.cancelling = 0 \/ r.cancelling > 0
    BY <1>1 DEF Node
  <2>3. aborts => ~Running'
    BY <1>2 DEF Abort, End, Running
  <2>4. ~Running => ~Running'
    BY <1>5 DEF Onward
  <2>. HIDE DEF aborts
  <2>. QED  BY <1>6, <2>1, <2>2, <2>3, <2>4 DEF RevokedByHolder, aborts
<1>11. ASSUME NEW m \in Nodes PROVE Sound(m, node[m])'
  <2>1. CASE m # n
    BY <1>1, <1>2, <1>5, <1>7, <2>1, SoundOnward DEF IInv
  <2>2. CASE m = n
    <3>1. n \in revoked => s.fut = "cancelled" /\ s.ev # "none"
      BY <1>1, <1>3, <1>6 DEF Good, Sound, RevokedNode
    <3>2. RevokedNode(n, node[n])'
      BY <1>2, <1>6, <1>7, <1>9, <1>10, <3>1 DEF RevokedNode, Stopped
    <3>3. s.ev = "none" => ~s.given
      BY <1>1, <1>6 DEF Good, Sound, Posted
    <3>. QED
      BY <1>3, <1>6, <1>7, <2>2, <3>2, <3>3 DEF Sound, Counted, Posted,
         Excused, GoodEnd, Orphan
  <2>. QED  BY <2>1, <2>2
<1>12. Attempt'
  <2>1. ASSUME aborts, completion = "pending" PROVE n \in revoked
    <3>1. r.fut = "cancelled" /\ r.cancelling = 0 /\ ~r.must
      BY <1>1, <2>1 DEF RevokedByHolder, Good, Sound, Counted
    <3>2. r.how = "cancelled"
      BY <2>1, <3>1 DEF how
    <3>. QED  BY <1>1, <2>1, <3>1, <3>2 DEF Good, Sound, Excused
  <2>. HIDE DEF aborts
  <2>2. AbortIsAsked'
    BY <1>2, <2>1 DEF IInv, Attempt, AbortIsAsked, Abort, End
  <2>3. (Running \/ completion # "pending")'
    BY <1>2 DEF IInv, Attempt, Abort, End, Running
  <2>4. batch \notin {"raised", "committed", "over"}
    BY <1>1 DEF IInv, Attempt, AllDone
  <2>. QED  BY <1>2, <2>2, <2>3, <2>4 DEF Attempt
<1>. QED  BY <1>8, <1>11, <1>12 DEF IInv

LEMMA NodeEndsKeeps ==
    ASSUME IInv, NEW n \in Nodes, NodeEnds(n)
    PROVE  IInv'
<1>. DEFINE r == node[n]
            ends == IF r.must \/ r.how = "cancelled"
                    THEN {IF OwnTimeout(r, r.limit) THEN "error" ELSE "cancelled"}
                    ELSE {"ok", "error"}
<1>1. PICK end \in ends :
          /\ Set(n, [r EXCEPT !.at = "done", !.must = FALSE, !.limit = "off",
                !.how = IF @ = "timeout" /\ end = "ok" THEN @ ELSE end])
          /\ cause' = IF batch = "gather" /\ cause = "none" /\ end # "ok"
                      THEN end ELSE cause
  BY DEF NodeEnds
<1>. DEFINE how == IF r.how = "timeout" /\ end = "ok" THEN r.how ELSE end
            s == [r EXCEPT !.at = "done", !.must = FALSE, !.limit = "off", !.how = how]
<1>2. /\ Good(n, r) /\ r \in Node /\ r.at \in {"code", "after"}
      /\ node \in [Nodes -> Node]
      /\ UNCHANGED <<status, completion, requested, revoked, batch, cancelAsked, cancels>>
  BY NodeGood DEF NodeEnds, Good, IInv, TypeOK, attempt
<1>3. /\ end \in {"ok", "error", "cancelled"}
      /\ r.how = "cancelled" => end \in {"error", "cancelled"}
  OBVIOUS
<1>4. node' = [node EXCEPT ![n] = s]
  BY <1>1 DEF Set
<1>. HIDE DEF r, ends
<1>5. /\ how \in {"timeout", "ok", "error", "cancelled"}
      /\ end = "ok" => how \in {"ok", "timeout"}
      /\ r.how = "cancelled" => how \in {"error", "cancelled"}
  BY <1>3
<1>. HIDE DEF how
<1>6. /\ s \in Node /\ s.at = "done" /\ s.how = how /\ s.must = FALSE
      /\ s.fut = r.fut /\ s.timer = r.timer /\ s.cancelling = r.cancelling
      /\ s.ev = r.ev /\ s.given = r.given
  <2>1. how \in {"none", "value", "timeout", "error", "cancelled", "ok"}
    BY <1>5
  <2>2. r \in Node
    BY <1>2
  <2>3. s \in Node
    <3>. DEFINE half == [r EXCEPT !.at = "done", !.must = FALSE]
    <3>1. half \in Node
      BY <2>2 DEF Node
    <3>. HIDE DEF half
    <3>2. [half EXCEPT !.limit = "off", !.how = how] \in Node
      BY <2>1, <3>1 DEF Node
    <3>. QED  BY <3>2 DEF half
  <2>4. s.at = "done" /\ s.how = how /\ s.must = FALSE
    BY <2>2 DEF Node
  <2>5. /\ s.fut = r.fut /\ s.timer = r.timer /\ s.cancelling = r.cancelling
        /\ s.ev = r.ev /\ s.given = r.given
    BY <2>2 DEF Node
  <2>. QED  BY <2>3, <2>4, <2>5
<1>. HIDE DEF s
<1>7. node'[n] = s /\ \A m \in Nodes \ {n} : node'[m] = node[m]
  BY <1>2, <1>4
<1>8. Onward
  BY <1>1, <1>2 DEF Onward, Running
<1>9. TypeOK'
  <2>1. cause' \in {"none", "error", "cancelled"}
    BY <1>1, <1>3 DEF IInv, TypeOK
  <2>. QED  BY <1>2, <1>4, <1>6, <2>1 DEF IInv, TypeOK
<1>10. r.fut # "pending" /\ (n \in revoked => r.at = "after")
  BY <1>2 DEF Good, Sound, Posted, RevokedNode
<1>11. ASSUME NEW m \in Nodes PROVE Sound(m, node[m])'
  <2>1. CASE m # n
    BY <1>2, <1>7, <1>8, <2>1, SoundOnward DEF IInv
  <2>2. CASE m = n
    <3>1. RevokedNode(n, node[n])'
      <4>1. ASSUME n \in revoked
            PROVE  s.fut = "cancelled" /\ s.ev # "none"
        BY <1>2, <1>6, <4>1 DEF Good, Sound, RevokedNode
      <4>2. ASSUME n \in revoked, s.timer # "expired"
            PROVE  s.how \in {"cancelled", "error"} /\ (~Running \/ s.cancelling > 0)
        BY <1>2, <1>5, <1>6, <1>10, <4>2 DEF Good, Sound, RevokedNode, Stopped
      <4>3. node'[n] = s /\ s.at = "done" /\ revoked' = revoked /\ status' = status
        BY <1>2, <1>6, <1>7
      <4>. QED  BY <4>1, <4>2, <4>3 DEF RevokedNode, Running, Stopped
    <3>2. GoodEnd(node[n])'
      BY <1>1, <1>2, <1>3, <1>5, <1>6, <1>7 DEF GoodEnd
    <3>3. s.ev = "none" => ~s.given
      BY <1>2, <1>6 DEF Good, Sound, Posted
    <3>. QED
      BY <1>6, <1>7, <1>10, <2>2, <3>1, <3>2, <3>3 DEF Sound, Counted, Posted,
         Excused, Orphan
  <2>. QED  BY <2>1, <2>2
<1>12. Attempt'
  <2>1. batch \notin {"raised", "committed", "over"}
    BY <1>2 DEF IInv, Attempt, AllDone, r
  <2>. QED  BY <1>2, <2>1 DEF IInv, Attempt, AbortIsAsked, Running
<1>. QED  BY <1>9, <1>11, <1>12 DEF IInv

-----------------------------------------------------------------------------
(* The attempt and the dispatch *)

LEMMA AttemptStepKeeps ==
    ASSUME IInv, UNCHANGED <<node, revoked>>, Onward, TypeOK', Attempt'
    PROVE  IInv'
<1>1. ASSUME NEW n \in Nodes PROVE Sound(n, node[n])'
  BY SoundOnward DEF IInv, TypeOK
<1>. QED  BY <1>1 DEF IInv

LEMMA AttemptEndsKeeps ==
    ASSUME IInv, AbortAttempt \/ CallerCancelled \/ InvokerUnwinds
    PROVE  IInv'
<1>. USE DEF AbortAttempt, CallerCancelled, InvokerUnwinds, Abort, Cancel, End
<1>1. UNCHANGED <<node, revoked, batch, cause>> /\ Onward
  BY DEF Onward, Running
<1>2. TypeOK'
  BY DEF IInv, TypeOK
<1>3. Attempt'
  BY DEF IInv, Attempt, AbortIsAsked, AllDone, Running
<1>. QED  BY <1>1, <1>2, <1>3, AttemptStepKeeps

LEMMA BatchEndsKeeps ==
    ASSUME IInv, BatchReturns \/ BatchUnwinds \/ DispatchCancelled
    PROVE  IInv'
<1>. USE DEF BatchReturns, BatchUnwinds, DispatchCancelled, Fail, Cancel, End,
             attempt, Joined
<1>1. UNCHANGED <<node, revoked>> /\ Onward
  BY DEF Onward, Running
<1>2. TypeOK'
  BY DEF IInv, TypeOK
<1>3. Attempt'
  <2>1. (Running \/ completion # "pending")' /\ AbortIsAsked'
    BY DEF IInv, Attempt, AbortIsAsked, Running
  <2>2. (batch \in {"raised", "committed", "over"} => AllDone)'
    BY DEF IInv, Attempt, AllDone
  <2>3. (batch = "committed" => \A n \in Nodes : node[n].how \in {"ok", "timeout"})'
    BY DEF IInv, Attempt, AllDone, Sound, GoodEnd
  <2>. QED  BY <2>1, <2>2, <2>3 DEF Attempt
<1>. QED  BY <1>1, <1>2, <1>3, AttemptStepKeeps

LEMMA CancelTasksKeeps ==
    ASSUME IInv, CancelTasks, Onward, UNCHANGED attempt,
           cancels' \in 0..MaxCancels,
           batch' \in {"gather", "unwind"}, cause' \in {"none", "error", "cancelled"},
           cancelAsked' \in BOOLEAN
    PROVE  IInv'
<1>1. ASSUME NEW n \in Nodes
      PROVE  /\ node'[n] = CancelTask(node[n])
             /\ Good(n, CancelTask(node[n]))
  BY NodeGood, CancelTaskGood DEF CancelTasks
<1>2. node' \in [Nodes -> Node]
  BY <1>1 DEF CancelTasks, Good
<1>3. TypeOK'
  BY <1>2 DEF IInv, TypeOK, attempt
<1>4. ASSUME NEW n \in Nodes PROVE Sound(n, node[n])'
  BY <1>1, <1>2, SoundOnward DEF Good, attempt
<1>5. Attempt'
  BY DEF IInv, Attempt, AbortIsAsked, Running, attempt
<1>. QED  BY <1>3, <1>4, <1>5 DEF IInv

LEMMA BatchCancelledKeeps ==
    ASSUME IInv, BatchFails \/ CancelBatch
    PROVE  IInv'
<1>1. CASE BatchFails
  <2>1. Onward
    BY <1>1 DEF BatchFails, Onward, Running, attempt
  <2>. QED  BY <1>1, <2>1, CancelTasksKeeps DEF BatchFails, IInv, TypeOK
<1>2. CASE CancelBatch
  <2>1. Onward
    BY <1>2 DEF CancelBatch, Onward, Running, attempt
  <2>2. cancels' \in 0..MaxCancels
    BY <1>2, InterruptAssumption DEF CancelBatch, IInv, TypeOK
  <2>3. CASE CancelTasks
    BY <1>2, <2>1, <2>2, <2>3, CancelTasksKeeps DEF CancelBatch, IInv, TypeOK
  <2>4. CASE UNCHANGED node
    <3>1. TypeOK'
      BY <1>2, <2>2, <2>4 DEF CancelBatch, IInv, TypeOK, attempt
    <3>2. Attempt'
      BY <1>2, <2>4 DEF CancelBatch, IInv, Attempt, AbortIsAsked, Running,
             AllDone, attempt
    <3>. QED
      BY <1>2, <2>1, <2>4, <3>1, <3>2, AttemptStepKeeps DEF CancelBatch, attempt
  <2>. QED  BY <1>2, <2>3, <2>4 DEF CancelBatch
<1>. QED  BY <1>1, <1>2

-----------------------------------------------------------------------------
(* The invariant and what follows from it                                   *)

LEMMA StepKeeps == IInv /\ [Next]_vars => IInv'
<1>. SUFFICES ASSUME IInv, [Next]_vars PROVE IInv'
  OBVIOUS
<1>1. CASE UNCHANGED vars
  <2>1. Onward
    BY <1>1 DEF vars, Onward, Running
  <2>2. TypeOK'
    BY <1>1 DEF vars, IInv, TypeOK
  <2>3. Attempt'
    BY <1>1 DEF vars, IInv, Attempt, AbortIsAsked, AllDone, Running
  <2>. QED  BY <1>1, <2>1, <2>2, <2>3, AttemptStepKeeps DEF vars
<1>2. CASE AbortAttempt \/ CallerCancelled \/ InvokerUnwinds
  BY <1>2, AttemptEndsKeeps
<1>3. CASE Dispatch \/ CancelBatch
  BY <1>3, BatchCancelledKeeps, BatchEndsKeeps DEF Dispatch
<1>4. ASSUME NEW n \in Nodes, Interrupt(n) \/ NodeEnds(n) \/ CloseBlock(n)
      PROVE  IInv'
  BY <1>4, InterruptKeeps, NodeEndsKeeps, CloseBlockKeeps
<1>5. ASSUME NEW n \in Nodes, NodeTask(n)
      PROVE  IInv'
  BY <1>5, PutEventKeeps, PostDoneKeeps, PostFailsKeeps, WakeKeeps, LeaveKeeps
     DEF NodeTask
<1>6. ASSUME NEW n \in Nodes, EventTask(n) \/ HookReturns(n)
      PROVE  IInv'
  BY <1>6, EventMovesKeeps, HookStartsKeeps, FallbackRunsKeeps DEF EventTask
<1>7. ASSUME NEW n \in Nodes,
             HookFails(n) \/ UpstreamFails(n) \/ EventCancelled(n)
      PROVE  IInv'
  BY <1>7, EventStepKeeps DEF HookFails, UpstreamFails, EventCancelled
<1>8. ASSUME NEW n \in Nodes, Holder(n)
      PROVE  IInv'
  BY <1>8, ClaimKeeps, ResolveKeeps, RevokingKeeps DEF Holder
<1>9. ASSUME NEW n \in Nodes, Fault(n)
      PROVE  IInv'
  BY <1>7, <1>9, ExpireKeeps, LimitExpiresKeeps, EventMovesKeeps, RevokingKeeps
     DEF Fault
<1>. QED
  BY <1>1, <1>2, <1>3, <1>4, <1>5, <1>6, <1>7, <1>8, <1>9 DEF Next, Terminating

LEMMA Invariance == Spec => []IInv
BY Initially, StepKeeps, PTL DEF Spec

(* Every reachable state is well typed.                                     *)
THEOREM InterruptTyping == Spec => []TypeOK
<1>1. IInv => TypeOK
  BY DEF IInv
<1>. QED  BY <1>1, Invariance, PTL

(* Whatever cancels the future a block waits on, the attempt ends at its    *)
(* checkpoint only if it was asked to: interrupt()'s test for cancelling()  *)
(* tells Block.cancel() from every other cancellation.                      *)
THEOREM AbortOnlyWhenAsked == Spec => []AbortIsAsked
<1>1. IInv => AbortIsAsked
  BY DEF IInv, Attempt
<1>. QED  BY <1>1, Invariance, PTL

(* _gather_tasks_in_order leaves no node running and no block pending, for  *)
(* any batch and however often its dispatch is cancelled while it unwinds.  *)
THEOREM BatchLeavesNothing == Spec => []NothingOutlivesTheBatch
<1>1. IInv => NothingOutlivesTheBatch
  BY DEF IInv, Attempt, AllDone, Sound, Posted, NothingOutlivesTheBatch
<1>. QED  BY <1>1, Invariance, PTL

(* A block whose event was processed is complete or claimed while its       *)
(* attempt runs: hooks and the fallback handler leave no orphan.            *)
THEOREM NoBlockIsOrphaned == Spec => []NoOrphanBlock
<1>1. IInv => NoOrphanBlock
  BY DEF IInv, Sound, Orphan, NoOrphanBlock
<1>. QED  BY <1>1, Invariance, PTL

(* Block.cancel() and an accepting handler stop the node they revoke the    *)
(* block of, and the batch with it, in every interleaving with timeouts,    *)
(* failing siblings and cancelled dispatches.                               *)
THEOREM RevokedBlocksStopTheirNode == Spec => []CancelledBlockStopsTheNode
<1>1. IInv => CancelledBlockStopsTheNode
  <2>. SUFFICES ASSUME IInv, NEW n \in revoked, node[n].at \in {"after", "done"},
                       node[n].timer # "expired"
                PROVE  /\ node[n].how \in {"cancelled", "error"}
                       /\ batch # "committed"
                       /\ ~Running \/ node[n].cancelling > 0
    BY DEF CancelledBlockStopsTheNode
  <2>1. n \in Nodes
    BY DEF IInv, TypeOK
  <2>2. /\ node[n].how \in {"cancelled", "error"}
        /\ ~Running \/ node[n].cancelling > 0
    BY <2>1 DEF IInv, Sound, RevokedNode
  <2>3. batch # "committed"
    BY <2>1, <2>2 DEF IInv, Attempt
  <2>. QED  BY <2>2, <2>3
<1>. QED  BY <1>1, Invariance, PTL

=============================================================================
