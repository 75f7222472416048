--------------------------- MODULE PayoutsProofs -----------------------------
(***************************************************************************)
(* What holds of payouts for every set of requests, every queue and feed,  *)
(* every cap and every number of failures: what is counted as paid has     *)
(* been sent, whatever overlaps; nothing is paid twice as long as calls do *)
(* not overlap and no transfer goes unconfirmed, reports stay, and with    *)
(* one cycle at a time the worker and the executor together keep the       *)
(* contract of Settlement.                                                 *)
(***************************************************************************)
EXTENDS Payouts, NaturalsInduction, WellFoundedInduction, TLAPS

\* A later version of a list of items.
Extends(old, new) ==
  /\ Len(old) <= Len(new)
  /\ \A k \in DOMAIN old :
       /\ new[k].req = old[k].req
       /\ old[k].status # "pending" => new[k] = old[k]

\* What is pending has not used up its retries.
Retriable(items) == \A k \in DOMAIN items : items[k].status = "pending" => items[k].retries < MaxRetries

\* A cycle that waits for an answer is at an item, and pays a pending one.
CycleOK(c) ==
  /\ c \in CycleType
  /\ Retriable(c.queue)
  /\ c.i <= Len(c.queue) + 1
  /\ c.at = "feed" => c.i = 0
  /\ c.at \in {"standing", "executor", "activity"} => c.i \in DOMAIN c.queue
  /\ c.at \in {"standing", "executor"} => c.queue[c.i].status = "pending"
  /\ c.at = "activity" => c.queue[c.i].status = "paid"

TypeInv ==
  /\ TypeOK
  /\ Retriable(queue)
  /\ \A c \in Cycles : CycleOK(cycle[c])

------------------------------------------------------------------------------
(***************************************************************************)
(* The loop over the items.                                                *)
(***************************************************************************)
\* The loop stops at the first item it has to wait for, or at the end.
LEMMA StopIsFirst ==
  ASSUME NEW c \in CycleType, c.i <= Len(c.queue)
  PROVE  /\ Stop(c) \in c.i + 1 .. Len(c.queue) + 1
         /\ Stop(c) <= Len(c.queue) => Verdict(c.queue[Stop(c)], c.done) = "pending"
         /\ \A k \in c.i + 1 .. Stop(c) - 1 : Verdict(c.queue[k], c.done) # "pending"
<1> DEFINE Halt(n) == n <= Len(c.queue) => Verdict(c.queue[n], c.done) = "pending"
           S == {n \in c.i + 1 .. Len(c.queue) + 1 : Halt(n)}
<1>1. c.i \in Nat /\ Len(c.queue) \in Nat
  BY DEF CycleType
<1>2. S \subseteq Nat /\ Len(c.queue) + 1 \in S
  BY <1>1
<1> HIDE DEF Halt
<1>3. PICK n \in S : \A m \in S : ~(m < n)
  <2> HIDE DEF S
  <2>1. \E n \in S : \A m \in S : ~(<<m, n>> \in OpToRel(<, Nat))
    BY <1>2, WFMin, NatLessThanWellFounded
  <2> QED  BY <2>1, <1>2 DEF OpToRel
<1>4. \A k \in c.i + 1 .. n - 1 : ~Halt(k)
  BY <1>1, <1>3
<1>5. \A k \in c.i + 1 .. n - 1 : Verdict(c.queue[k], c.done) # "pending"
  BY <1>4 DEF Halt
<1>6. n \in c.i + 1 .. Len(c.queue) + 1 /\ (n <= Len(c.queue) => Verdict(c.queue[n], c.done) = "pending")
  BY <1>3 DEF Halt
<1> QED  BY <1>5, <1>6 DEF Stop

LEMMA VerdictType ==
  ASSUME NEW it \in Items, NEW processed
  PROVE  /\ Verdict(it, processed) \in Statuses
         /\ it.status # "pending" => Verdict(it, processed) = it.status
         /\ Verdict(it, processed) = "pending" => it.status = "pending"
         /\ Verdict(it, processed) = "paid" => it.status = "paid"
BY DEF Items, Statuses, Verdict

\* Going on makes no item anything but failed or a duplicate, and stops at a
\* pending one.
LEMMA GoOnKeeps ==
  ASSUME NEW c \in CycleType, Retriable(c.queue), c.i <= Len(c.queue)
  PROVE  /\ CycleOK(GoOn(c))
         /\ Extends(c.queue, GoOn(c).queue)
         /\ DOMAIN GoOn(c).queue = DOMAIN c.queue
         /\ \A k \in DOMAIN c.queue : GoOn(c).queue[k].status = "paid" => c.queue[k].status = "paid"
         /\ GoOn(c).at \in {"standing", "saving"}
         /\ GoOn(c).done = c.done /\ GoOn(c).total = c.total /\ GoOn(c).fresh = c.fresh
<1> DEFINE n == Stop(c)
           at == IF n <= Len(c.queue) THEN "standing" ELSE "saving"
           g == GoOn(c)
<1>1. c.i \in Nat /\ c.queue \in Seq(Items) /\ Len(c.queue) \in Nat /\ DOMAIN c.queue = 1 .. Len(c.queue)
  BY DEF CycleType
<1>2. /\ n \in c.i + 1 .. Len(c.queue) + 1
      /\ n <= Len(c.queue) => Verdict(c.queue[n], c.done) = "pending"
      /\ \A k \in c.i + 1 .. n - 1 : Verdict(c.queue[k], c.done) # "pending"
  BY StopIsFirst
<1>3. \A k \in DOMAIN c.queue : c.queue[k] \in Items
  BY <1>1
<1>4. /\ g.queue = Judged(c) /\ g.i = n /\ g.at = at
      /\ g.done = c.done /\ g.total = c.total /\ g.fresh = c.fresh
      /\ g = [at |-> g.at, queue |-> g.queue, done |-> g.done, total |-> g.total, fresh |-> g.fresh, i |-> g.i]
  <2>1. g = [at |-> at, queue |-> Judged(c), done |-> c.done, total |-> c.total, fresh |-> c.fresh, i |-> n]
    <3> HIDE DEF n, at
    <3>1. GoOn(c) = [c EXCEPT !.queue = Judged(c), !.i = n, !.at = at]
      BY DEF GoOn, n, at
    <3> QED  BY <3>1 DEF CycleType
  <2> HIDE DEF g, n, at
  <2> QED  BY <2>1
<1> HIDE DEF g, n
<1>5. DOMAIN Judged(c) = DOMAIN c.queue
  BY DEF Judged
<1>6. \A k \in DOMAIN c.queue :
        /\ Judged(c)[k] \in Items
        /\ Judged(c)[k].req = c.queue[k].req /\ Judged(c)[k].retries = c.queue[k].retries
        /\ c.queue[k].status # "pending" => Judged(c)[k] = c.queue[k]
        /\ Judged(c)[k].status = "pending" => c.queue[k].status = "pending"
        /\ Judged(c)[k].status = "paid" => c.queue[k].status = "paid"
  <2> TAKE k \in DOMAIN c.queue
  <2>1. c.queue[k] \in Items
    BY <1>3
  <2>2. Judged(c)[k] = IF c.i < k /\ k < n THEN As(c.queue[k], Verdict(c.queue[k], c.done), c.queue[k].retries)
                       ELSE c.queue[k]
    BY DEF Judged, n
  <2> QED  BY <2>1, <2>2, VerdictType DEF Items, As
<1>7. Judged(c) \in Seq(Items) /\ Len(Judged(c)) = Len(c.queue)
  <2>1. Judged(c) \in [1 .. Len(c.queue) -> Items]
    BY <1>1, <1>5, <1>6 DEF Judged
  <2> QED  BY <2>1, <1>1
<1>8. n \in DOMAIN c.queue => Judged(c)[n] = c.queue[n] /\ c.queue[n].status = "pending"
  BY <1>1, <1>2, <1>3, VerdictType DEF Judged, n
<1>9. g \in CycleType
  <2>1. at \in {"standing", "saving"} /\ n \in Nat
    BY <1>1, <1>2
  <2> QED  BY <2>1, <1>4, <1>7 DEF CycleType
<1>10. Retriable(g.queue)
  BY <1>4, <1>5, <1>6 DEF Retriable
<1>11. CycleOK(g)
  <2>1. g.i <= Len(g.queue) + 1
    BY <1>1, <1>2, <1>4, <1>7
  <2>2. g.at = "standing" => g.i \in DOMAIN g.queue /\ g.queue[g.i].status = "pending"
    BY <1>1, <1>2, <1>4, <1>5, <1>8
  <2> QED  BY <2>1, <2>2, <1>4, <1>9, <1>10 DEF CycleOK
<1>12. Extends(c.queue, g.queue)
  BY <1>1, <1>4, <1>6, <1>7 DEF Extends
<1> QED  BY <1>4, <1>5, <1>6, <1>11, <1>12 DEF g

\* What each answer makes of a cycle: its items live on, and only a payment makes
\* one paid.
OnlyPaid(old, new) ==
  \A k \in DOMAIN new : new[k].status = "paid" => k \in DOMAIN old /\ old[k].status = "paid"

\* One item of a list becomes another.
LEMMA PutKeeps ==
  ASSUME NEW c, CycleOK(c), c.at = "executor", NEW status \in Statuses, NEW n \in 0 .. MaxRetries,
         status = "pending" => n < MaxRetries
  PROVE  LET q == Put(c, status, n) IN
         /\ DOMAIN q = DOMAIN c.queue /\ q \in Seq(Items) /\ Len(q) = Len(c.queue)
         /\ \A k \in DOMAIN c.queue : k # c.i => q[k] = c.queue[k]
         /\ q[c.i].req = c.queue[c.i].req /\ q[c.i].status = status
         /\ Retriable(q) /\ Extends(c.queue, q)
<1> DEFINE it == As(c.queue[c.i], status, n)
           q == Put(c, status, n)
<1>1. /\ c \in CycleType /\ c.queue \in Seq(Items) /\ c.i \in DOMAIN c.queue
      /\ Retriable(c.queue) /\ c.queue[c.i].status = "pending" /\ c.queue[c.i] \in Items
  BY DEF CycleOK, CycleType
<1>2. it \in Items /\ it.req = c.queue[c.i].req /\ it.status = status /\ it.retries = n
  BY <1>1 DEF Items, As
<1> HIDE DEF it
<1>3. q = [c.queue EXCEPT ![c.i] = it]
  BY DEF Put, it
<1> HIDE DEF q
<1>4. /\ DOMAIN q = DOMAIN c.queue /\ q \in Seq(Items) /\ Len(q) = Len(c.queue)
      /\ \A k \in DOMAIN c.queue : k # c.i => q[k] = c.queue[k]
      /\ q[c.i] = it
  BY <1>1, <1>2, <1>3
<1>5. Retriable(q)
  BY <1>1, <1>2, <1>4 DEF Retriable
<1>6. Extends(c.queue, q)
  BY <1>1, <1>2, <1>4 DEF Extends
<1> QED  BY <1>2, <1>4, <1>5, <1>6 DEF q

LEMMA PaidKeeps ==
  ASSUME NEW c, CycleOK(c), c.at = "executor"
  PROVE  /\ CycleOK(Paid(c))
         /\ Paid(c).at = "activity" /\ Paid(c).i = c.i
         /\ Paid(c).done = c.done /\ Paid(c).total = c.total /\ Paid(c).fresh = c.fresh
         /\ Extends(c.queue, Paid(c).queue)
         /\ DOMAIN Paid(c).queue = DOMAIN c.queue
         /\ \A k \in DOMAIN c.queue : k # c.i => Paid(c).queue[k] = c.queue[k]
         /\ Paid(c).queue[c.i].req = c.queue[c.i].req
<1> DEFINE q == Put(c, "paid", Retries(c))
<1>1. /\ c \in CycleType /\ c.i \in DOMAIN c.queue /\ c.i \in Nat /\ c.i <= Len(c.queue)
      /\ c.queue[c.i] \in Items /\ c.queue \in Seq(Items)
  BY DEF CycleOK, CycleType
<1>2. Retries(c) \in 0 .. MaxRetries
  BY <1>1 DEF Retries, Items
<1>3. /\ DOMAIN q = DOMAIN c.queue /\ q \in Seq(Items) /\ Len(q) = Len(c.queue)
      /\ \A k \in DOMAIN c.queue : k # c.i => q[k] = c.queue[k]
      /\ q[c.i].req = c.queue[c.i].req /\ q[c.i].status = "paid"
      /\ Retriable(q) /\ Extends(c.queue, q)
  BY <1>2, PutKeeps DEF Statuses
<1> HIDE DEF q
<1>4. Paid(c) = [at |-> "activity", queue |-> q, done |-> c.done, total |-> c.total, fresh |-> c.fresh, i |-> c.i]
  <2>1. Paid(c) = [c EXCEPT !.queue = q, !.at = "activity"]
    BY DEF Paid, q
  <2> QED  BY <1>1, <2>1 DEF CycleType
<1>5. Paid(c) \in CycleType
  BY <1>1, <1>3, <1>4 DEF CycleType
<1>6. CycleOK(Paid(c))
  <2>1. c.i <= Len(q) + 1
    BY <1>1, <1>3
  <2> QED  BY <2>1, <1>1, <1>3, <1>4, <1>5 DEF CycleOK
<1> QED  BY <1>3, <1>4, <1>6

LEMMA ExtendsTwice ==
  ASSUME NEW p \in Seq(Items), NEW q \in Seq(Items), NEW r \in Seq(Items), Extends(p, q), Extends(q, r)
  PROVE  Extends(p, r)
<1>1. DOMAIN p \subseteq DOMAIN q
  BY DEF Extends
<1> QED  BY <1>1 DEF Extends

LEMMA RetriedKeeps ==
  ASSUME NEW c, CycleOK(c), c.at = "executor"
  PROVE  /\ CycleOK(Retried(c))
         /\ Retried(c).at \in {"standing", "saving"}
         /\ Retried(c).done = c.done /\ Retried(c).total = c.total /\ Retried(c).fresh = c.fresh
         /\ Extends(c.queue, Retried(c).queue)
         /\ DOMAIN Retried(c).queue = DOMAIN c.queue
         /\ OnlyPaid(c.queue, Retried(c).queue)
<1> DEFINE n == Retries(c) + 1
           status == IF n >= MaxRetries THEN "failed" ELSE "pending"
           q == Put(c, status, n)
           d == [c EXCEPT !.queue = q]
<1>1. /\ c \in CycleType /\ c.i \in DOMAIN c.queue /\ c.i \in Nat /\ c.i <= Len(c.queue)
      /\ Retriable(c.queue) /\ c.queue[c.i].status = "pending" /\ c.queue[c.i] \in Items
      /\ c.queue \in Seq(Items)
  BY DEF CycleOK, CycleType
<1>2. n \in 0 .. MaxRetries /\ status \in Statuses /\ (status = "pending" => n < MaxRetries) /\ status # "paid"
  <2>1. Retries(c) < MaxRetries /\ Retries(c) \in Nat /\ MaxRetries \in Nat
    BY <1>1, PayoutsAssumption DEF Retriable, Items, Retries
  <2> QED  BY <2>1 DEF Statuses
<1>3. Retried(c) = GoOn(d)
  BY DEF Retried
<1> HIDE DEF n, status
<1>4. /\ DOMAIN q = DOMAIN c.queue /\ q \in Seq(Items) /\ Len(q) = Len(c.queue)
      /\ \A k \in DOMAIN c.queue : k # c.i => q[k] = c.queue[k]
      /\ q[c.i].req = c.queue[c.i].req /\ q[c.i].status = status
      /\ Retriable(q) /\ Extends(c.queue, q)
  BY <1>2, PutKeeps
<1> HIDE DEF q
<1>5. /\ d \in CycleType /\ d.queue = q /\ d.i = c.i /\ d.done = c.done
      /\ d.total = c.total /\ d.fresh = c.fresh
  BY <1>1, <1>4 DEF CycleType
<1> HIDE DEF d
<1>6. OnlyPaid(c.queue, q)
  BY <1>1, <1>2, <1>4 DEF OnlyPaid
<1>7. d.i <= Len(d.queue)
  BY <1>1, <1>4, <1>5
<1>8. /\ CycleOK(GoOn(d)) /\ Extends(q, GoOn(d).queue) /\ DOMAIN GoOn(d).queue = DOMAIN q
      /\ \A k \in DOMAIN q : GoOn(d).queue[k].status = "paid" => q[k].status = "paid"
      /\ GoOn(d).at \in {"standing", "saving"}
      /\ GoOn(d).done = c.done /\ GoOn(d).total = c.total /\ GoOn(d).fresh = c.fresh
  BY <1>4, <1>5, <1>7, GoOnKeeps
<1>9. Extends(c.queue, GoOn(d).queue)
  <2>1. GoOn(d).queue \in Seq(Items)
    BY <1>8 DEF CycleOK, CycleType
  <2> QED  BY <2>1, <1>1, <1>4, <1>8, ExtendsTwice
<1>10. OnlyPaid(c.queue, GoOn(d).queue)
  BY <1>4, <1>6, <1>8 DEF OnlyPaid
<1> QED  BY <1>3, <1>4, <1>8, <1>9, <1>10

\* A cycle that waits at an item goes on behind it.
LEMMA PassedKeeps ==
  ASSUME NEW c, CycleOK(c), c.at = "standing"
  PROVE  /\ CycleOK(GoOn(c)) /\ GoOn(c).at \in {"standing", "saving"}
         /\ GoOn(c).done = c.done /\ GoOn(c).total = c.total /\ GoOn(c).fresh = c.fresh
         /\ Extends(c.queue, GoOn(c).queue) /\ OnlyPaid(c.queue, GoOn(c).queue)
<1>1. c \in CycleType /\ Retriable(c.queue) /\ c.i <= Len(c.queue)
  BY DEF CycleOK, CycleType
<1> QED  BY <1>1, GoOnKeeps DEF OnlyPaid

LEMMA StartKeeps ==
  ASSUME NEW q \in Seq(Items), NEW d \in SUBSET Requests, NEW t \in Nat, NEW f \in BOOLEAN, Retriable(q)
  PROVE  CycleOK([at |-> "feed", queue |-> q, done |-> d, total |-> t, fresh |-> f, i |-> 0])
<1> DEFINE c == [at |-> "feed", queue |-> q, done |-> d, total |-> t, fresh |-> f, i |-> 0]
<1>1. c \in CycleType
  BY DEF CycleType
<1>2. c.i <= Len(c.queue) + 1
  OBVIOUS
<1> QED  BY <1>1, <1>2 DEF CycleOK

\* What the feed adds is pending, at the end of the list.
LEMMA FeedKeeps ==
  ASSUME NEW c, CycleOK(c), c.at = "feed", NEW batch \in SUBSET Requests, NEW new \in Ingested(c, batch)
  PROVE  LET d == GoOn([c EXCEPT !.queue = c.queue \o AsItems(new)]) IN
         /\ CycleOK(d) /\ d.at \in {"standing", "saving"}
         /\ d.done = c.done /\ d.total = c.total /\ d.fresh = c.fresh
         /\ Extends(c.queue, d.queue) /\ OnlyPaid(c.queue, d.queue)
<1> DEFINE q == c.queue \o AsItems(new)
           e == [c EXCEPT !.queue = q]
<1>1. /\ c \in CycleType /\ c.queue \in Seq(Items) /\ Retriable(c.queue) /\ c.i = 0
  BY DEF CycleOK, CycleType
<1>2. PICK n \in Nat : new \in [1 .. n -> Requests]
  BY DEF Ingested
<1>3. /\ AsItems(new) \in [1 .. n -> Items]
      /\ \A k \in 1 .. n : AsItems(new)[k].status = "pending" /\ AsItems(new)[k].retries = 0
  BY <1>2, PayoutsAssumption DEF AsItems, Item, Items, Statuses
<1>4. AsItems(new) \in Seq(Items) /\ Len(AsItems(new)) = n
  BY <1>2, <1>3
<1> HIDE DEF q
<1>5. /\ q \in Seq(Items) /\ Len(q) = Len(c.queue) + n
      /\ \A k \in DOMAIN c.queue : q[k] = c.queue[k]
      /\ \A k \in DOMAIN q : k \notin DOMAIN c.queue => q[k].status = "pending" /\ q[k].retries = 0
  <2>1. \A k \in DOMAIN q : k \notin DOMAIN c.queue =>
          k - Len(c.queue) \in 1 .. n /\ q[k] = AsItems(new)[k - Len(c.queue)]
    BY <1>1, <1>4 DEF q
  <2>2. \A k \in DOMAIN q : k \notin DOMAIN c.queue => q[k].status = "pending" /\ q[k].retries = 0
    BY <2>1, <1>3
  <2>3. q \in Seq(Items) /\ Len(q) = Len(c.queue) + n
    BY <1>1, <1>4 DEF q
  <2>4. \A k \in DOMAIN c.queue : q[k] = c.queue[k]
    BY <1>1, <1>4 DEF q
  <2> QED  BY <2>2, <2>3, <2>4
<1>6. Retriable(q)
  BY <1>1, <1>5, PayoutsAssumption DEF Retriable
<1>7. Extends(c.queue, q) /\ OnlyPaid(c.queue, q)
  BY <1>1, <1>5 DEF Extends, OnlyPaid
<1>8. /\ e \in CycleType /\ e.queue = q /\ e.i = 0 /\ e.done = c.done
      /\ e.total = c.total /\ e.fresh = c.fresh
  BY <1>1, <1>5 DEF CycleType
<1> HIDE DEF e
<1>9. e.i <= Len(e.queue)
  BY <1>5, <1>8
<1>10. /\ CycleOK(GoOn(e)) /\ GoOn(e).at \in {"standing", "saving"}
       /\ Extends(q, GoOn(e).queue) /\ DOMAIN GoOn(e).queue = DOMAIN q
       /\ \A k \in DOMAIN q : GoOn(e).queue[k].status = "paid" => q[k].status = "paid"
       /\ GoOn(e).done = c.done /\ GoOn(e).total = c.total /\ GoOn(e).fresh = c.fresh
  BY <1>6, <1>8, <1>9, GoOnKeeps
<1>11. Extends(c.queue, GoOn(e).queue)
  <2>1. GoOn(e).queue \in Seq(Items)
    BY <1>10 DEF CycleOK, CycleType
  <2> QED  BY <2>1, <1>1, <1>5, <1>7, <1>10, ExtendsTwice
<1>12. OnlyPaid(c.queue, GoOn(e).queue)
  BY <1>7, <1>10 DEF OnlyPaid
<1> QED  BY <1>10, <1>11, <1>12 DEF e, q

LEMMA ActivityKeeps ==
  ASSUME NEW c, CycleOK(c), c.at = "activity", NEW r \in Requests
  PROVE  LET d == GoOn([c EXCEPT !.done = c.done \cup {r}, !.total = c.total + r.amount]) IN
         /\ CycleOK(d) /\ d.at \in {"standing", "saving"}
         /\ d.done = c.done \cup {r} /\ d.total = c.total + r.amount /\ d.fresh = c.fresh
         /\ Extends(c.queue, d.queue) /\ OnlyPaid(c.queue, d.queue)
<1> DEFINE e == [c EXCEPT !.done = c.done \cup {r}, !.total = c.total + r.amount]
<1>1. c \in CycleType /\ Retriable(c.queue) /\ c.i <= Len(c.queue) /\ r.amount \in Nat
  BY PayoutsAssumption DEF CycleOK, CycleType
<1>2. /\ e \in CycleType /\ e.queue = c.queue /\ e.i = c.i /\ e.done = c.done \cup {r}
      /\ e.total = c.total + r.amount /\ e.fresh = c.fresh
  <2>1. c.total + r.amount \in Nat /\ c.done \cup {r} \in SUBSET Requests
    BY <1>1 DEF CycleType
  <2> QED  BY <2>1, <1>1 DEF CycleType
<1> HIDE DEF e
<1>3. /\ CycleOK(GoOn(e)) /\ GoOn(e).at \in {"standing", "saving"}
      /\ GoOn(e).done = e.done /\ GoOn(e).total = e.total /\ GoOn(e).fresh = e.fresh
      /\ Extends(c.queue, GoOn(e).queue) /\ DOMAIN GoOn(e).queue = DOMAIN c.queue
      /\ \A k \in DOMAIN c.queue : GoOn(e).queue[k].status = "paid" => c.queue[k].status = "paid"
  BY <1>1, <1>2, GoOnKeeps
<1> QED  BY <1>2, <1>3 DEF e, OnlyPaid

LEMMA RestingOK == CycleOK(Resting)
BY DEF CycleOK, CycleType, Resting, Retriable

------------------------------------------------------------------------------
(***************************************************************************)
(* What a step does to the cycles.                                         *)
(***************************************************************************)
\* Who waits for a call waits at the item it is for, and for one call.
CallsInv ==
  /\ \A s \in Busy : jobs[s].caller # Nobody =>
       cycle[jobs[s].caller].at = "executor" /\ Current(jobs[s].caller) = jobs[s].req
  /\ \A s, t \in Busy : jobs[s].caller = jobs[t].caller /\ jobs[s].caller # Nobody => s = t

\* A cycle lives on with its items.
Lives(c, d) ==
  c.at # "resting" /\ Extends(c.queue, d.queue) /\ OnlyPaid(c.queue, d.queue)

CycleStep(c) ==
  /\ CycleOK(cycle'[c])
  /\ \/ cycle'[c].at = "resting"
     \/ cycle'[c].queue = queue
     \/ Lives(cycle[c], cycle'[c])
     \/ /\ cycle'[c] = Paid(cycle[c])
        /\ cycle[c].at = "executor"
        /\ \E s \in Busy : jobs[s].caller = c /\ (Repeat(s) \/ Record(s))

CyclesStep ==
  /\ cycle' = [c \in Cycles |-> cycle'[c]]
  /\ \A c \in Cycles : CycleStep(c)

LEMMA LivesOn ==
  ASSUME NEW c, CycleOK(c)
  PROVE  /\ Extends(c.queue, c.queue) /\ OnlyPaid(c.queue, c.queue)
         /\ c.at # "resting" => Lives(c, c)
         /\ CycleOK([c EXCEPT !.fresh = FALSE])
         /\ [c EXCEPT !.fresh = FALSE].at = c.at /\ [c EXCEPT !.fresh = FALSE].queue = c.queue
         /\ [c EXCEPT !.fresh = FALSE].i = c.i
<1>1. c \in CycleType
  BY DEF CycleOK
<1>2. Extends(c.queue, c.queue) /\ OnlyPaid(c.queue, c.queue)
  BY <1>1 DEF Extends, OnlyPaid, CycleType
<1>3. /\ [c EXCEPT !.fresh = FALSE] \in CycleType
      /\ [c EXCEPT !.fresh = FALSE].at = c.at /\ [c EXCEPT !.fresh = FALSE].queue = c.queue
      /\ [c EXCEPT !.fresh = FALSE].i = c.i
  BY <1>1 DEF CycleType
<1> HIDE <1>1
<1> DEFINE d == [c EXCEPT !.fresh = FALSE]
<1>4. CycleOK(d)
  <2>1. d \in CycleType /\ d.at = c.at /\ d.queue = c.queue /\ d.i = c.i
    BY <1>3
  <2> HIDE DEF d
  <2> QED  BY <2>1 DEF CycleOK
<1> QED  BY <1>2, <1>3, <1>4 DEF Lives

LEMMA CallKeeps ==
  ASSUME NEW c, CycleOK(c), c.at = "standing"
  PROVE  LET d == [c EXCEPT !.at = "executor"] IN
         /\ CycleOK(d) /\ Lives(c, d) /\ d.at = "executor" /\ d.queue = c.queue /\ d.i = c.i
         /\ d.total = c.total
<1> DEFINE d == [c EXCEPT !.at = "executor"]
<1>1. d \in CycleType /\ d.at = "executor" /\ d.queue = c.queue /\ d.i = c.i /\ d.total = c.total
  BY DEF CycleType, CycleOK
<1> HIDE DEF d
<1>2. CycleOK(d)
  BY <1>1 DEF CycleOK
<1>3. Lives(c, d)
  BY <1>1, LivesOn DEF Lives
<1> QED  BY <1>1, <1>2, <1>3 DEF d

\* A step of one cycle is a step of all.
LEMMA OneCycleSteps ==
  ASSUME TypeInv, NEW c \in Cycles, NEW d, cycle' = [cycle EXCEPT ![c] = d], CycleOK(d),
         d.at = "resting" \/ d.queue = queue \/ Lives(cycle[c], d)
  PROVE  CyclesStep
<1>1. cycle \in [Cycles -> CycleType] /\ \A b \in Cycles : CycleOK(cycle[b])
  BY DEF TypeInv, TypeOK
<1>2. \A b \in Cycles : cycle'[b] = IF b = c THEN d ELSE cycle[b]
  BY <1>1
<1>3. \A b \in Cycles : CycleStep(b)
  BY <1>1, <1>2, LivesOn DEF CycleStep
<1>4. cycle' = [b \in Cycles |-> cycle'[b]]
  BY <1>1
<1> QED  BY <1>3, <1>4 DEF CyclesStep

LEMMA UnmovedCyclesStep ==
  ASSUME TypeInv, UNCHANGED cycle
  PROVE  CyclesStep
<1>1. cycle \in [Cycles -> CycleType] /\ \A b \in Cycles : CycleOK(cycle[b])
  BY DEF TypeInv, TypeOK
<1>2. \A b \in Cycles : CycleStep(b)
  BY <1>1, LivesOn DEF CycleStep
<1>3. cycle' = [b \in Cycles |-> cycle'[b]]
  BY <1>1
<1> QED  BY <1>2, <1>3 DEF CyclesStep

LEMMA CurrentType ==
  ASSUME TypeInv, NEW c \in Cycles, cycle[c].at \in {"standing", "executor", "activity"}
  PROVE  Current(c) \in Requests
<1>1. CycleOK(cycle[c])
  BY DEF TypeInv
<1>2. cycle[c].queue \in Seq(Items) /\ cycle[c].i \in DOMAIN cycle[c].queue
  BY <1>1 DEF CycleOK, CycleType
<1>3. cycle[c].queue[cycle[c].i] \in Items
  BY <1>2
<1> QED  BY <1>3 DEF Current, Items

LEMMA WorkingCyclesStep ==
  ASSUME TypeInv, NEW c \in Cycles, Working(c) \/ LookupFails(c) \/ SaveFails(c)
  PROVE  CyclesStep
<1>1. /\ CycleOK(cycle[c]) /\ cycle[c] \in CycleType /\ queue \in Seq(Items) /\ Retriable(queue)
      /\ done \in SUBSET Requests /\ total \in Nat /\ hourOver \in BOOLEAN
  BY DEF TypeInv, TypeOK
<1>2. CASE Start(c)
  <2> DEFINE t == IF hourOver THEN 0 ELSE total
             d == [at |-> "feed", queue |-> queue, done |-> done, total |-> t, fresh |-> hourOver, i |-> 0]
  <2>1. CycleOK(d)
    <3>1. t \in Nat
      BY <1>1
    <3> HIDE DEF t
    <3> QED  BY <1>1, <3>1, StartKeeps
  <2>2. cycle' = [cycle EXCEPT ![c] = d] /\ d.queue = queue
    BY <1>2 DEF Start
  <2> HIDE DEF d
  <2> QED  BY <2>1, <2>2, OneCycleSteps
<1>3. CASE Feed(c)
  <2>1. PICK batch \in Feeds : \E new \in Ingested(cycle[c], batch) :
          cycle' = [cycle EXCEPT ![c] = GoOn([cycle[c] EXCEPT !.queue = cycle[c].queue \o AsItems(new)])]
    BY <1>3 DEF Feed
  <2>2. PICK new \in Ingested(cycle[c], batch) :
          cycle' = [cycle EXCEPT ![c] = GoOn([cycle[c] EXCEPT !.queue = cycle[c].queue \o AsItems(new)])]
    BY <2>1
  <2> DEFINE d == GoOn([cycle[c] EXCEPT !.queue = cycle[c].queue \o AsItems(new)])
  <2>3. batch \in SUBSET Requests /\ cycle[c].at = "feed"
    BY <1>3, PayoutsAssumption DEF Feed
  <2>4. CycleOK(d) /\ Lives(cycle[c], d)
    BY <1>1, <2>3, FeedKeeps DEF Lives
  <2>5. cycle' = [cycle EXCEPT ![c] = d]
    BY <2>2
  <2> HIDE DEF d
  <2> QED  BY <2>4, <2>5, OneCycleSteps
<1>4. CASE HoldBack(c) \/ LookupFails(c)
  <2>1. cycle[c].at = "standing" /\ cycle' = [cycle EXCEPT ![c] = GoOn(cycle[c])]
    BY <1>4 DEF HoldBack, LookupFails
  <2>2. CycleOK(GoOn(cycle[c])) /\ Lives(cycle[c], GoOn(cycle[c]))
    BY <1>1, <2>1, PassedKeeps DEF Lives
  <2> QED  BY <2>1, <2>2, OneCycleSteps
<1>5. CASE Call(c)
  <2>1. cycle[c].at = "standing" /\ cycle' = [cycle EXCEPT ![c].at = "executor"]
    BY <1>5 DEF Call
  <2> DEFINE d == [cycle[c] EXCEPT !.at = "executor"]
  <2>2. CycleOK(d) /\ Lives(cycle[c], d)
    BY <1>1, <2>1, CallKeeps
  <2>3. cycle' = [cycle EXCEPT ![c] = d]
    BY <2>1
  <2> HIDE DEF d
  <2> QED  BY <2>2, <2>3, OneCycleSteps
<1>6. CASE Activity(c)
  <2> DEFINE d == GoOn([cycle[c] EXCEPT !.done = cycle[c].done \cup {Current(c)},
                                        !.total = cycle[c].total + Current(c).amount])
  <2>1. cycle[c].at = "activity" /\ cycle' = [cycle EXCEPT ![c] = d]
    BY <1>6 DEF Activity
  <2>2. Current(c) \in Requests
    BY <2>1, CurrentType
  <2>3. CycleOK(d) /\ Lives(cycle[c], d)
    BY <1>1, <2>1, <2>2, ActivityKeeps DEF Lives
  <2> HIDE DEF d
  <2> QED  BY <2>1, <2>3, OneCycleSteps
<1>7. CASE Save(c) \/ SaveFails(c)
  <2>1. cycle' = [cycle EXCEPT ![c] = Resting] /\ Resting.at = "resting"
    BY <1>7 DEF Save, SaveFails, Resting
  <2> QED  BY <2>1, RestingOK, OneCycleSteps
<1> QED  BY <1>2, <1>3, <1>4, <1>5, <1>6, <1>7 DEF Working

\* Who gets an answer is paid or goes on; everybody else is left alone.
LEMMA AnswersStep ==
  ASSUME TypeInv, CallsInv, NEW s \in Busy,
         \/ (Repeat(s) \/ Record(s)) /\ cycle' = [c \in Cycles |-> Answered(s, c)]
         \/ cycle' = [c \in Cycles |-> Rejected(s, c)]
  PROVE  CyclesStep
<1>1. cycle \in [Cycles -> CycleType] /\ \A b \in Cycles : CycleOK(cycle[b])
  BY DEF TypeInv, TypeOK
<1>2. \A c \in Cycles : jobs[s].caller = c => cycle[c].at = "executor"
  BY PayoutsAssumption DEF CallsInv
<1>3. ASSUME NEW c \in Cycles PROVE CycleStep(c)
  <2>1. CASE jobs[s].caller # c
    <3>1. cycle'[c] = cycle[c]
      BY <2>1 DEF Answered, Rejected
    <3> QED  BY <1>1, <3>1, LivesOn DEF CycleStep
  <2>2. CASE jobs[s].caller = c /\ cycle' = [b \in Cycles |-> Rejected(s, b)]
    <3>1. cycle'[c] = Retried(cycle[c])
      BY <2>2 DEF Rejected
    <3> QED  BY <1>1, <1>2, <2>2, <3>1, RetriedKeeps DEF CycleStep, Lives
  <2>3. CASE jobs[s].caller = c /\ (Repeat(s) \/ Record(s)) /\ cycle' = [b \in Cycles |-> Answered(s, b)]
    <3>1. cycle'[c] = Paid(cycle[c])
      BY <2>3 DEF Answered
    <3>2. CycleOK(Paid(cycle[c]))
      BY <1>1, <1>2, <2>3, PaidKeeps
    <3> QED  BY <1>2, <2>3, <3>1, <3>2 DEF CycleStep
  <2> QED  BY <2>1, <2>2, <2>3
<1> QED  BY <1>3 DEF CyclesStep

LEMMA NextCyclesStep ==
  ASSUME TypeInv, CallsInv, [Next]_vars
  PROVE  CyclesStep
<1>1. CASE UNCHANGED cycle
  BY <1>1, UnmovedCyclesStep
<1>2. CASE \E c \in Cycles : Working(c) \/ LookupFails(c) \/ SaveFails(c)
  BY <1>2, WorkingCyclesStep
<1>3. ASSUME NEW s \in Slots, Repeat(s) \/ Record(s) PROVE CyclesStep
  <2>1. s \in Busy /\ cycle' = [c \in Cycles |-> Answered(s, c)]
    BY <1>3 DEF Repeat, Record, Busy
  <2> QED  BY <1>3, <2>1, AnswersStep
<1>4. ASSUME NEW s \in Slots, AnswerLost(s) \/ Refuse(s) PROVE CyclesStep
  <2>1. s \in Busy /\ cycle' = [c \in Cycles |-> Rejected(s, c)]
    BY <1>4 DEF AnswerLost, Refuse, Busy
  <2> QED  BY <2>1, AnswersStep
<1>5. CASE WorkerRestarts
  <2>1. cycle' = [c \in Cycles |-> Resting] /\ Resting.at = "resting"
    BY <1>5 DEF WorkerRestarts, Resting
  <2> QED  BY <2>1, RestingOK DEF CyclesStep, CycleStep
<1>6. CASE HourPasses
  <2>1. cycle' = [c \in Cycles |-> [cycle[c] EXCEPT !.fresh = FALSE]]
    BY <1>6 DEF HourPasses
  <2>2. ASSUME NEW c \in Cycles PROVE CycleStep(c)
    <3>1. CycleOK(cycle[c])
      BY DEF TypeInv
    <3>2. CycleOK(cycle'[c]) /\ cycle'[c].at = cycle[c].at /\ cycle'[c].queue = cycle[c].queue
      BY <2>1, <3>1, LivesOn
    <3> QED  BY <3>1, <3>2, LivesOn DEF CycleStep, Lives
  <2> QED  BY <2>1, <2>2 DEF CyclesStep
<1>7. ASSUME NEW s \in Slots, Accept(s) \/ Transfer(s) PROVE UNCHANGED cycle
  BY <1>7 DEF Accept, Transfer
<1> QED  BY <1>1, <1>2, <1>3, <1>4, <1>5, <1>6, <1>7 DEF Next, Executing, Failing, vars

------------------------------------------------------------------------------
(***************************************************************************)
(* Types.                                                                  *)
(***************************************************************************)
JobsOK == jobs \in [Slots -> JobType]

LEMMA BusyJob ==
  ASSUME JobsOK, NEW s \in Busy
  PROVE  /\ jobs[s] \in [step : {"posted", "checked", "confirming"}, req : Requests,
                          caller : Cycles \cup {Nobody}, seen : SUBSET Requests]
         /\ s \in Slots
BY DEF JobsOK, JobType, Busy

LEMMA JobsStep ==
  ASSUME TypeInv, [Next]_vars
  PROVE  JobsOK'
<1>1. JobsOK
  BY DEF TypeInv, TypeOK, JobsOK
<1>2. Free \in JobType
  BY DEF JobType
<1>3. CASE UNCHANGED jobs
  BY <1>1, <1>3 DEF JobsOK
<1>4. ASSUME NEW c \in Cycles, Call(c) PROVE JobsOK'
  <2>1. PICK s \in Slots \ Busy :
          jobs' = [jobs EXCEPT ![s] = [step |-> "posted", req |-> Current(c), caller |-> c, seen |-> {}]]
    BY <1>4 DEF Call
  <2>2. Current(c) \in Requests
    BY <1>4, CurrentType DEF Call
  <2>3. [step |-> "posted", req |-> Current(c), caller |-> c, seen |-> {}] \in JobType
    BY <2>2 DEF JobType
  <2> QED  BY <1>1, <2>1, <2>3 DEF JobsOK
<1>5. ASSUME NEW s \in Slots, Repeat(s) \/ Record(s) \/ Refuse(s) PROVE JobsOK'
  <2>1. jobs' = [jobs EXCEPT ![s] = Free]
    BY <1>5 DEF Repeat, Record, Refuse
  <2> QED  BY <1>1, <1>2, <2>1 DEF JobsOK
<1>6. ASSUME NEW s \in Slots, Accept(s) PROVE JobsOK'
  <2>1. s \in Busy /\ jobs' = [jobs EXCEPT ![s].step = "checked", ![s].seen = records] /\ records \in SUBSET Requests
    BY <1>6 DEF Accept, Busy, TypeInv, TypeOK
  <2>2. [jobs[s] EXCEPT !.step = "checked", !.seen = records] \in JobType
    BY <1>1, <2>1, BusyJob DEF JobType
  <2>3. jobs' = [jobs EXCEPT ![s] = [jobs[s] EXCEPT !.step = "checked", !.seen = records]]
    BY <1>1, <2>1 DEF JobsOK
  <2> QED  BY <1>1, <2>2, <2>3 DEF JobsOK
<1>7. ASSUME NEW s \in Slots, Transfer(s) PROVE JobsOK'
  <2>1. s \in Busy /\ jobs' = [jobs EXCEPT ![s].step = "confirming"]
    BY <1>7 DEF Transfer, Busy
  <2>2. [jobs[s] EXCEPT !.step = "confirming"] \in JobType
    BY <1>1, <2>1, BusyJob DEF JobType
  <2> QED  BY <1>1, <2>1, <2>2 DEF JobsOK
<1>8. ASSUME NEW s \in Slots, AnswerLost(s) PROVE JobsOK'
  <2>1. s \in Busy /\ jobs' = [jobs EXCEPT ![s].caller = Nobody]
    BY <1>8 DEF AnswerLost
  <2>2. [jobs[s] EXCEPT !.caller = Nobody] \in JobType
    BY <1>1, <2>1, BusyJob DEF JobType
  <2> QED  BY <1>1, <2>1, <2>2 DEF JobsOK
<1>9. CASE WorkerRestarts
  <2>1. jobs' = [s \in Slots |-> IF s \in Busy THEN [jobs[s] EXCEPT !.caller = Nobody] ELSE Free]
    BY <1>9 DEF WorkerRestarts
  <2>2. \A s \in Busy : [jobs[s] EXCEPT !.caller = Nobody] \in JobType
    BY <1>1, BusyJob DEF JobType
  <2> QED  BY <1>2, <2>1, <2>2 DEF JobsOK
<1>10. ASSUME NEW c \in Cycles,
              Start(c) \/ Feed(c) \/ HoldBack(c) \/ Activity(c) \/ Save(c) \/ LookupFails(c) \/ SaveFails(c)
       PROVE  UNCHANGED jobs
  BY <1>10 DEF Start, Feed, HoldBack, Activity, Save, LookupFails, SaveFails
<1>11. CASE HourPasses
  BY <1>3, <1>11 DEF HourPasses
<1>12. CASE UNCHANGED vars
  BY <1>3, <1>12 DEF vars
<1> QED
  BY <1>3, <1>4, <1>5, <1>6, <1>7, <1>8, <1>9, <1>10, <1>11, <1>12 DEF Next, Working, Executing, Failing

LEMMA TypeInvStep ==
  ASSUME TypeInv, CallsInv, [Next]_vars
  PROVE  TypeInv'
<1>1. CyclesStep /\ JobsOK'
  BY NextCyclesStep, JobsStep
<1>2. (\A c \in Cycles : CycleOK(cycle[c]))' /\ (cycle \in [Cycles -> CycleType])'
  BY <1>1 DEF CyclesStep, CycleStep, CycleOK
<1>3. /\ queue \in Seq(Items) /\ Retriable(queue) /\ done \in SUBSET Requests /\ total \in Nat
      /\ torn \in SUBSET {"queue", "state"} /\ hourOver \in BOOLEAN /\ records \in SUBSET Requests
      /\ sent \in [Requests -> Nat] /\ hourSent \in Nat /\ trouble \in Nat
      /\ \A c \in Cycles : CycleOK(cycle[c]) /\ JobsOK
  BY DEF TypeInv, TypeOK, JobsOK
<1>4. \A c \in Cycles : /\ cycle[c].queue \in Seq(Items) /\ Retriable(cycle[c].queue)
                        /\ cycle[c].done \in SUBSET Requests /\ cycle[c].total \in Nat
                        /\ cycle[c].fresh \in BOOLEAN
  BY <1>3 DEF CycleOK, CycleType
<1>5. (queue \in Seq(Items) /\ Retriable(queue) /\ done \in SUBSET Requests /\ total \in Nat)'
  <2>1. CASE UNCHANGED <<queue, done, total>>
    BY <2>1, <1>3 DEF Retriable
  <2>2. ASSUME NEW c \in Cycles, Save(c) \/ SaveFails(c)
        PROVE  (queue \in Seq(Items) /\ Retriable(queue) /\ done \in SUBSET Requests /\ total \in Nat)'
    <3>1. queue' = queue \/ queue' = cycle[c].queue
      BY <2>2 DEF Save, SaveFails, SavedQueue
    <3>2. (done' = done /\ total' = total) \/ (done' = cycle[c].done /\ total' = cycle[c].total)
      BY <2>2 DEF Save, SaveFails
    <3> QED  BY <1>3, <1>4, <3>1, <3>2 DEF Retriable
  <2>3. ASSUME ~ \E c \in Cycles : Save(c) \/ SaveFails(c) PROVE UNCHANGED <<queue, done, total>>
    BY <2>3 DEF Next, Working, Executing, Failing, vars, fileVars, Start, Feed, HoldBack, Call, Activity,
                LookupFails, Repeat, Accept, Transfer, Record, AnswerLost, Refuse, WorkerRestarts, HourPasses
  <2> QED  BY <2>1, <2>2, <2>3
<1>6. (torn \in SUBSET {"queue", "state"} /\ hourOver \in BOOLEAN)'
  <2>1. UNCHANGED torn \/ torn' \in {{"queue"}, {}, {"state"}}
    BY DEF Next, Working, Executing, Failing, vars, fileVars, Start, Feed, HoldBack, Call, Activity, Save, SaveFails,
           LookupFails, Repeat, Accept, Transfer, Record, AnswerLost, Refuse, WorkerRestarts, HourPasses
  <2>2. UNCHANGED hourOver \/ hourOver' = TRUE \/ \E c \in Cycles : hourOver' = (hourOver /\ ~cycle[c].fresh)
    BY DEF Next, Working, Executing, Failing, vars, fileVars, Start, Feed, HoldBack, Call, Activity, Save, SaveFails,
           LookupFails, Repeat, Accept, Transfer, Record, AnswerLost, Refuse, WorkerRestarts, HourPasses
  <2>3. (torn \in SUBSET {"queue", "state"})'
    BY <1>3, <2>1
  <2>4. (hourOver \in BOOLEAN)'
    BY <1>3, <1>4, <2>2, Zenon
  <2> QED  BY <2>3, <2>4
<1>7. (records \in SUBSET Requests /\ sent \in [Requests -> Nat] /\ hourSent \in Nat)'
  <2>1. CASE UNCHANGED <<records, sent>> /\ hourSent' \in {0, hourSent}
    BY <1>3, <2>1
  <2>2. ASSUME NEW s \in Slots, Transfer(s) PROVE (records \in SUBSET Requests /\ sent \in [Requests -> Nat] /\ hourSent \in Nat)'
    <3>1. s \in Busy /\ JobsOK
      BY <2>2 DEF Transfer, Busy, TypeInv, TypeOK, JobsOK
    <3>2. jobs[s].req \in Requests
      BY <3>1, BusyJob
    <3>3. jobs[s].req.amount \in Nat
      BY <3>2, PayoutsAssumption
    <3>4. /\ records' = records /\ sent' = [sent EXCEPT ![jobs[s].req] = sent[jobs[s].req] + 1]
          /\ hourSent' = hourSent + jobs[s].req.amount
      BY <2>2 DEF Transfer
    <3>5. sent' \in [Requests -> Nat]
      BY <1>3, <3>2, <3>4
    <3> QED  BY <1>3, <3>3, <3>4, <3>5
  <2>3. ASSUME NEW s \in Slots, Record(s) PROVE (records \in SUBSET Requests /\ sent \in [Requests -> Nat] /\ hourSent \in Nat)'
    <3>1. s \in Busy /\ JobsOK
      BY <2>3 DEF Record, Busy, TypeInv, TypeOK, JobsOK
    <3>2. jobs[s].req \in Requests /\ jobs[s].seen \in SUBSET Requests
      BY <3>1, BusyJob
    <3>3. records' = jobs[s].seen \cup {jobs[s].req} /\ UNCHANGED <<sent, hourSent>>
      BY <2>3 DEF Record, Noted, chainVars
    <3> QED  BY <1>3, <3>2, <3>3
  <2>4. ASSUME ~ \E s \in Slots : Transfer(s) \/ Record(s)
        PROVE  UNCHANGED <<records, sent>> /\ hourSent' \in {0, hourSent}
    BY <2>4 DEF Next, Working, Executing, Failing, vars, chainVars, Start, Feed, HoldBack, Call, Activity, Save,
                SaveFails, LookupFails, Repeat, Accept, AnswerLost, Refuse, WorkerRestarts, HourPasses
  <2> QED  BY <2>1, <2>2, <2>3, <2>4
<1>8. (trouble \in Nat)'
  <2>1. trouble' \in {trouble, trouble + 1}
    BY DEF Next, Working, Executing, Failing, vars, Trouble, Start, Feed, HoldBack, Call, Activity, Save, SaveFails,
           LookupFails, Repeat, Accept, Transfer, Record, AnswerLost, Refuse, WorkerRestarts, HourPasses
  <2> QED  BY <1>3, <2>1
<1> QED  BY <1>1, <1>2, <1>5, <1>6, <1>7, <1>8 DEF TypeInv, TypeOK, JobsOK

------------------------------------------------------------------------------
(***************************************************************************)
(* Calls and those who wait for them.                                      *)
(***************************************************************************)
\* Two calls have a caller in common only if it is one call, then and now.
LEMMA CallsKept ==
  ASSUME TypeInv, CallsInv,
         \A s \in Busy' : /\ s \in Busy /\ jobs'[s].req = jobs[s].req
                          /\ jobs'[s].caller \in {jobs[s].caller, Nobody},
         \A s \in Busy' : jobs'[s].caller # Nobody =>
           LET c == jobs[s].caller IN
           cycle'[c].at = cycle[c].at /\ cycle'[c].queue = cycle[c].queue /\ cycle'[c].i = cycle[c].i
  PROVE  CallsInv'
<1>1. ASSUME NEW s \in Busy', jobs'[s].caller # Nobody
      PROVE  (cycle[jobs[s].caller].at = "executor" /\ Current(jobs[s].caller) = jobs[s].req)'
  BY <1>1 DEF CallsInv, Current
<1>2. ASSUME NEW s \in Busy', NEW t \in Busy', jobs'[s].caller = jobs'[t].caller, jobs'[s].caller # Nobody
      PROVE  s = t
  BY <1>2 DEF CallsInv
<1> QED  BY <1>1, <1>2 DEF CallsInv

LEMMA CallsStep ==
  ASSUME TypeInv, CallsInv, [Next]_vars
  PROVE  CallsInv'
<1>1. /\ JobsOK /\ cycle \in [Cycles -> CycleType] /\ jobs \in [Slots -> JobType]
      /\ \A s \in Busy : s \in Slots
      /\ \A s \in Busy : jobs[s].caller # Nobody =>
           jobs[s].caller \in Cycles /\ cycle[jobs[s].caller].at = "executor"
  BY BusyJob DEF TypeInv, TypeOK, JobsOK, CallsInv
<1>2. ASSUME NEW c \in Cycles, UNCHANGED jobs, cycle[c].at # "executor",
             \E d : cycle' = [cycle EXCEPT ![c] = d]
      PROVE  CallsInv'
  <2>1. Busy' = Busy
    BY <1>2 DEF Busy
  <2>2. \A s \in Busy : jobs[s].caller # Nobody => cycle'[jobs[s].caller] = cycle[jobs[s].caller]
    BY <1>1, <1>2
  <2>3. \A s \in Busy' : jobs'[s] = jobs[s] /\ s \in Busy
    BY <1>2, <2>1
  <2> QED  BY <2>2, <2>3, CallsKept
<1>3. ASSUME NEW c \in Cycles,
             Start(c) \/ Feed(c) \/ HoldBack(c) \/ Activity(c) \/ Save(c) \/ LookupFails(c) \/ SaveFails(c)
      PROVE  CallsInv'
  <2>1. UNCHANGED jobs /\ cycle[c].at # "executor" /\ \E d : cycle' = [cycle EXCEPT ![c] = d]
    BY <1>3 DEF Start, Feed, HoldBack, Activity, Save, LookupFails, SaveFails
  <2> QED  BY <1>2, <2>1
<1>4. ASSUME NEW c \in Cycles, Call(c) PROVE CallsInv'
  <2> DEFINE job == [step |-> "posted", req |-> Current(c), caller |-> c, seen |-> {}]
  <2>1. PICK s \in Slots \ Busy : jobs' = [jobs EXCEPT ![s] = job]
    BY <1>4 DEF Call
  <2>2. job # Free /\ job.req = Current(c) /\ job.caller = c
    BY DEF Free
  <2> HIDE DEF job
  <2>3. /\ jobs'[s] = job /\ \A t \in Slots : t # s => jobs'[t] = jobs[t]
        /\ Busy' = Busy \cup {s}
    BY <1>1, <2>1, <2>2 DEF Busy
  <2>4. /\ cycle[c].at = "standing" /\ cycle'[c].at = "executor" /\ Current(c)' = Current(c)
        /\ \A b \in Cycles : b # c => cycle'[b] = cycle[b]
    <3>1. cycle[c].at = "standing" /\ cycle' = [cycle EXCEPT ![c] = [cycle[c] EXCEPT !.at = "executor"]]
      BY <1>4 DEF Call
    <3>2. CycleOK(cycle[c])
      BY DEF TypeInv
    <3> QED  BY <1>1, <3>1, <3>2, CallKeeps DEF Current
  <2>5. \A t \in Busy : jobs[t].caller # c
    BY <1>1, <2>4, PayoutsAssumption
  <2>6. ASSUME NEW t \in Busy', jobs'[t].caller # Nobody
        PROVE  (cycle[jobs[t].caller].at = "executor" /\ Current(jobs[t].caller) = jobs[t].req)'
    <3>1. CASE t = s
      BY <3>1, <2>2, <2>3, <2>4
    <3>2. CASE t # s
      <4>1. t \in Busy /\ jobs'[t] = jobs[t]
        BY <1>1, <2>3, <3>2
      <4> QED  BY <1>1, <2>4, <2>5, <2>6, <4>1 DEF CallsInv, Current
    <3> QED  BY <3>1, <3>2
  <2>7. ASSUME NEW t \in Busy', NEW u \in Busy', jobs'[t].caller = jobs'[u].caller, jobs'[t].caller # Nobody
        PROVE  t = u
    <3>1. \A v \in Busy' : v = s \/ (v \in Busy /\ jobs'[v] = jobs[v])
      BY <1>1, <2>3
    <3> QED  BY <2>2, <2>3, <2>5, <2>7, <3>1 DEF CallsInv
  <2> QED  BY <2>6, <2>7 DEF CallsInv
<1>5. ASSUME NEW s \in Slots, Repeat(s) \/ Record(s) \/ Refuse(s) PROVE CallsInv'
  <2>1. /\ s \in Busy /\ jobs' = [jobs EXCEPT ![s] = Free]
        /\ \/ cycle' = [c \in Cycles |-> Answered(s, c)]
           \/ cycle' = [c \in Cycles |-> Rejected(s, c)]
    BY <1>5 DEF Repeat, Record, Refuse, Busy
  <2>2. \A t \in Busy' : t \in Busy /\ t # s /\ jobs'[t] = jobs[t]
    BY <1>1, <2>1 DEF Busy
  <2>3. \A t \in Busy' : jobs[t].caller # Nobody => cycle'[jobs[t].caller] = cycle[jobs[t].caller]
    BY <1>1, <2>1, <2>2 DEF CallsInv, Answered, Rejected
  <2> QED  BY <2>2, <2>3, CallsKept
<1>6. ASSUME NEW s \in Slots, AnswerLost(s) PROVE CallsInv'
  <2>1. /\ s \in Busy /\ jobs' = [jobs EXCEPT ![s].caller = Nobody]
        /\ cycle' = [c \in Cycles |-> Rejected(s, c)]
    BY <1>6 DEF AnswerLost
  <2>2. jobs'[s].caller = Nobody /\ jobs'[s].req = jobs[s].req
    BY <1>1, <2>1, BusyJob
  <2>3. \A t \in Slots : t # s => jobs'[t] = jobs[t]
    BY <1>1, <2>1
  <2>4. \A t \in Busy' : t \in Busy
    BY <1>1, <2>1, <2>3 DEF Busy
  <2>5. \A t \in Busy' : t # s /\ jobs[t].caller # Nobody => cycle'[jobs[t].caller] = cycle[jobs[t].caller]
    BY <1>1, <2>1, <2>4 DEF CallsInv, Rejected
  <2>6. \A t \in Busy' : jobs'[t].req = jobs[t].req /\ jobs'[t].caller \in {jobs[t].caller, Nobody}
    BY <1>1, <2>2, <2>3, <2>4
  <2>7. \A t \in Busy' : jobs'[t].caller # Nobody => cycle'[jobs[t].caller] = cycle[jobs[t].caller]
    BY <1>1, <2>2, <2>3, <2>4, <2>5
  <2> QED  BY <2>4, <2>6, <2>7, CallsKept
<1>7. ASSUME NEW s \in Slots, Accept(s) \/ Transfer(s) PROVE CallsInv'
  <2>1. s \in Busy /\ UNCHANGED cycle
    BY <1>7 DEF Accept, Transfer, Busy
  <2>2. /\ \A t \in Slots : t # s => jobs'[t] = jobs[t]
        /\ jobs'[s].req = jobs[s].req /\ jobs'[s].caller = jobs[s].caller
    <3>1. CASE Accept(s)
      BY <1>1, <2>1, <3>1, BusyJob DEF Accept
    <3>2. CASE Transfer(s)
      BY <1>1, <2>1, <3>2, BusyJob DEF Transfer
    <3> QED  BY <1>7, <3>1, <3>2
  <2>3. \A t \in Busy' : t \in Busy
    BY <2>1, <2>2 DEF Busy
  <2> QED  BY <1>1, <2>1, <2>2, <2>3, CallsKept
<1>8. CASE WorkerRestarts
  <2>1. jobs' = [s \in Slots |-> IF s \in Busy THEN [jobs[s] EXCEPT !.caller = Nobody] ELSE Free]
    BY <1>8 DEF WorkerRestarts
  <2>2. \A s \in Busy' : s \in Busy
    BY <2>1 DEF Busy
  <2>3. \A s \in Busy' : jobs'[s].caller = Nobody
    BY <1>1, <2>1, <2>2, BusyJob
  <2> QED  BY <2>3 DEF CallsInv
<1>9. CASE HourPasses
  <2>1. UNCHANGED jobs /\ cycle' = [c \in Cycles |-> [cycle[c] EXCEPT !.fresh = FALSE]]
    BY <1>9 DEF HourPasses
  <2>2. \A c \in Cycles : cycle'[c].at = cycle[c].at /\ cycle'[c].queue = cycle[c].queue /\ cycle'[c].i = cycle[c].i
    BY <2>1, LivesOn DEF TypeInv
  <2>3. Busy' = Busy /\ \A s \in Busy : jobs'[s] = jobs[s]
    BY <2>1 DEF Busy
  <2> QED  BY <1>1, <2>2, <2>3, CallsKept
<1>10. CASE UNCHANGED vars
  BY <1>10 DEF vars, CallsInv, Busy, Current
<1> QED
  BY <1>3, <1>4, <1>5, <1>6, <1>7, <1>8, <1>9, <1>10 DEF Next, Working, Executing, Failing

LEMMA TypeInvInit ==
  ASSUME Init
  PROVE  TypeInv /\ CallsInv
<1>1. /\ Prepared \in Seq(Requests) /\ MaxRetries \in Nat \ {0}
  BY PayoutsAssumption
<1>2. queue \in Seq(Items) /\ Retriable(queue)
  <2>1. queue \in [1 .. Len(Prepared) -> Items] /\ \A k \in DOMAIN queue : queue[k].retries = 0
    BY <1>1 DEF Init, AsItems, Item, Items, Statuses
  <2> QED  BY <1>1, <2>1 DEF Retriable
<1>3. \A c \in Cycles : cycle[c] = Resting /\ CycleOK(cycle[c]) /\ cycle[c] \in CycleType
  BY RestingOK DEF Init, CycleOK
<1>4. cycle \in [Cycles -> CycleType]
  BY <1>3 DEF Init
<1>5. jobs \in [Slots -> JobType] /\ Busy = {}
  BY DEF Init, JobType, Busy
<1>6. sent \in [Requests -> Nat]
  BY DEF Init
<1> QED  BY <1>2, <1>3, <1>4, <1>5, <1>6 DEF Init, TypeInv, TypeOK, CallsInv

\* The types of the files, of what the cycles and the executor hold, and of the
\* counters: above all that no item is tried more often than MaxRetries.
THEOREM TypeCorrect == Spec => []TypeOK
<1>1. Init => TypeInv /\ CallsInv
  BY TypeInvInit
<1>2. TypeInv /\ CallsInv /\ [Next]_vars => (TypeInv /\ CallsInv)'
  BY TypeInvStep, CallsStep
<1>3. TypeInv => TypeOK
  BY DEF TypeInv
<1> QED  BY <1>1, <1>2, <1>3, PTL DEF Spec

------------------------------------------------------------------------------
(***************************************************************************)
(* Nothing is paid twice.                                                  *)
(***************************************************************************)
\* While the executor has one call at a time, what a call has read is what the
\* file still says, and what has been sent is on record or being confirmed.
OnceInv ==
  /\ \A s, t \in Busy : s = t
  /\ \A s \in Busy : jobs[s].step \in {"checked", "confirming"} =>
       jobs[s].seen = records /\ ~Known(jobs[s].req, records)
  /\ \A r \in Requests : sent[r] > 0 =>
       r \in records \/ \E s \in Busy : jobs[s].step = "confirming" /\ jobs[s].req = r
  /\ \A s \in Busy : jobs[s].step = "confirming" => sent[jobs[s].req] > 0
  /\ \A r \in records : sent[r] > 0
  /\ SentOnce

\* Callers come and go; the calls remain.
LEMMA OnceKept ==
  ASSUME OnceInv, UNCHANGED <<records, sent>>, Busy' = Busy,
         \A s \in Busy : jobs'[s].step = jobs[s].step /\ jobs'[s].req = jobs[s].req /\ jobs'[s].seen = jobs[s].seen
  PROVE  OnceInv'
BY DEF OnceInv, SentOnce

\* A call ends that has sent nothing.
LEMMA OnceEnded ==
  ASSUME OnceInv, UNCHANGED <<records, sent>>, NEW s \in Busy, jobs[s].step # "confirming", Busy' = {}
  PROVE  OnceInv'
<1>1. \A r \in Requests : sent[r] > 0 => r \in records
  BY DEF OnceInv
<1> QED  BY <1>1 DEF OnceInv, SentOnce

LEMMA OnceStep ==
  ASSUME ~Overlap, ~Unconfirmed, TypeInv, OnceInv, [Next]_vars
  PROVE  OnceInv'
<1>1. /\ JobsOK /\ jobs \in [Slots -> JobType] /\ records \in SUBSET Requests /\ sent \in [Requests -> Nat]
      /\ \A s \in Busy : s \in Slots
      /\ \A s \in Busy : jobs[s].req \in Requests
  BY BusyJob DEF TypeInv, TypeOK, JobsOK
<1>2. CASE UNCHANGED <<records, jobs, sent>>
  BY <1>2, OnceKept DEF Busy
<1>3. ASSUME NEW c \in Cycles,
             Start(c) \/ Feed(c) \/ HoldBack(c) \/ Activity(c) \/ Save(c) \/ LookupFails(c) \/ SaveFails(c)
      PROVE  UNCHANGED <<records, jobs, sent>>
  BY <1>3 DEF Start, Feed, HoldBack, Activity, Save, LookupFails, SaveFails, chainVars
<1>4. ASSUME NEW c \in Cycles, Call(c) PROVE OnceInv'
  <2> DEFINE job == [step |-> "posted", req |-> Current(c), caller |-> c, seen |-> {}]
  <2>1. Busy = {} /\ UNCHANGED <<records, sent>>
    BY <1>4 DEF Call, chainVars
  <2>2. PICK s \in Slots \ Busy : jobs' = [jobs EXCEPT ![s] = job]
    BY <1>4 DEF Call
  <2>3. job.step = "posted"
    OBVIOUS
  <2> HIDE DEF job
  <2>4. jobs'[s] = job /\ Busy' \subseteq {s}
    BY <1>1, <2>1, <2>2 DEF Busy
  <2>5. \A t \in Busy' : jobs'[t].step = "posted"
    BY <2>3, <2>4
  <2> QED  BY <2>1, <2>4, <2>5 DEF OnceInv, SentOnce
<1>5. ASSUME NEW s \in Slots, Repeat(s) \/ Refuse(s) PROVE OnceInv'
  <2>1. /\ s \in Busy /\ jobs' = [jobs EXCEPT ![s] = Free] /\ UNCHANGED <<records, sent>>
        /\ jobs[s].step # "confirming"
    BY <1>5 DEF Repeat, Refuse, Undone, Busy, chainVars
  <2>2. Busy' = {}
    BY <1>1, <2>1 DEF OnceInv, Busy
  <2> QED  BY <2>1, <2>2, OnceEnded
<1>6. ASSUME NEW s \in Slots, Record(s) PROVE OnceInv'
  <2>1. /\ s \in Busy /\ jobs[s].step = "confirming" /\ jobs' = [jobs EXCEPT ![s] = Free] /\ UNCHANGED sent
        /\ records' = jobs[s].seen \cup {jobs[s].req}
    BY <1>6 DEF Record, Noted, Busy, chainVars
  <2>2. Busy' = {} /\ \A t \in Busy : t = s
    BY <1>1, <2>1 DEF OnceInv, Busy
  <2>3. records' = records \cup {jobs[s].req} /\ sent[jobs[s].req] > 0
    BY <2>1 DEF OnceInv
  <2> QED  BY <2>1, <2>2, <2>3 DEF OnceInv, SentOnce
<1>7. ASSUME NEW s \in Slots, Accept(s) PROVE OnceInv'
  <2>1. /\ s \in Busy /\ jobs' = [jobs EXCEPT ![s].step = "checked", ![s].seen = records]
        /\ jobs[s].step = "posted" /\ ~Known(jobs[s].req, records) /\ UNCHANGED <<records, sent>>
    BY <1>7 DEF Accept, Recorded, Busy, chainVars
  <2>2. jobs'[s].step = "checked" /\ jobs'[s].req = jobs[s].req /\ jobs'[s].seen = records
    BY <1>1, <2>1, BusyJob
  <2>3. Busy' \subseteq {s} /\ \A t \in Busy : t = s
    BY <1>1, <2>1 DEF OnceInv, Busy
  <2>4. \A r \in Requests : sent[r] > 0 => r \in records
    BY <2>1, <2>3 DEF OnceInv
  <2>5. (\A t, u \in Busy : t = u)'
    BY <2>3
  <2>6. (\A t \in Busy : jobs[t].step \in {"checked", "confirming"} =>
          jobs[t].seen = records /\ ~Known(jobs[t].req, records))'
    BY <2>1, <2>2, <2>3 DEF Known
  <2>7. (\A t \in Busy : jobs[t].step = "confirming" => sent[jobs[t].req] > 0)'
    BY <2>2, <2>3
  <2> QED  BY <2>1, <2>4, <2>5, <2>6, <2>7 DEF OnceInv, SentOnce
<1>8. ASSUME NEW s \in Slots, Transfer(s) PROVE OnceInv'
  <2> DEFINE p == jobs[s].req
  <2>1. /\ s \in Busy /\ jobs' = [jobs EXCEPT ![s].step = "confirming"] /\ jobs[s].step = "checked"
        /\ sent' = [sent EXCEPT ![p] = sent[p] + 1] /\ UNCHANGED records
    BY <1>8 DEF Transfer, Busy
  <2>2. jobs'[s].step = "confirming" /\ jobs'[s].req = p /\ jobs'[s].seen = jobs[s].seen /\ jobs'[s] # Free
    BY <1>1, <2>1, BusyJob DEF Free
  <2>3. Busy' = {s} /\ \A t \in Busy : t = s
    BY <1>1, <2>1, <2>2 DEF OnceInv, Busy
  <2>4. p \in Requests /\ jobs[s].seen = records /\ ~Known(p, records)
    BY <1>1, <2>1 DEF OnceInv
  <2>5. \A r \in Requests : sent[r] > 0 => r \in records
    BY <2>1, <2>3 DEF OnceInv
  <2>6. /\ sent[p] = 0 /\ sent'[p] = 1
        /\ \A r \in Requests : r # p => sent'[r] = sent[r]
    <3>1. p \notin records
      BY <2>4 DEF Known
    <3>2. sent[p] \in Nat /\ ~(sent[p] > 0)
      BY <1>1, <2>4, <2>5, <3>1
    <3> QED  BY <1>1, <2>1, <2>4, <3>2
  <2>7. \A r \in Requests : r # p /\ sent'[r] > 0 => r.ref # p.ref
    BY <2>4, <2>5, <2>6 DEF Known
  <2>8. SentOnce'
    <3> SUFFICES ASSUME NEW r \in Requests, NEW q \in Requests, r.ref = q.ref, sent'[r] > 0, sent'[q] > 0
                 PROVE  r = q /\ sent'[r] = 1
      BY DEF SentOnce
    <3>1. CASE r = p \/ q = p
      BY <2>6, <2>7, <3>1
    <3>2. CASE r # p /\ q # p
      BY <2>6, <3>2 DEF OnceInv, SentOnce
    <3> QED  BY <3>1, <3>2
  <2>9. (\A r \in records : sent[r] > 0)'
    BY <1>1, <2>1, <2>4, <2>6 DEF OnceInv, Known
  <2>10. (\A r \in Requests : sent[r] > 0 =>
            r \in records \/ \E t \in Busy : jobs[t].step = "confirming" /\ jobs[t].req = r)'
    BY <2>1, <2>2, <2>3, <2>5, <2>6
  <2>11. (\A t \in Busy : jobs[t].step \in {"checked", "confirming"} =>
            jobs[t].seen = records /\ ~Known(jobs[t].req, records))'
    BY <2>1, <2>2, <2>3, <2>4 DEF Known
  <2>12. (\A t \in Busy : jobs[t].step = "confirming" => sent[jobs[t].req] > 0)'
    BY <2>2, <2>3, <2>6
  <2>13. (\A t, u \in Busy : t = u)'
    BY <2>3
  <2> QED  BY <2>8, <2>9, <2>10, <2>11, <2>12, <2>13 DEF OnceInv
<1>9. ASSUME NEW s \in Slots, AnswerLost(s) PROVE OnceInv'
  <2>1. s \in Busy /\ jobs' = [jobs EXCEPT ![s].caller = Nobody] /\ UNCHANGED <<records, sent>>
    BY <1>9 DEF AnswerLost, chainVars
  <2>2. /\ jobs'[s].step = jobs[s].step /\ jobs'[s].req = jobs[s].req /\ jobs'[s].seen = jobs[s].seen
        /\ jobs'[s] # Free
    BY <1>1, <2>1, BusyJob DEF Free
  <2>3. \A t \in Slots : t # s => jobs'[t] = jobs[t]
    BY <1>1, <2>1
  <2>4. Busy' = Busy
    BY <1>1, <2>1, <2>2, <2>3 DEF Busy
  <2> QED  BY <1>1, <2>1, <2>2, <2>3, <2>4, OnceKept
<1>10. CASE WorkerRestarts
  <2>1. /\ jobs' = [s \in Slots |-> IF s \in Busy THEN [jobs[s] EXCEPT !.caller = Nobody] ELSE Free]
        /\ UNCHANGED <<records, sent>>
    BY <1>10 DEF WorkerRestarts, chainVars
  <2>2. \A s \in Busy : /\ jobs'[s].step = jobs[s].step /\ jobs'[s].req = jobs[s].req
                        /\ jobs'[s].seen = jobs[s].seen /\ jobs'[s] # Free
    BY <1>1, <2>1, BusyJob DEF Free
  <2>3. Busy' = Busy
    BY <1>1, <2>1, <2>2 DEF Busy
  <2> QED  BY <2>1, <2>2, <2>3, OnceKept
<1>11. CASE HourPasses \/ UNCHANGED vars
  <2>1. UNCHANGED <<records, jobs, sent>>
    BY <1>11 DEF HourPasses, vars, chainVars
  <2> QED  BY <1>2, <2>1
<1> QED
  BY <1>2, <1>3, <1>4, <1>5, <1>6, <1>7, <1>8, <1>9, <1>10, <1>11 DEF Next, Working, Executing, Failing

LEMMA OnceInit ==
  ASSUME Init
  PROVE  OnceInv
<1>1. Busy = {} /\ records = {} /\ \A r \in Requests : sent[r] = 0
  BY DEF Init, Busy
<1> QED  BY <1>1 DEF OnceInv, SentOnce

\* If calls do not overlap and no transfer goes unconfirmed, no swap is paid for
\* twice, however often the worker is restarted, is not answered or forgets, and
\* however many cycles it runs at once.
THEOREM PaidOnce ==
  ASSUME ~Overlap, ~Unconfirmed
  PROVE  Spec => []SentOnce
<1>1. Init => TypeInv /\ CallsInv /\ OnceInv
  BY TypeInvInit, OnceInit
<1>2. TypeInv /\ CallsInv /\ OnceInv /\ [Next]_vars => (TypeInv /\ CallsInv /\ OnceInv)'
  BY TypeInvStep, CallsStep, OnceStep
<1>3. OnceInv => SentOnce
  BY DEF OnceInv
<1> QED  BY <1>1, <1>2, <1>3, PTL DEF Spec

------------------------------------------------------------------------------
(***************************************************************************)
(* One cycle at a time: reports stay.                                      *)
(***************************************************************************)
\* The timer starts no cycle while another runs.
Single == \A c, d \in Cycles : c = d

\* What a cycle has in memory is a later version of the file.
FileInv == \A c \in Cycles : cycle[c].at # "resting" => Extends(queue, cycle[c].queue)

\* The file becomes what a cycle has, or stays, and a cycle that saves rests.
LEMMA QueueStep ==
  ASSUME [Next]_vars
  PROVE  \/ UNCHANGED queue
         \/ \E c \in Cycles : /\ cycle[c].at = "saving" /\ queue' = cycle[c].queue
                              /\ cycle' = [cycle EXCEPT ![c] = Resting]
                              /\ UNCHANGED <<jobs, sent>>
<1>1. ASSUME NEW c \in Cycles, Save(c) \/ SaveFails(c)
      PROVE  UNCHANGED queue \/ (/\ cycle[c].at = "saving" /\ queue' = cycle[c].queue
                                 /\ cycle' = [cycle EXCEPT ![c] = Resting]
                                 /\ UNCHANGED <<jobs, sent>>)
  BY <1>1 DEF Save, SaveFails, SavedQueue, chainVars
<1>2. ASSUME ~ \E c \in Cycles : Save(c) \/ SaveFails(c) PROVE UNCHANGED queue
  BY <1>2 DEF Next, Working, Executing, Failing, vars, fileVars, Start, Feed, HoldBack, Call, Activity,
              LookupFails, Repeat, Accept, Transfer, Record, AnswerLost, Refuse, WorkerRestarts, HourPasses
<1> QED  BY <1>1, <1>2

LEMMA FileStep ==
  ASSUME Single, TypeInv, CallsInv, FileInv, [Next]_vars
  PROVE  FileInv' /\ Extends(queue, queue')
<1>1. /\ cycle \in [Cycles -> CycleType] /\ queue \in Seq(Items)
      /\ \A c \in Cycles : CycleOK(cycle[c]) /\ cycle[c].queue \in Seq(Items)
  BY DEF TypeInv, TypeOK, CycleOK, CycleType
<1>2. CyclesStep
  BY NextCyclesStep
<1>3. CASE UNCHANGED queue
  <2>1. Extends(queue, queue')
    BY <1>1, <1>3 DEF Extends
  <2>2. ASSUME NEW c \in Cycles, cycle'[c].at # "resting" PROVE Extends(queue, cycle'[c].queue)
    <3>1. CycleStep(c)
      BY <1>2 DEF CyclesStep
    <3>2. cycle'[c].queue \in Seq(Items)
      BY <3>1 DEF CycleStep, CycleOK, CycleType
    <3>3. CASE cycle'[c].queue = queue
      BY <1>3, <2>1, <3>3
    <3>4. CASE cycle[c].at # "resting" /\ Extends(cycle[c].queue, cycle'[c].queue)
      BY <1>1, <3>2, <3>4, ExtendsTwice DEF FileInv
    <3>5. CASE cycle'[c] = Paid(cycle[c]) /\ cycle[c].at = "executor"
      BY <1>1, <3>4, <3>5, PaidKeeps
    <3> QED  BY <2>2, <3>1, <3>3, <3>4, <3>5 DEF CycleStep, Lives
  <2> QED  BY <1>3, <2>1, <2>2 DEF FileInv
<1>4. ASSUME NEW c \in Cycles, cycle[c].at = "saving", queue' = cycle[c].queue,
             cycle' = [cycle EXCEPT ![c] = Resting]
      PROVE  FileInv' /\ Extends(queue, queue')
  <2>1. Extends(queue, queue')
    BY <1>4 DEF FileInv
  <2>2. \A d \in Cycles : cycle'[d].at = "resting"
    BY <1>1, <1>4 DEF Single, Resting
  <2> QED  BY <2>1, <2>2 DEF FileInv
<1> QED  BY <1>3, <1>4, QueueStep

LEMMA FileInit ==
  ASSUME Init
  PROVE  FileInv
BY DEF Init, FileInv, Resting

\* With one cycle at a time, what the queue file reports as paid, failed or a
\* duplicate stays so, and no item leaves the file.
THEOREM ReportsStay ==
  ASSUME Single
  PROVE  Spec => StatusFinal
<1> DEFINE I == TypeInv /\ CallsInv /\ FileInv
           Goal == /\ Len(queue) <= Len(queue')
                   /\ \A k \in DOMAIN queue :
                        /\ queue'[k].req = queue[k].req
                        /\ queue[k].status # "pending" => queue'[k] = queue[k]
<1>1. Init => I
  BY TypeInvInit, FileInit
<1>2. I /\ [Next]_vars => I'
  BY TypeInvStep, CallsStep, FileStep
<1>3. I /\ [Next]_vars => [Goal]_vars
  BY FileStep DEF Extends
<1> HIDE DEF I, Goal
<1>4. Spec => [][Goal]_vars
  BY <1>1, <1>2, <1>3, PTL DEF Spec
<1> QED  BY <1>4 DEF Goal, StatusFinal

------------------------------------------------------------------------------
(***************************************************************************)
(* Whatever overlaps or goes unconfirmed: what is counted as paid was sent.*)
(***************************************************************************)
\* What a list reports as paid has been sent.
PaidSent(f, items) ==
  \A k \in DOMAIN items : items[k].status = "paid" =>
    \E r \in Requests : r.ref = items[k].req.ref /\ f[r] > 0

PaidInv ==
  /\ PaidSent(sent, queue)
  /\ \A c \in Cycles : cycle[c].at # "resting" => PaidSent(sent, cycle[c].queue)

\* What a call has read, and what it confirms, has been sent.
JobTraced(f, j) ==
  /\ \A r \in j.seen : f[r] > 0
  /\ j.step = "confirming" => f[j.req] > 0

TracedInv ==
  /\ \A r \in records : sent[r] > 0
  /\ \A s \in Busy : JobTraced(sent, jobs[s])

\* What the worker takes for processed has been sent, as the one or the other
\* request of its swap.
Counted(f, S) == \A r \in S : \E q \in Requests : q.ref = r.ref /\ f[q] > 0

CountedInv ==
  /\ Counted(sent, done)
  /\ \A c \in Cycles : cycle[c].at # "resting" => Counted(sent, cycle[c].done)

\* Nothing that has been sent is taken back.
Grows(f, g) == \A r \in Requests : f[r] > 0 => g[r] > 0

LEMMA SentStep ==
  ASSUME TypeInv, [Next]_vars
  PROVE  \/ UNCHANGED sent
         \/ \E s \in Slots : Transfer(s) /\ s \in Busy /\ jobs[s].req \in Requests
<1>1. ASSUME NEW s \in Slots, Transfer(s) PROVE s \in Busy /\ jobs[s].req \in Requests
  <2>1. s \in Busy /\ JobsOK
    BY <1>1 DEF Transfer, Busy, TypeInv, TypeOK, JobsOK
  <2> QED  BY <2>1, BusyJob
<1>2. ASSUME ~ \E s \in Slots : Transfer(s) PROVE UNCHANGED sent
  BY <1>2 DEF Next, Working, Executing, Failing, vars, chainVars, Start, Feed, HoldBack, Call, Activity, Save,
              SaveFails, LookupFails, Repeat, Accept, Record, AnswerLost, Refuse, WorkerRestarts, HourPasses
<1> QED  BY <1>1, <1>2

LEMMA SentGrows ==
  ASSUME TypeInv, [Next]_vars
  PROVE  Grows(sent, sent')
<1>1. sent \in [Requests -> Nat]
  BY DEF TypeInv, TypeOK
<1>2. ASSUME NEW s \in Slots, Transfer(s), jobs[s].req \in Requests
      PROVE  Grows(sent, sent')
  BY <1>1, <1>2 DEF Transfer, Grows
<1> QED  BY <1>2, SentStep DEF Grows

\* A later version of a list of paid items in which nothing else is paid.
LEMMA PaidSentKept ==
  ASSUME NEW old, NEW new, NEW f, NEW g, PaidSent(f, old), Extends(old, new), OnlyPaid(old, new), Grows(f, g)
  PROVE  PaidSent(g, new)
BY DEF PaidSent, Extends, OnlyPaid, Grows

LEMMA PaidStep ==
  ASSUME TypeInv, CallsInv, TracedInv, PaidInv, [Next]_vars
  PROVE  PaidInv'
<1>1. /\ cycle \in [Cycles -> CycleType] /\ queue \in Seq(Items)
      /\ \A c \in Cycles : CycleOK(cycle[c]) /\ cycle[c].queue \in Seq(Items)
      /\ records \in SUBSET Requests
  BY DEF TypeInv, TypeOK, CycleOK, CycleType
<1>2. CyclesStep /\ Grows(sent, sent')
  BY NextCyclesStep, SentGrows
<1>3. PaidSent(sent', queue)
  BY <1>2 DEF PaidInv, PaidSent, Grows
<1>4. \A c \in Cycles : cycle[c].at # "resting" => PaidSent(sent', cycle[c].queue)
  BY <1>2 DEF PaidInv, PaidSent, Grows
<1>5. PaidSent(sent', queue')
  <2>1. CASE UNCHANGED queue
    BY <1>3, <2>1
  <2>2. ASSUME NEW c \in Cycles, cycle[c].at = "saving", queue' = cycle[c].queue PROVE PaidSent(sent', queue')
    BY <1>4, <2>2
  <2> QED  BY <2>1, <2>2, QueueStep
<1>6. ASSUME NEW c \in Cycles, cycle'[c].at # "resting" PROVE PaidSent(sent', cycle'[c].queue)
  <2> DEFINE q == cycle'[c].queue
  <2>1. CycleStep(c)
    BY <1>2 DEF CyclesStep
  <2>2. CASE q = queue
    BY <1>3, <2>2
  <2>3. CASE Lives(cycle[c], cycle'[c])
    BY <1>2, <2>3, PaidSentKept DEF Lives, PaidInv
  <2>4. ASSUME cycle'[c] = Paid(cycle[c]), cycle[c].at = "executor",
               NEW s \in Busy, jobs[s].caller = c, Repeat(s) \/ Record(s)
        PROVE  PaidSent(sent', q)
    <3>1. Current(c) = jobs[s].req /\ jobs[s].req \in Requests
      BY <2>4, BusyJob, PayoutsAssumption DEF CallsInv, TypeInv, TypeOK, JobsOK
    <3>2. \E r \in Requests : r.ref = jobs[s].req.ref /\ sent[r] > 0
      <4>1. CASE Record(s)
        <5>1. s \in Busy /\ jobs[s].step = "confirming"
          BY <2>4, <4>1 DEF Record
        <5> QED  BY <3>1, <5>1 DEF TracedInv, JobTraced
      <4>2. CASE Repeat(s)
        <5>1. PICK r \in records : r.id = jobs[s].req.id \/ r.ref = jobs[s].req.ref
          BY <4>2 DEF Repeat, Recorded, Known
        <5>2. r \in Requests /\ r.ref = jobs[s].req.ref /\ sent[r] > 0
          BY <1>1, <3>1, <5>1, PayoutsAssumption DEF TracedInv
        <5> QED  BY <5>2
      <4> QED  BY <2>4, <4>1, <4>2
    <3>3. \E r \in Requests : r.ref = jobs[s].req.ref /\ sent'[r] > 0
      BY <1>2, <3>2 DEF Grows
    <3>4. /\ DOMAIN q = DOMAIN cycle[c].queue
          /\ \A k \in DOMAIN q : k # cycle[c].i => q[k] = cycle[c].queue[k]
          /\ q[cycle[c].i].req = jobs[s].req
      BY <1>1, <2>4, <3>1, PaidKeeps DEF Current
    <3>5. PaidSent(sent', cycle[c].queue)
      BY <1>4, <2>4
    <3> HIDE DEF q
    <3>6. ASSUME NEW k \in DOMAIN q, q[k].status = "paid"
          PROVE  \E r \in Requests : r.ref = q[k].req.ref /\ sent'[r] > 0
      <4>1. CASE k = cycle[c].i
        BY <3>3, <3>4, <4>1
      <4>2. CASE k # cycle[c].i
        BY <3>4, <3>5, <3>6, <4>2 DEF PaidSent
      <4> QED  BY <4>1, <4>2
    <3> QED  BY <3>6 DEF PaidSent
  <2> QED  BY <1>6, <2>1, <2>2, <2>3, <2>4 DEF CycleStep
<1> QED  BY <1>5, <1>6 DEF PaidInv

LEMMA TracedKept ==
  ASSUME TypeInv, NEW j \in JobType, j # Free, NEW i \in JobType, i # Free, NEW f, NEW g,
         Grows(f, g), JobTraced(f, j),
         i.seen = j.seen, i.req = j.req, i.step = j.step \/ (i.step = "confirming" => g[i.req] > 0)
  PROVE  JobTraced(g, i)
BY DEF JobTraced, Grows, JobType

\* What becomes of a call.
LEMMA JobMoves ==
  ASSUME TypeInv, [Next]_vars, NEW t \in Slots, jobs'[t] # Free
  PROVE  \/ jobs'[t].step = "posted" /\ jobs'[t].seen = {}
         \/ Accept(t) /\ t \in Busy /\ jobs'[t].step = "checked" /\ jobs'[t].seen = records
         \/ /\ t \in Busy
            /\ jobs'[t].req = jobs[t].req /\ jobs'[t].seen = jobs[t].seen
            /\ \/ jobs'[t].step = jobs[t].step
               \/ Transfer(t) /\ jobs'[t].step = "confirming"
<1> DEFINE Same == t \in Busy /\ jobs'[t].req = jobs[t].req /\ jobs'[t].seen = jobs[t].seen
                   /\ jobs'[t].step = jobs[t].step
           New == jobs'[t].step = "posted" /\ jobs'[t].seen = {}
           Goal == \/ New \/ Same
                   \/ Accept(t) /\ t \in Busy /\ jobs'[t].step = "checked" /\ jobs'[t].seen = records
                   \/ /\ t \in Busy /\ jobs'[t].req = jobs[t].req /\ jobs'[t].seen = jobs[t].seen
                      /\ Transfer(t) /\ jobs'[t].step = "confirming"
<1> SUFFICES Goal
  OBVIOUS
<1>1. JobsOK /\ jobs \in [Slots -> JobType]
  BY DEF TypeInv, TypeOK, JobsOK
<1>2. jobs'[t] = jobs[t] => Same
  BY DEF Busy
<1>3. CASE UNCHANGED jobs
  BY <1>2, <1>3
<1>4. ASSUME NEW c \in Cycles, Call(c) PROVE New \/ Same
  <2>1. PICK s \in Slots \ Busy :
          jobs' = [jobs EXCEPT ![s] = [step |-> "posted", req |-> Current(c), caller |-> c, seen |-> {}]]
    BY <1>4 DEF Call
  <2>2. CASE s = t
    BY <1>1, <2>1, <2>2
  <2>3. CASE s # t
    BY <1>1, <1>2, <2>1, <2>3
  <2> QED  BY <2>2, <2>3
<1>5. ASSUME NEW s \in Slots, Repeat(s) \/ Record(s) \/ Refuse(s) PROVE Same
  <2>1. jobs' = [jobs EXCEPT ![s] = Free]
    BY <1>5 DEF Repeat, Record, Refuse
  <2> QED  BY <1>1, <1>2, <2>1
<1>6. ASSUME NEW s \in Slots, Accept(s) PROVE Goal
  <2>1. s \in Busy /\ jobs' = [jobs EXCEPT ![s].step = "checked", ![s].seen = records]
    BY <1>6 DEF Accept, Busy
  <2>2. CASE s = t
    BY <1>1, <1>6, <2>1, <2>2, BusyJob
  <2>3. CASE s # t
    BY <1>1, <1>2, <2>1, <2>3
  <2> QED  BY <2>2, <2>3
<1>7. ASSUME NEW s \in Slots, Transfer(s) PROVE Goal
  <2>1. s \in Busy /\ jobs' = [jobs EXCEPT ![s].step = "confirming"]
    BY <1>7 DEF Transfer, Busy
  <2>2. CASE s = t
    BY <1>1, <1>7, <2>1, <2>2, BusyJob
  <2>3. CASE s # t
    BY <1>1, <1>2, <2>1, <2>3
  <2> QED  BY <2>2, <2>3
<1>8. ASSUME NEW s \in Slots, AnswerLost(s) PROVE Same
  <2>1. s \in Busy /\ jobs' = [jobs EXCEPT ![s].caller = Nobody]
    BY <1>8 DEF AnswerLost
  <2>2. CASE s = t
    BY <1>1, <2>1, <2>2, BusyJob
  <2>3. CASE s # t
    BY <1>1, <1>2, <2>1, <2>3
  <2> QED  BY <2>2, <2>3
<1>9. CASE WorkerRestarts
  <2>1. jobs' = [s \in Slots |-> IF s \in Busy THEN [jobs[s] EXCEPT !.caller = Nobody] ELSE Free]
    BY <1>9 DEF WorkerRestarts
  <2>2. t \in Busy /\ jobs'[t] = [jobs[t] EXCEPT !.caller = Nobody]
    BY <2>1
  <2> QED  BY <1>1, <2>2, BusyJob
<1>10. ASSUME NEW c \in Cycles,
              Start(c) \/ Feed(c) \/ HoldBack(c) \/ Activity(c) \/ Save(c) \/ LookupFails(c) \/ SaveFails(c)
       PROVE  UNCHANGED jobs
  BY <1>10 DEF Start, Feed, HoldBack, Activity, Save, LookupFails, SaveFails
<1>11. CASE HourPasses
  BY <1>3, <1>11 DEF HourPasses
<1>12. CASE UNCHANGED vars
  BY <1>3, <1>12 DEF vars
<1> HIDE DEF Same, New
<1> QED
  BY <1>3, <1>4, <1>5, <1>6, <1>7, <1>8, <1>9, <1>10, <1>11, <1>12 DEF Next, Working, Executing, Failing

LEMMA TracedStep ==
  ASSUME TypeInv, TracedInv, [Next]_vars
  PROVE  TracedInv'
<1>1. JobsOK /\ JobsOK' /\ Grows(sent, sent') /\ sent \in [Requests -> Nat] /\ records \in SUBSET Requests
  BY JobsStep, SentGrows DEF TypeInv, TypeOK, JobsOK
<1>2. \A s \in Busy : /\ jobs[s].req \in Requests /\ jobs[s].seen \in SUBSET Requests
                      /\ \A r \in jobs[s].seen : sent'[r] > 0
                      /\ jobs[s].step = "confirming" => sent'[jobs[s].req] > 0
  BY <1>1, BusyJob DEF TracedInv, JobTraced, Grows
<1>3. \A r \in records : sent'[r] > 0
  BY <1>1 DEF TracedInv, Grows
<1>4. \A r \in records' : sent'[r] > 0
  <2>1. ASSUME NEW s \in Slots, Record(s) PROVE \A r \in records' : sent'[r] > 0
    <3>1. s \in Busy /\ jobs[s].step = "confirming" /\ records' = jobs[s].seen \cup {jobs[s].req}
      BY <2>1 DEF Record, Noted, Busy
    <3> QED  BY <1>2, <3>1
  <2>2. ASSUME ~ \E s \in Slots : Record(s) PROVE records' = records
    BY <2>2 DEF Next, Working, Executing, Failing, vars, Start, Feed, HoldBack, Call, Activity, Save, SaveFails,
           LookupFails, Repeat, Accept, Transfer, AnswerLost, Refuse, WorkerRestarts, HourPasses
  <2> QED  BY <1>3, <2>1, <2>2
<1>5. ASSUME NEW t \in Slots, jobs'[t] # Free PROVE JobTraced(sent', jobs'[t])
  <2>1. ASSUME Transfer(t) PROVE sent'[jobs[t].req] > 0
    <3>1. t \in Busy /\ sent' = [sent EXCEPT ![jobs[t].req] = sent[jobs[t].req] + 1]
      BY <2>1 DEF Transfer, Busy
    <3>2. jobs[t].req \in Requests /\ sent[jobs[t].req] \in Nat
      BY <1>1, <1>2, <3>1
    <3> QED  BY <1>1, <3>1, <3>2
  <2> QED  BY <1>2, <1>3, <1>5, <2>1, JobMoves DEF JobTraced
<1> QED  BY <1>4, <1>5 DEF TracedInv, Busy

\* What becomes of the requests that a cycle takes for processed.
LEMMA DoneMoves ==
  ASSUME TypeInv, CallsInv, [Next]_vars, NEW c \in Cycles, cycle'[c].at # "resting"
  PROVE  \/ cycle'[c].done = done
         \/ cycle[c].at # "resting" /\ cycle'[c].done = cycle[c].done
         \/ cycle[c].at = "activity" /\ cycle'[c].done = cycle[c].done \cup {Current(c)}
<1> DEFINE Same == cycle[c].at # "resting" /\ cycle'[c].done = cycle[c].done
           Goal == \/ cycle'[c].done = done \/ Same
                   \/ cycle[c].at = "activity" /\ cycle'[c].done = cycle[c].done \cup {Current(c)}
<1> SUFFICES Goal
  OBVIOUS
<1>1. cycle \in [Cycles -> CycleType] /\ JobsOK
  BY DEF TypeInv, TypeOK, JobsOK
<1>2. cycle'[c] = cycle[c] => Same
  OBVIOUS
<1>3. ASSUME NEW x \in CycleType PROVE GoOn(x).done = x.done
  BY DEF GoOn, CycleType
<1>4. ASSUME NEW d \in Cycles, Start(d) PROVE Goal
  BY <1>1, <1>2, <1>4 DEF Start
<1>5. ASSUME NEW d \in Cycles, Feed(d) PROVE Goal
  <2>1. PICK items : cycle' = [cycle EXCEPT ![d] = GoOn([cycle[d] EXCEPT !.queue = items])]
    BY <1>5 DEF Feed
  <2>2. GoOn([cycle[d] EXCEPT !.queue = items]).done = cycle[d].done
    BY <1>1 DEF GoOn, CycleType
  <2>3. cycle[d].at # "resting"
    BY <1>5 DEF Feed
  <2> QED  BY <1>1, <1>2, <2>1, <2>2, <2>3
<1>6. ASSUME NEW d \in Cycles, HoldBack(d) \/ LookupFails(d) PROVE Goal
  <2>1. cycle' = [cycle EXCEPT ![d] = GoOn(cycle[d])] /\ cycle[d].at # "resting"
    BY <1>6 DEF HoldBack, LookupFails
  <2> QED  BY <1>1, <1>2, <1>3, <2>1
<1>7. ASSUME NEW d \in Cycles, Call(d) PROVE Goal
  <2>1. cycle' = [cycle EXCEPT ![d].at = "executor"] /\ cycle[d].at # "resting"
    BY <1>7 DEF Call
  <2> QED  BY <1>1, <1>2, <2>1 DEF CycleType
<1>8. ASSUME NEW d \in Cycles, Activity(d) PROVE Goal
  <2> DEFINE S == cycle[d].done \cup {Current(d)}
  <2>1. PICK n : cycle' = [cycle EXCEPT ![d] = GoOn([cycle[d] EXCEPT !.done = S, !.total = n])]
    BY <1>8 DEF Activity
  <2>2. GoOn([cycle[d] EXCEPT !.done = S, !.total = n]).done = S
    BY <1>1 DEF GoOn, CycleType
  <2>3. cycle[d].at = "activity"
    BY <1>8 DEF Activity
  <2> QED  BY <1>1, <1>2, <2>1, <2>2, <2>3
<1>9. ASSUME NEW d \in Cycles, Save(d) \/ SaveFails(d) PROVE Goal
  <2>1. cycle' = [cycle EXCEPT ![d] = Resting]
    BY <1>9 DEF Save, SaveFails
  <2> QED  BY <1>1, <1>2, <2>1 DEF Resting
<1>10. ASSUME NEW s \in Slots, Repeat(s) \/ Record(s) PROVE Goal
  <2>1. cycle'[c] = Answered(s, c) /\ s \in Busy
    BY <1>10 DEF Repeat, Record, Busy
  <2>2. ASSUME c = jobs[s].caller PROVE Same
    <3>1. cycle[c].at # "resting"
      BY <2>1, <2>2, PayoutsAssumption DEF CallsInv
    <3>2. cycle'[c] = Paid(cycle[c])
      BY <2>1, <2>2 DEF Answered
    <3> QED  BY <1>1, <3>1, <3>2 DEF Paid, CycleType
  <2> QED  BY <1>2, <2>1, <2>2 DEF Answered
<1>11. ASSUME NEW s \in Slots, AnswerLost(s) \/ Refuse(s) PROVE Goal
  <2>1. cycle'[c] = Rejected(s, c) /\ s \in Busy
    BY <1>11 DEF AnswerLost, Refuse, Busy
  <2>2. ASSUME c = jobs[s].caller PROVE Same
    <3>1. cycle[c].at # "resting"
      BY <2>1, <2>2, PayoutsAssumption DEF CallsInv
    <3>2. cycle'[c] = Retried(cycle[c])
      BY <2>1, <2>2 DEF Rejected
    <3>3. PICK items : Retried(cycle[c]) = GoOn([cycle[c] EXCEPT !.queue = items])
      BY DEF Retried
    <3>4. GoOn([cycle[c] EXCEPT !.queue = items]).done = cycle[c].done
      BY <1>1 DEF GoOn, CycleType
    <3> QED  BY <3>1, <3>2, <3>3, <3>4
  <2> QED  BY <1>2, <2>1, <2>2 DEF Rejected
<1>12. CASE WorkerRestarts
  BY <1>12 DEF WorkerRestarts, Resting
<1>13. CASE HourPasses
  <2>1. cycle'[c] = [cycle[c] EXCEPT !.fresh = FALSE]
    BY <1>13 DEF HourPasses
  <2> QED  BY <1>1, <2>1 DEF CycleType
<1>14. ASSUME NEW s \in Slots, Accept(s) \/ Transfer(s) PROVE Goal
  BY <1>2, <1>14 DEF Accept, Transfer
<1>15. CASE UNCHANGED vars
  BY <1>2, <1>15 DEF vars
<1> HIDE DEF Same
<1> QED
  BY <1>4, <1>5, <1>6, <1>7, <1>8, <1>9, <1>10, <1>11, <1>12, <1>13, <1>14, <1>15
     DEF Next, Working, Executing, Failing

LEMMA CountedStep ==
  ASSUME TypeInv, CallsInv, PaidInv, CountedInv, [Next]_vars
  PROVE  CountedInv'
<1>1. Grows(sent, sent')
  BY SentGrows
<1>2. \A S \in SUBSET Requests : Counted(sent, S) => Counted(sent', S)
  BY <1>1 DEF Counted, Grows
<1>3. done \in SUBSET Requests /\ \A c \in Cycles : cycle[c].done \in SUBSET Requests
  BY DEF TypeInv, TypeOK, CycleType
<1>4. Counted(sent', done')
  <2>1. ASSUME NEW c \in Cycles, Save(c) PROVE Counted(sent', done')
    <3>1. done' = cycle[c].done /\ cycle[c].at # "resting"
      BY <2>1 DEF Save
    <3> QED  BY <1>2, <1>3, <3>1 DEF CountedInv
  <2>2. ASSUME ~ \E c \in Cycles : Save(c) PROVE done' = done
    BY <2>2 DEF Next, Working, Executing, Failing, vars, fileVars, Start, Feed, HoldBack, Call, Activity,
           SaveFails, LookupFails, Repeat, Accept, Transfer, Record, AnswerLost, Refuse, WorkerRestarts, HourPasses
  <2> QED  BY <1>2, <1>3, <2>1, <2>2 DEF CountedInv
<1>5. ASSUME NEW c \in Cycles, cycle'[c].at # "resting" PROVE Counted(sent', cycle'[c].done)
  <2>1. CASE cycle'[c].done = done
    BY <1>2, <1>3, <2>1 DEF CountedInv
  <2>2. CASE cycle[c].at # "resting" /\ cycle'[c].done = cycle[c].done
    BY <1>2, <1>3, <2>2 DEF CountedInv
  <2>3. CASE cycle[c].at = "activity" /\ cycle'[c].done = cycle[c].done \cup {Current(c)}
    <3>1. Counted(sent', cycle[c].done)
      BY <1>2, <1>3, <2>3 DEF CountedInv
    <3>2. cycle[c].i \in DOMAIN cycle[c].queue /\ cycle[c].queue[cycle[c].i].status = "paid"
      BY <2>3 DEF TypeInv, CycleOK
    <3>3. \E q \in Requests : q.ref = Current(c).ref /\ sent[q] > 0
      BY <2>3, <3>2 DEF PaidInv, PaidSent, Current
    <3>4. \E q \in Requests : q.ref = Current(c).ref /\ sent'[q] > 0
      BY <1>1, <3>3 DEF Grows
    <3> QED  BY <2>3, <3>1, <3>4 DEF Counted
  <2> QED  BY <1>5, <2>1, <2>2, <2>3, DoneMoves
<1> QED  BY <1>4, <1>5 DEF CountedInv

LEMMA SentInit ==
  ASSUME Init
  PROVE  PaidInv /\ TracedInv /\ CountedInv
<1>1. \A k \in DOMAIN queue : queue[k].status = "pending"
  BY DEF Init, AsItems, Item
<1>2. /\ done = {} /\ records = {} /\ Busy = {}
      /\ \A c \in Cycles : cycle[c].at = "resting"
  BY DEF Init, Busy, Resting
<1> QED  BY <1>1, <1>2 DEF PaidInv, PaidSent, TracedInv, CountedInv, Counted

\* Whatever the executor answers late, twice or not at all, and although two of
\* its calls may overwrite each other's records: what the queue file reports as
\* paid, what the worker takes for processed and what the executor has on record
\* has been sent.  Nothing is assumed of cycles, calls or failures.
THEOREM PaidMeansSent == Spec => []PaidWasSent
<1> DEFINE I == TypeInv /\ CallsInv /\ TracedInv /\ PaidInv /\ CountedInv
<1>1. Init => I
  BY TypeInvInit, SentInit
<1>2. I /\ [Next]_vars => I'
  BY TypeInvStep, CallsStep, TracedStep, PaidStep, CountedStep
<1>3. I => PaidWasSent
  <2> SUFFICES ASSUME I, NEW ref \in Refs, Reported(ref) \/ (\E r \in done \cup records : r.ref = ref)
               PROVE  \E r \in Requests : r.ref = ref /\ sent[r] > 0
    BY DEF PaidWasSent, Sends
  <2>1. CASE Reported(ref)
    BY <2>1 DEF Reported, PaidInv, PaidSent
  <2>2. ASSUME NEW r \in done, r.ref = ref PROVE \E q \in Requests : q.ref = ref /\ sent[q] > 0
    BY <2>2 DEF CountedInv, Counted
  <2>3. ASSUME NEW r \in records, r.ref = ref PROVE \E q \in Requests : q.ref = ref /\ sent[q] > 0
    BY <2>3 DEF TracedInv, TypeInv, TypeOK
  <2> QED  BY <2>1, <2>2, <2>3
<1> QED  BY <1>1, <1>2, <1>3, PTL DEF Spec

------------------------------------------------------------------------------
(***************************************************************************)
(* The contract.                                                           *)
(***************************************************************************)
\* The phase of a swap, given what has been sent and the items of the queue file.
SentIn(f, ref) == \E r \in Requests : r.ref = ref /\ f[r] > 0
ReportedIn(items, ref) == \E k \in DOMAIN items : items[k].req.ref = ref /\ items[k].status = "paid"
PhaseIn(f, items, ref) ==
  IF ~SentIn(f, ref) THEN "open" ELSE IF ReportedIn(items, ref) THEN "reported" ELSE "sent"

LEMMA PhaseNow ==
  ASSUME SentOnce, PaidInv, NEW ref \in Refs
  PROVE  /\ Phase(ref) = PhaseIn(sent, queue, ref)
         /\ ReportedIn(queue, ref) => SentIn(sent, ref)
<1>1. ReportedIn(queue, ref) => SentIn(sent, ref)
  BY DEF PaidInv, PaidSent, ReportedIn, SentIn
<1>2. (Sends(ref) = {}) <=> ~SentIn(sent, ref)
  BY DEF Sends, SentIn
<1>3. ~ \E r, q \in Sends(ref) : r # q \/ sent[r] > 1
  BY DEF Sends, SentOnce
<1>4. Reported(ref) <=> ReportedIn(queue, ref)
  BY DEF Reported, ReportedIn
<1> QED  BY <1>1, <1>2, <1>3, <1>4 DEF Phase, PhaseIn

LEMMA PhaseThen ==
  ASSUME SentOnce', PaidInv', NEW ref \in Refs
  PROVE  /\ Phase(ref)' = PhaseIn(sent', queue', ref)
         /\ ReportedIn(queue', ref) => SentIn(sent', ref)
<1>1. ReportedIn(queue', ref) => SentIn(sent', ref)
  BY DEF PaidInv, PaidSent, ReportedIn, SentIn
<1>2. (Sends(ref) = {})' <=> ~SentIn(sent', ref)
  BY DEF Sends, SentIn
<1>3. ~ \E r, q \in Sends(ref)' : r # q \/ sent'[r] > 1
  BY DEF Sends, SentOnce
<1>4. Reported(ref)' <=> ReportedIn(queue', ref)
  BY DEF Reported, ReportedIn
<1> QED  BY <1>1, <1>2, <1>3, <1>4 DEF Phase, PhaseIn

\* A step sends for one swap, reports some that have been sent, or does neither.
LEMMA ContractStep ==
  ASSUME TypeInv, CallsInv, OnceInv, PaidInv, FileInv, OnceInv', PaidInv', [Next]_vars, Extends(queue, queue')
  PROVE  [Contract!Next]_([ref \in Refs |-> Phase(ref)])
<1> DEFINE phase == [ref \in Refs |-> Phase(ref)]
<1>1. SentOnce /\ SentOnce' /\ sent \in [Requests -> Nat]
  BY DEF OnceInv, TypeInv, TypeOK
<1>2. \A ref \in Refs : /\ phase[ref] = PhaseIn(sent, queue, ref)
                        /\ ReportedIn(queue, ref) => SentIn(sent, ref)
  BY <1>1, PhaseNow
<1>3. \A ref \in Refs : /\ phase'[ref] = PhaseIn(sent', queue', ref)
                        /\ ReportedIn(queue', ref) => SentIn(sent', ref)
  BY <1>1, PhaseThen
<1>4. /\ phase = [ref \in Refs |-> phase[ref]]
      /\ phase' = [ref \in Refs |-> phase'[ref]]
  OBVIOUS
<1>5. CASE UNCHANGED sent
  <2> DEFINE S == {ref \in Refs : ReportedIn(queue', ref) /\ ~ReportedIn(queue, ref)}
  <2>1. \A ref \in Refs : ReportedIn(queue, ref) => ReportedIn(queue', ref)
    BY DEF ReportedIn, Extends, TypeInv, TypeOK
  <2>2. S \in SUBSET {ref \in Refs : phase[ref] = "sent"}
    BY <1>2, <1>3, <1>5 DEF PhaseIn
  <2>3. \A ref \in Refs : phase'[ref] = IF ref \in S THEN "reported" ELSE phase[ref]
    BY <1>2, <1>3, <1>5, <2>1 DEF PhaseIn
  <2> HIDE DEF S, phase
  <2>4. phase' = [ref \in Refs |-> IF ref \in S THEN "reported" ELSE phase[ref]]
    BY <1>4, <2>3
  <2>5. \E T \in SUBSET {ref \in Refs : phase[ref] = "sent"} :
          phase' = [ref \in Refs |-> IF ref \in T THEN "reported" ELSE phase[ref]]
    BY <2>2, <2>4
  <2> QED  BY <2>5 DEF phase, Contract!Next, Contract!Report
<1>6. ASSUME NEW s \in Slots, Transfer(s), s \in Busy, jobs[s].req \in Requests
      PROVE  Contract!Next
  <2> DEFINE p == jobs[s].req
  <2>1. /\ sent' = [sent EXCEPT ![p] = sent[p] + 1] /\ UNCHANGED queue /\ jobs[s].step = "checked"
    BY <1>6 DEF Transfer, fileVars
  <2>2. p.ref \in Refs
    BY <1>6 DEF Refs
  <2>3. ~SentIn(sent, p.ref)
    <3>1. ~Known(p, records) /\ \A t \in Busy : t = s
      BY <1>6, <2>1 DEF OnceInv
    <3>2. \A r \in Requests : sent[r] > 0 => r \in records
      BY <2>1, <3>1 DEF OnceInv
    <3> QED  BY <3>1, <3>2 DEF SentIn, Known
  <2>4. SentIn(sent', p.ref) /\ \A ref \in Refs : ref # p.ref => (SentIn(sent', ref) <=> SentIn(sent, ref))
    <3>1. sent'[p] > 0 /\ \A r \in Requests : r # p => sent'[r] = sent[r]
      BY <1>1, <1>6, <2>1
    <3> QED  BY <1>6, <3>1 DEF SentIn
  <2>5. phase[p.ref] = "open" /\ phase'[p.ref] = "sent"
    BY <1>2, <1>3, <2>1, <2>2, <2>3, <2>4 DEF PhaseIn
  <2>6. \A ref \in Refs : ref # p.ref => phase'[ref] = phase[ref]
    BY <1>2, <1>3, <2>1, <2>4 DEF PhaseIn
  <2> HIDE DEF phase, p
  <2>7. phase' = [phase EXCEPT ![p.ref] = "sent"]
    BY <1>4, <2>5, <2>6
  <2>8. \E ref \in Refs : phase[ref] = "open" /\ phase' = [phase EXCEPT ![ref] = "sent"]
    BY <2>2, <2>5, <2>7
  <2> QED  BY <2>8 DEF phase, Contract!Next, Contract!Send
<1> QED  BY <1>5, <1>6, SentStep

\* With one cycle at a time, no overlapping calls and no unconfirmed transfer, the
\* worker, the executor and their files implement Settlement: a swap is sent once,
\* reported after that, and never taken back.
THEOREM PayoutsKeepContract ==
  ASSUME ~Overlap, ~Unconfirmed, Single
  PROVE  Spec => KeepsContract
<1> DEFINE I == TypeInv /\ CallsInv /\ OnceInv /\ TracedInv /\ PaidInv /\ FileInv
           phase == [ref \in Refs |-> Phase(ref)]
<1>1. Init => I
  BY TypeInvInit, OnceInit, SentInit, FileInit
<1>2. I /\ [Next]_vars => I'
  BY TypeInvStep, CallsStep, OnceStep, TracedStep, PaidStep, FileStep
<1>3. Init => Contract!Init
  <2> SUFFICES ASSUME Init PROVE \A ref \in Refs : Phase(ref) = "open"
    BY DEF Contract!Init
  <2>1. \A k \in DOMAIN queue : queue[k].status = "pending"
    BY DEF Init, AsItems, Item
  <2>2. \A ref \in Refs : Sends(ref) = {} /\ ~Reported(ref)
    BY <2>1 DEF Init, Sends, Reported
  <2> QED  BY <2>2 DEF Phase
<1>4. I /\ I' /\ [Next]_vars => [Contract!Next]_phase
  BY FileStep, ContractStep
<1> HIDE DEF I
<1>5. Spec => Contract!Init /\ [][Contract!Next]_phase
  BY <1>1, <1>2, <1>3, <1>4, PTL DEF Spec
<1> QED  BY <1>5, PTL DEF KeepsContract, Contract!Spec

------------------------------------------------------------------------------
(***************************************************************************)
(* The cap of an hour.                                                     *)
(***************************************************************************)
\* The request of the item that cycle w is at.
At(w) == w.queue[w.i].req

UnderWay == \E s \in Busy : jobs[s].step = "confirming"

\* What cycle w has counted, against what has been sent: h, and the file's total: t.
\* From the call to its answer it may lag behind by the payout it is at, for which
\* it has made room.
Counts(w, h, t, underway) ==
  /\ w.at = "resting" => h <= t
  /\ w.at # "resting" => w.total <= HourlyMax
  /\ w.at \in {"feed", "standing", "saving"} => h <= w.total
  /\ w.at \in {"executor", "activity"} => w.total + At(w).amount <= HourlyMax
  /\ w.at = "executor" => h <= w.total \/ (underway /\ h <= w.total + At(w).amount)
  /\ w.at = "activity" => h <= w.total + At(w).amount

CapInv ==
  trouble = 0 =>
    /\ total <= HourlyMax /\ hourSent <= HourlyMax
    /\ \A s \in Busy : jobs[s].caller # Nobody
    /\ \A c \in Cycles : Counts(cycle[c], hourSent, total, UnderWay)

\* While a cycle is at the feed, at an item or at its end, nothing is under way.
LEMMA CountsAhead ==
  ASSUME NEW w, NEW h \in Nat, NEW t, NEW u, w.total \in Nat, w.at \in {"feed", "standing", "saving"},
         h <= w.total, w.total <= HourlyMax
  PROVE  Counts(w, h, t, u)
BY DEF Counts

\* A step of the worker alone.
LEMMA CapWorking ==
  ASSUME Single, TypeInv, CallsInv, CapInv, trouble = 0, NEW c \in Cycles, Working(c)
  PROVE  CapInv'
<1>1. /\ CycleOK(cycle[c]) /\ cycle[c].total \in Nat /\ cycle \in [Cycles -> CycleType]
      /\ total \in Nat /\ hourSent \in Nat /\ HourlyMax \in Nat
      /\ \A r \in Requests : r.amount \in Nat
  BY PayoutsAssumption DEF TypeInv, TypeOK, CycleOK, CycleType
<1>2. /\ total <= HourlyMax /\ hourSent <= HourlyMax /\ \A s \in Busy : jobs[s].caller # Nobody
      /\ Counts(cycle[c], hourSent, total, UnderWay)
  BY DEF CapInv
<1>3. /\ \A b \in Cycles : b = c
      /\ \A d : cycle' = [cycle EXCEPT ![c] = d] => cycle'[c] = d
  BY <1>1 DEF Single
<1>4. cycle[c].at # "executor" => Busy = {}
  <2>1. \A s \in Busy : jobs[s].caller \in Cycles
    BY <1>2, BusyJob DEF TypeInv, TypeOK, JobsOK
  <2> QED  BY <1>2, <1>3, <2>1 DEF CallsInv
<1>5. ASSUME UNCHANGED <<jobs, trouble>>, total' <= HourlyMax, hourSent' <= HourlyMax,
             Counts(cycle'[c], hourSent', total', UnderWay')
      PROVE  CapInv'
  <2>1. Busy' = Busy
    BY <1>5 DEF Busy
  <2> QED  BY <1>2, <1>3, <1>5, <2>1 DEF CapInv
<1>6. CASE Start(c)
  <2> DEFINE t == IF hourOver THEN 0 ELSE total
             d == [at |-> "feed", queue |-> queue, done |-> done, total |-> t, fresh |-> hourOver, i |-> 0]
  <2>1. /\ cycle'[c] = d /\ cycle[c].at = "resting" /\ hourSent' = (IF hourOver THEN 0 ELSE hourSent)
        /\ UNCHANGED <<jobs, trouble, total>>
    BY <1>3, <1>6 DEF Start, fileVars
  <2>2. d.at = "feed" /\ d.total = t /\ t \in Nat /\ t <= HourlyMax /\ hourSent' <= t /\ hourSent' \in Nat
    BY <1>1, <1>2, <2>1 DEF Counts
  <2> HIDE DEF d, t
  <2>3. Counts(d, hourSent', total', UnderWay')
    BY <2>2, CountsAhead
  <2> QED  BY <1>1, <1>2, <1>5, <2>1, <2>2, <2>3
<1>7. CASE Feed(c)
  <2>1. PICK batch \in Feeds : \E new \in Ingested(cycle[c], batch) :
          cycle' = [cycle EXCEPT ![c] = GoOn([cycle[c] EXCEPT !.queue = cycle[c].queue \o AsItems(new)])]
    BY <1>7 DEF Feed
  <2>2. PICK new \in Ingested(cycle[c], batch) :
          cycle' = [cycle EXCEPT ![c] = GoOn([cycle[c] EXCEPT !.queue = cycle[c].queue \o AsItems(new)])]
    BY <2>1
  <2> DEFINE d == GoOn([cycle[c] EXCEPT !.queue = cycle[c].queue \o AsItems(new)])
  <2>3. batch \in SUBSET Requests /\ cycle[c].at = "feed" /\ UNCHANGED <<jobs, trouble, total, hourSent>>
    BY <1>7, PayoutsAssumption DEF Feed, fileVars, chainVars
  <2>4. d.at \in {"standing", "saving"} /\ d.total = cycle[c].total
    BY <1>1, <2>3, FeedKeeps
  <2>5. cycle'[c] = d
    BY <1>3, <2>2
  <2> HIDE DEF d
  <2>6. hourSent <= d.total /\ d.total <= HourlyMax
    BY <1>2, <2>3, <2>4 DEF Counts
  <2>7. Counts(d, hourSent, total, UnderWay')
    BY <1>1, <2>4, <2>6, CountsAhead
  <2> QED  BY <1>2, <1>5, <2>3, <2>5, <2>7
<1>8. CASE HoldBack(c)
  <2> DEFINE d == GoOn(cycle[c])
  <2>1. cycle[c].at = "standing" /\ cycle'[c] = d /\ UNCHANGED <<jobs, trouble, total, hourSent>>
    BY <1>3, <1>8 DEF HoldBack, fileVars, chainVars
  <2>2. d.at \in {"standing", "saving"} /\ d.total = cycle[c].total
    BY <1>1, <2>1, PassedKeeps
  <2> HIDE DEF d
  <2>3. hourSent <= d.total /\ d.total <= HourlyMax
    BY <1>2, <2>1, <2>2 DEF Counts
  <2>4. Counts(d, hourSent, total, UnderWay')
    BY <1>1, <2>2, <2>3, CountsAhead
  <2> QED  BY <1>2, <1>5, <2>1, <2>4
<1>9. CASE Call(c)
  <2> DEFINE d == [cycle[c] EXCEPT !.at = "executor"]
             job == [step |-> "posted", req |-> Current(c), caller |-> c, seen |-> {}]
  <2>1. /\ cycle[c].at = "standing" /\ cycle'[c] = d /\ UNCHANGED <<trouble, total, hourSent>>
        /\ cycle[c].total + Current(c).amount <= HourlyMax
    BY <1>3, <1>9 DEF Call, Affordable, fileVars, chainVars
  <2>2. PICK s \in Slots \ Busy : jobs' = [jobs EXCEPT ![s] = job]
    BY <1>9 DEF Call
  <2>3. d.at = "executor" /\ d.total = cycle[c].total /\ d.queue = cycle[c].queue /\ d.i = cycle[c].i
    BY <1>1, <2>1, CallKeeps
  <2>4. job.caller = c
    OBVIOUS
  <2> HIDE DEF d, job
  <2>5. At(d) = Current(c)
    BY <2>3 DEF At, Current
  <2>6. Counts(d, hourSent, total, UnderWay')
    BY <1>2, <2>1, <2>3, <2>5 DEF Counts
  <2>7. \A t \in Busy' : t = s /\ jobs'[t].caller = c
    BY <1>4, <2>1, <2>2, <2>4 DEF Busy, TypeInv, TypeOK
  <2> QED  BY <1>2, <1>3, <2>1, <2>6, <2>7, PayoutsAssumption DEF CapInv
<1>10. CASE Activity(c)
  <2> DEFINE d == GoOn([cycle[c] EXCEPT !.done = cycle[c].done \cup {Current(c)},
                                        !.total = cycle[c].total + Current(c).amount])
  <2>1. cycle[c].at = "activity" /\ cycle'[c] = d /\ UNCHANGED <<jobs, trouble, total, hourSent>>
    BY <1>3, <1>10 DEF Activity, fileVars, chainVars
  <2>2. Current(c) \in Requests
    BY <2>1, CurrentType
  <2>3. d.at \in {"standing", "saving"} /\ d.total = cycle[c].total + Current(c).amount
    BY <1>1, <2>1, <2>2, ActivityKeeps
  <2> HIDE DEF d
  <2>4. hourSent <= d.total /\ d.total <= HourlyMax /\ d.total \in Nat
    BY <1>1, <1>2, <2>1, <2>2, <2>3 DEF Counts, At, Current
  <2>5. Counts(d, hourSent, total, UnderWay')
    BY <1>1, <2>3, <2>4, CountsAhead
  <2> QED  BY <1>2, <1>5, <2>1, <2>5
<1>11. CASE Save(c)
  <2>1. /\ cycle[c].at = "saving" /\ cycle'[c] = Resting /\ total' = cycle[c].total
        /\ UNCHANGED <<jobs, trouble, hourSent>>
    BY <1>3, <1>11 DEF Save, chainVars
  <2>2. hourSent' <= total' /\ total' <= HourlyMax
    BY <1>2, <2>1 DEF Counts
  <2>3. Counts(Resting, hourSent', total', UnderWay')
    BY <2>2 DEF Counts, Resting
  <2> QED  BY <1>2, <1>5, <2>1, <2>2, <2>3
<1> QED  BY <1>6, <1>7, <1>8, <1>9, <1>10, <1>11 DEF Working

\* A step of the executor, or an hour.
LEMMA CapAnswering ==
  ASSUME Single, ~Unconfirmed, TypeInv, CallsInv, CapInv, trouble = 0, NEW s \in Slots, Executing(s) \/ Refuse(s)
  PROVE  CapInv'
<1>1. /\ cycle \in [Cycles -> CycleType] /\ jobs \in [Slots -> JobType] /\ s \in Busy
      /\ total \in Nat /\ hourSent \in Nat /\ HourlyMax \in Nat /\ UNCHANGED <<trouble, total>>
      /\ \A r \in Requests : r.amount \in Nat
  BY PayoutsAssumption DEF TypeInv, TypeOK, Executing, Repeat, Accept, Transfer, Record, Refuse, fileVars, Busy
<1>2. /\ total <= HourlyMax /\ hourSent <= HourlyMax /\ \A t \in Busy : jobs[t].caller # Nobody
      /\ \A c \in Cycles : Counts(cycle[c], hourSent, total, UnderWay)
  BY DEF CapInv
<1>3. \A t \in Busy : jobs[t].caller \in Cycles /\ jobs[t].req \in Requests
  BY <1>2, BusyJob DEF TypeInv, TypeOK, JobsOK
<1> DEFINE c == jobs[s].caller
           w == cycle[c]
<1>4. /\ c \in Cycles /\ c # Nobody /\ w.at = "executor" /\ At(w) = jobs[s].req /\ CycleOK(w) /\ w.total \in Nat
      /\ jobs[s].req.amount \in Nat
  BY <1>1, <1>2, <1>3 DEF CallsInv, At, Current, TypeInv, CycleType
<1>5. (\A t \in Busy : t = s) /\ \A b \in Cycles : b = c
  <2>1. \A b \in Cycles : b = c
    BY <1>4 DEF Single
  <2>2. \A t \in Busy : jobs[t].caller = c /\ c # Nobody
    BY <1>3, <1>4, <2>1
  <2>3. \A t \in Busy : t = s
    BY <1>1, <2>2 DEF CallsInv
  <2> QED  BY <2>1, <2>3
<1>6. /\ w.total + jobs[s].req.amount <= HourlyMax /\ w.total <= HourlyMax
      /\ hourSent <= w.total + jobs[s].req.amount
      /\ jobs[s].step # "confirming" => hourSent <= w.total
  BY <1>1, <1>2, <1>4, <1>5 DEF Counts, UnderWay
<1> HIDE DEF c, w
<1>7. CASE Repeat(s) \/ Record(s)
  <2>1. /\ cycle'[c] = Paid(w) /\ jobs' = [jobs EXCEPT ![s] = Free] /\ UNCHANGED hourSent
    BY <1>4, <1>7 DEF Repeat, Record, Answered, chainVars, c, w
  <2>2. /\ Paid(w).at = "activity" /\ Paid(w).total = w.total /\ At(Paid(w)) = At(w)
    BY <1>4, PaidKeeps DEF At
  <2>3. Counts(Paid(w), hourSent', total', UnderWay')
    BY <1>4, <1>6, <2>1, <2>2 DEF Counts
  <2>4. Busy' = {}
    BY <1>1, <1>5, <2>1 DEF Busy
  <2> QED  BY <1>1, <1>2, <1>5, <2>1, <2>3, <2>4 DEF CapInv
<1>8. CASE Refuse(s)
  <2>1. /\ cycle'[c] = Retried(w) /\ jobs' = [jobs EXCEPT ![s] = Free] /\ UNCHANGED hourSent
        /\ jobs[s].step # "confirming"
    BY <1>4, <1>8 DEF Refuse, Rejected, Undone, chainVars, c, w
  <2>2. Retried(w).at \in {"standing", "saving"} /\ Retried(w).total = w.total
    BY <1>4, RetriedKeeps
  <2>3. Counts(Retried(w), hourSent', total', UnderWay')
    BY <1>1, <1>4, <1>6, <2>1, <2>2, CountsAhead
  <2>4. Busy' = {}
    BY <1>1, <1>5, <2>1 DEF Busy
  <2> QED  BY <1>1, <1>2, <1>5, <2>1, <2>3, <2>4 DEF CapInv
<1>9. CASE Accept(s) \/ Transfer(s)
  <2>1. UNCHANGED cycle /\ jobs[s].step # "confirming"
    BY <1>9 DEF Accept, Transfer
  <2>2. /\ jobs'[s].caller = c
        /\ \/ UNCHANGED hourSent
           \/ hourSent' = hourSent + jobs[s].req.amount /\ jobs'[s].step = "confirming"
    <3>1. CASE Accept(s)
      BY <1>1, <3>1, BusyJob DEF Accept, TypeInv, TypeOK, JobsOK, chainVars, c
    <3>2. CASE Transfer(s)
      BY <1>1, <3>2, BusyJob DEF Transfer, TypeInv, TypeOK, JobsOK, c
    <3> QED  BY <1>9, <3>1, <3>2
  <2>3. Busy' \subseteq {s}
    <3>1. CASE Accept(s)
      BY <1>1, <1>5, <3>1 DEF Accept, Busy
    <3>2. CASE Transfer(s)
      BY <1>1, <1>5, <3>2 DEF Transfer, Busy
    <3> QED  BY <1>9, <3>1, <3>2
  <2>4. UnderWay' \/ UNCHANGED hourSent
    <3>1. CASE Transfer(s)
      <4>1. jobs'[s].step = "confirming" /\ jobs'[s] # Free
        BY <1>1, <3>1, BusyJob DEF Transfer, TypeInv, TypeOK, JobsOK, Free
      <4> QED  BY <4>1 DEF UnderWay, Busy
    <3> QED  BY <1>9, <3>1 DEF Accept, chainVars
  <2>5. Counts(w, hourSent', total', UnderWay') /\ hourSent' <= HourlyMax
    BY <1>1, <1>4, <1>6, <2>1, <2>2, <2>4 DEF Counts
  <2> QED  BY <1>1, <1>2, <1>4, <1>5, <2>1, <2>2, <2>3, <2>5 DEF CapInv, w
<1> QED  BY <1>7, <1>8, <1>9 DEF Executing

LEMMA CapStep ==
  ASSUME Single, ~Unconfirmed, TypeInv, CallsInv, CapInv, [Next]_vars
  PROVE  CapInv'
<1>1. trouble \in Nat
  BY DEF TypeInv, TypeOK
<1>2. ASSUME trouble' # 0 PROVE CapInv'
  BY <1>2 DEF CapInv
<1>3. ASSUME trouble' = 0, ~UNCHANGED vars
      PROVE  /\ trouble = 0
             /\ \/ \E c \in Cycles : Working(c)
                \/ \E s \in Slots : Executing(s) \/ Refuse(s)
                \/ HourPasses
  <2>1. trouble' \in {trouble, trouble + 1}
    BY DEF Next, Working, Executing, Failing, vars, Trouble, Start, Feed, HoldBack, Call, Activity, Save, SaveFails,
           LookupFails, Repeat, Accept, Transfer, Record, AnswerLost, Refuse, WorkerRestarts, HourPasses
  <2>2. trouble = 0 /\ ~Trouble
    BY <1>1, <1>3, <2>1 DEF Trouble
  <2> QED  BY <1>3, <2>2 DEF Next, Failing, LookupFails, SaveFails, AnswerLost, WorkerRestarts
<1>4. CASE HourPasses
  <2>1. /\ UNCHANGED <<jobs, trouble, total, hourSent>>
        /\ cycle' = [c \in Cycles |-> [cycle[c] EXCEPT !.fresh = FALSE]]
    BY <1>4 DEF HourPasses, chainVars
  <2>2. ASSUME NEW c \in Cycles
        PROVE  /\ cycle'[c].at = cycle[c].at /\ cycle'[c].queue = cycle[c].queue
               /\ cycle'[c].i = cycle[c].i /\ cycle'[c].total = cycle[c].total
    BY <2>1 DEF TypeInv, TypeOK, CycleType
  <2>3. Busy' = Busy /\ UnderWay' = UnderWay
    BY <2>1 DEF Busy, UnderWay
  <2>4. \A c \in Cycles : Counts(cycle[c], hourSent, total, UnderWay) => Counts(cycle'[c], hourSent, total, UnderWay)
    BY <2>2 DEF Counts, At
  <2> QED  BY <2>1, <2>3, <2>4 DEF CapInv
<1>5. CASE UNCHANGED vars
  BY <1>5 DEF vars, CapInv, Busy, UnderWay
<1> QED  BY <1>2, <1>3, <1>4, <1>5, CapWorking, CapAnswering

\* With one cycle at a time, and if no transfer goes unconfirmed, what is sent in a
\* window stays below the hourly cap until something fails, although the cycle adds
\* a payout to its total only after the executor and the chain have answered.
THEOREM CapHolds ==
  ASSUME Single, ~Unconfirmed
  PROVE  Spec => []HourCapKept
<1> DEFINE I == TypeInv /\ CallsInv /\ CapInv
<1>1. Init => I
  <2>1. Init => CapInv
    <3> SUFFICES ASSUME Init PROVE CapInv
      OBVIOUS
    <3>1. Busy = {} /\ total = 0 /\ hourSent = 0 /\ 0 <= HourlyMax
      BY PayoutsAssumption DEF Init, Busy
    <3>2. \A c \in Cycles : Counts(cycle[c], hourSent, total, UnderWay)
      BY <3>1 DEF Init, Resting, Counts
    <3> QED  BY <3>1, <3>2 DEF CapInv
  <2> QED  BY <2>1, TypeInvInit
<1>2. I /\ [Next]_vars => I'
  BY TypeInvStep, CallsStep, CapStep
<1>3. I => HourCapKept
  BY DEF CapInv, HourCapKept
<1> HIDE DEF I
<1> QED  BY <1>1, <1>2, <1>3, PTL DEF Spec
==============================================================================
