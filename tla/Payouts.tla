------------------------------ MODULE Payouts --------------------------------
(***************************************************************************)
(* Payout automation: the worker that pays the requests of a queue in      *)
(* cycles (src/scripts/payout-automation/worker.js), the executor that     *)
(* transfers USDC for it (payout-executor/server.js), and the files that   *)
(* each keeps.  Both are event loops: what lies between two awaits is one  *)
(* step, and what is awaited may take any time, fail, or never answer.     *)
(*                                                                         *)
(* Two constants say what the environment is spared.  Overlap: a call may  *)
(* reach the executor while it is still busy with another.  Unconfirmed:   *)
(* the executor may stop, or fail to wait, between a transfer and its      *)
(* record.                                                                 *)
(*                                                                         *)
(* A request is [id, ref, amount].  The conditions that only leave an item *)
(* pending (eligibility, reserve ratio, daily cap of a user) are one:      *)
(* Barred; the hourly cap is modelled.  Amounts are whole units.           *)
(***************************************************************************)
EXTENDS Integers, Sequences, FiniteSets

CONSTANTS
  Requests,     \* payout requests
  Barred,       \* those whose wallet is not eligible
  Prepared,     \* queue.json as the operator wrote it: a sequence of requests
  Feeds,        \* what auto_ingest_url may answer: sets of requests
  HourlyMax,    \* max_total_payout_usdc_per_hour
  MaxRetries,   \* max_retries
  Cycles,       \* cycles the timer may have running at once
  Slots,        \* calls the executor may be handling at once
  Nobody,       \* the caller of a call that nobody waits for
  Overlap, Unconfirmed,
  MaxTrouble    \* bound on failures and restarts

Statuses == {"pending", "paid", "failed", "duplicate"}
Items == [req : Requests, status : Statuses, retries : 0 .. MaxRetries]
Refs == {r.ref : r \in Requests}

ASSUME PayoutsAssumption ==
  /\ \A r \in Requests : r.amount \in Nat
  /\ \A r, q \in Requests : r.id = q.id => r = q
  /\ Barred \subseteq Requests
  /\ Prepared \in Seq(Requests) /\ Feeds \subseteq SUBSET Requests
  /\ HourlyMax \in Nat /\ MaxRetries \in Nat \ {0} /\ MaxTrouble \in Nat
  /\ Nobody \notin Cycles
  /\ Overlap \in BOOLEAN /\ Unconfirmed \in BOOLEAN

VARIABLES
  queue,     \* queue.json: its items
  done,      \* state.json: the requests whose id and reference are processed
  total,     \* state.json: hourly_paid_total_usdc
  torn,      \* files of the worker that hold half of what was written
  hourOver,  \* an hour has gone by since hourly_window_start
  cycle,     \* what each cycle holds in memory, and what it awaits
  records,   \* executor-state.json: the requests it has a record of
  jobs,      \* the calls the executor is handling
  sent,      \* BSC: how many transfers have been made for each request
  hourSent,  \* how much has been sent since the present window began
  trouble    \* how many failures there have been

fileVars == <<queue, done, total, torn, hourOver>>
chainVars == <<sent, hourSent>>
vars == <<queue, done, total, torn, hourOver, cycle, records, jobs, sent, hourSent, trouble>>

Resting == [at |-> "resting", queue |-> <<>>, done |-> {}, total |-> 0, fresh |-> FALSE, i |-> 0]
Free == [step |-> "free"]

Busy == {s \in Slots : jobs[s] # Free}

Trouble == trouble < MaxTrouble /\ trouble' = trouble + 1

\* processed_request_ids, processed_swap_references
Known(r, S) == \E q \in S : q.id = r.id \/ q.ref = r.ref

------------------------------------------------------------------------------
(***************************************************************************)
(* A cycle of the worker: runWorker.                                       *)
(***************************************************************************)
Item(r) == [req |-> r, status |-> "pending", retries |-> 0]

As(it, status, n) == [req |-> it.req, status |-> status, retries |-> n]

AsItems(rs) == [k \in DOMAIN rs |-> Item(rs[k])]

Queued(items) == {items[k].req : k \in DOMAIN items}

\* autoIngestQueue: what a cycle may append of the candidates in the answer,
\* which come in any order.
Ingested(c, batch) ==
  {new \in UNION {[1 .. n -> batch] : n \in 0 .. Cardinality(batch)} :
     /\ \A k \in DOMAIN new :
          ~Known(new[k], c.done \cup Queued(c.queue) \cup {new[j] : j \in 1 .. k - 1})
     /\ \A r \in batch :
          Known(r, c.done \cup Queued(c.queue) \cup {new[j] : j \in DOMAIN new})}

\* What becomes of an item before anything is awaited for it.
Verdict(it, processed) ==
  IF it.status # "pending" THEN it.status
  ELSE IF it.req.amount = 0 THEN "failed"
  ELSE IF Known(it.req, processed) THEN "duplicate"
  ELSE "pending"

\* The item the loop comes to a wait at, or the end.
Stop(c) ==
  CHOOSE n \in c.i + 1 .. Len(c.queue) + 1 :
    /\ n <= Len(c.queue) => Verdict(c.queue[n], c.done) = "pending"
    /\ \A k \in c.i + 1 .. n - 1 : Verdict(c.queue[k], c.done) # "pending"

Judged(c) ==
  [k \in DOMAIN c.queue |->
     IF c.i < k /\ k < Stop(c) THEN As(c.queue[k], Verdict(c.queue[k], c.done), c.queue[k].retries)
     ELSE c.queue[k]]

\* The loop goes on behind item i.
GoOn(c) ==
  [c EXCEPT !.queue = Judged(c), !.i = Stop(c),
            !.at = IF Stop(c) <= Len(c.queue) THEN "standing" ELSE "saving"]

\* Load the files and ask for candidates.
Start(c) ==
  /\ cycle[c].at = "resting"
  /\ torn = {}
  /\ cycle' = [cycle EXCEPT ![c] = [at |-> "feed", queue |-> queue, done |-> done,
                 total |-> IF hourOver THEN 0 ELSE total, fresh |-> hourOver, i |-> 0]]
  /\ hourSent' = IF hourOver THEN 0 ELSE hourSent
  /\ UNCHANGED <<fileVars, records, jobs, sent, trouble>>

Feed(c) ==
  /\ cycle[c].at = "feed"
  /\ \E batch \in Feeds : \E new \in Ingested(cycle[c], batch) :
       cycle' = [cycle EXCEPT ![c] = GoOn([cycle[c] EXCEPT !.queue = cycle[c].queue \o AsItems(new)])]
  /\ UNCHANGED <<fileVars, records, jobs, chainVars, trouble>>

Current(c) == cycle[c].queue[cycle[c].i].req

\* Mutant of Affordable: the cap is compared with this payout alone.
AffordableAlone(c) == Current(c).amount <= HourlyMax

Affordable(c) == cycle[c].total + Current(c).amount <= HourlyMax

\* Eligibility, reserve or a cap leaves the item as it is.
HoldBack(c) ==
  /\ cycle[c].at = "standing"
  /\ Current(c) \in Barred \/ ~Affordable(c)
  /\ cycle' = [cycle EXCEPT ![c] = GoOn(cycle[c])]
  /\ UNCHANGED <<fileVars, records, jobs, chainVars, trouble>>

\* The wallet cannot be looked up.
LookupFails(c) ==
  /\ cycle[c].at = "standing"
  /\ Trouble
  /\ cycle' = [cycle EXCEPT ![c] = GoOn(cycle[c])]
  /\ UNCHANGED <<fileVars, records, jobs, chainVars>>

\* invokePayoutExecutor
Call(c) ==
  /\ cycle[c].at = "standing"
  /\ Current(c) \notin Barred
  /\ Affordable(c)
  /\ Overlap \/ Busy = {}
  /\ \E s \in Slots \ Busy :
       jobs' = [jobs EXCEPT ![s] = [step |-> "posted", req |-> Current(c), caller |-> c, seen |-> {}]]
  /\ cycle' = [cycle EXCEPT ![c].at = "executor"]
  /\ UNCHANGED <<fileVars, records, chainVars, trouble>>

\* The list of a cycle with its present item as it has become.
Put(c, status, n) == [c.queue EXCEPT ![c.i] = As(c.queue[c.i], status, n)]

Retries(c) == c.queue[c.i].retries

\* The executor answers a cycle that waits for it, or nobody.
Paid(c) == [c EXCEPT !.queue = Put(c, "paid", Retries(c)), !.at = "activity"]

\* Mutant of Retried: a call that fails is not counted.
RetriedForFree(c) == GoOn(c)

Retried(c) ==
  LET n == Retries(c) + 1
  IN  GoOn([c EXCEPT !.queue = Put(c, IF n >= MaxRetries THEN "failed" ELSE "pending", n)])

Answered(s, c) == IF c = jobs[s].caller THEN Paid(cycle[c]) ELSE cycle[c]
Rejected(s, c) == IF c = jobs[s].caller THEN Retried(cycle[c]) ELSE cycle[c]

\* The answer does not come: the worker takes the call for failed and the
\* executor does not know.
AnswerLost(s) ==
  /\ s \in Busy
  /\ jobs[s].caller # Nobody
  /\ Trouble
  /\ cycle' = [c \in Cycles |-> Rejected(s, c)]
  /\ jobs' = [jobs EXCEPT ![s].caller = Nobody]
  /\ UNCHANGED <<fileVars, records, chainVars>>

\* invokeOnchainPayoutActivity has answered, whatever it says.
Activity(c) ==
  /\ cycle[c].at = "activity"
  /\ cycle' = [cycle EXCEPT ![c] =
                 GoOn([cycle[c] EXCEPT !.done = cycle[c].done \cup {Current(c)},
                                       !.total = cycle[c].total + Current(c).amount])]
  /\ UNCHANGED <<fileVars, records, jobs, chainVars, trouble>>

\* Mutant of SavedQueue: a cycle saves what has not failed.
SavedPending(c) == SelectSeq(cycle[c].queue, LAMBDA it : it.status # "failed")

SavedQueue(c) == cycle[c].queue

\* The two files are written, the queue first.
Save(c) ==
  /\ cycle[c].at = "saving"
  /\ queue' = SavedQueue(c)
  /\ done' = cycle[c].done /\ total' = cycle[c].total
  /\ hourOver' = (hourOver /\ ~cycle[c].fresh)
  /\ cycle' = [cycle EXCEPT ![c] = Resting]
  /\ UNCHANGED <<torn, records, jobs, chainVars, trouble>>

\* Writing fails or the worker stops, with one file written or half of one.
SaveFails(c) ==
  /\ cycle[c].at = "saving"
  /\ Trouble
  /\ \/ torn' = {"queue"} /\ UNCHANGED queue
     \/ queue' = SavedQueue(c) /\ torn' \in {{}, {"state"}}
  /\ cycle' = [cycle EXCEPT ![c] = Resting]
  /\ UNCHANGED <<done, total, hourOver, records, jobs, chainVars>>

\* The worker is restarted: its cycles are gone, its calls go on.
WorkerRestarts ==
  /\ Trouble
  /\ \E c \in Cycles : cycle[c].at # "resting"
  /\ cycle' = [c \in Cycles |-> Resting]
  /\ jobs' = [s \in Slots |-> IF s \in Busy THEN [jobs[s] EXCEPT !.caller = Nobody] ELSE Free]
  /\ UNCHANGED <<fileVars, records, chainVars>>

HourPasses ==
  /\ ~hourOver
  /\ hourOver' = TRUE
  /\ cycle' = [c \in Cycles |-> [cycle[c] EXCEPT !.fresh = FALSE]]
  /\ UNCHANGED <<queue, done, total, torn, records, jobs, chainVars, trouble>>

------------------------------------------------------------------------------
(***************************************************************************)
(* A call of the executor: POST /execute.                                  *)
(***************************************************************************)
Recorded(r) == Known(r, records)

\* Its state says that the request has been paid.
Repeat(s) ==
  /\ jobs[s] # Free /\ jobs[s].step = "posted"
  /\ Recorded(jobs[s].req)
  /\ cycle' = [c \in Cycles |-> Answered(s, c)]
  /\ jobs' = [jobs EXCEPT ![s] = Free]
  /\ UNCHANGED <<fileVars, records, chainVars, trouble>>

\* It does not: the state is kept in memory while the treasury is asked.
Accept(s) ==
  /\ jobs[s] # Free /\ jobs[s].step = "posted"
  /\ ~Recorded(jobs[s].req)
  /\ jobs' = [jobs EXCEPT ![s].step = "checked", ![s].seen = records]
  /\ UNCHANGED <<fileVars, cycle, records, chainVars, trouble>>

\* usdc.transfer
Transfer(s) ==
  /\ jobs[s] # Free /\ jobs[s].step = "checked"
  /\ jobs' = [jobs EXCEPT ![s].step = "confirming"]
  /\ sent' = [sent EXCEPT ![jobs[s].req] = @ + 1]
  /\ hourSent' = hourSent + jobs[s].req.amount
  /\ UNCHANGED <<fileVars, cycle, records, trouble>>

\* Mutant of Noted: the answer is given without a record.
NotNoted(s) == jobs[s].seen

Noted(s) == jobs[s].seen \cup {jobs[s].req}

\* The transfer is confirmed; the state is written as it was read, with it.
Record(s) ==
  /\ jobs[s] # Free /\ jobs[s].step = "confirming"
  /\ records' = Noted(s)
  /\ cycle' = [c \in Cycles |-> Answered(s, c)]
  /\ jobs' = [jobs EXCEPT ![s] = Free]
  /\ UNCHANGED <<fileVars, chainVars, trouble>>

Undone == {"posted", "checked"} \cup IF Unconfirmed THEN {"confirming"} ELSE {}

\* The call ends with an error: the executor cannot be reached or stops, the
\* treasury is short, an await throws.
Refuse(s) ==
  /\ jobs[s] # Free /\ jobs[s].step \in Undone
  /\ cycle' = [c \in Cycles |-> Rejected(s, c)]
  /\ jobs' = [jobs EXCEPT ![s] = Free]
  /\ UNCHANGED <<fileVars, records, chainVars, trouble>>

------------------------------------------------------------------------------
Init ==
  /\ queue = AsItems(Prepared)
  /\ done = {} /\ total = 0 /\ torn = {} /\ hourOver = FALSE
  /\ cycle = [c \in Cycles |-> Resting]
  /\ records = {}
  /\ jobs = [s \in Slots |-> Free]
  /\ sent = [r \in Requests |-> 0] /\ hourSent = 0
  /\ trouble = 0

Working(c) ==
  Start(c) \/ Feed(c) \/ HoldBack(c) \/ Call(c) \/ Activity(c) \/ Save(c)

Executing(s) == Repeat(s) \/ Accept(s) \/ Transfer(s) \/ Record(s)

Failing ==
  \/ \E c \in Cycles : LookupFails(c) \/ SaveFails(c)
  \/ \E s \in Slots : AnswerLost(s) \/ Refuse(s)
  \/ WorkerRestarts

Next ==
  \/ \E c \in Cycles : Working(c)
  \/ \E s \in Slots : Executing(s)
  \/ HourPasses
  \/ Failing

Spec == Init /\ [][Next]_vars

\* setInterval starts cycles, time goes on, and what is awaited answers.
FairSpec ==
  /\ Spec
  /\ \A c \in Cycles : WF_vars(Working(c))
  /\ \A s \in Slots : WF_vars(Executing(s))
  /\ WF_vars(HourPasses)

------------------------------------------------------------------------------
(***************************************************************************)
(* Properties.                                                             *)
(***************************************************************************)
JobType ==
  {Free} \cup [step : {"posted", "checked", "confirming"}, req : Requests,
               caller : Cycles \cup {Nobody}, seen : SUBSET Requests]

CycleType ==
  [at : {"resting", "feed", "standing", "executor", "activity", "saving"},
   queue : Seq(Items), done : SUBSET Requests, total : Nat, fresh : BOOLEAN, i : Nat]

TypeOK ==
  /\ queue \in Seq(Items)
  /\ done \subseteq Requests
  /\ total \in Nat
  /\ torn \subseteq {"queue", "state"}
  /\ hourOver \in BOOLEAN
  /\ cycle \in [Cycles -> CycleType]
  /\ records \subseteq Requests
  /\ jobs \in [Slots -> JobType]
  /\ sent \in [Requests -> Nat]
  /\ hourSent \in Nat
  /\ trouble \in Nat

\* PI-4: no swap is paid for twice, whatever the worker forgets, repeats or is
\* not told.
SentOnce ==
  \A r, q \in Requests : r.ref = q.ref /\ sent[r] > 0 /\ sent[q] > 0 => r = q /\ sent[r] = 1

\* PI-8: as long as nothing fails, what is sent in a window of the worker stays
\* below the hourly cap, although the worker counts after it pays and the
\* window begins anew between two cycles.
HourCapKept == trouble = 0 => hourSent <= HourlyMax

\* PI-6: an item the queue file has as paid, failed or duplicate remains what it
\* is, and no item leaves the file.
StatusFinal ==
  [][/\ Len(queue) <= Len(queue')
     /\ \A k \in DOMAIN queue :
          /\ queue'[k].req = queue[k].req
          /\ queue[k].status # "pending" => queue'[k] = queue[k]]_vars

\* A swap in the terms of Settlement.
Sends(ref) == {r \in Requests : r.ref = ref /\ sent[r] > 0}

Reported(ref) == \E k \in DOMAIN queue : queue[k].req.ref = ref /\ queue[k].status = "paid"

\* Whatever overlaps, fails, goes unconfirmed or is restarted: a swap that one of
\* the three files counts as paid has been sent.
PaidWasSent ==
  \A ref \in Refs :
    Reported(ref) \/ (\E r \in done \cup records : r.ref = ref) => Sends(ref) # {}

Phase(ref) ==
  IF Sends(ref) = {} THEN IF Reported(ref) THEN "never sent" ELSE "open"
  ELSE IF \E r, q \in Sends(ref) : r # q \/ sent[r] > 1 THEN "sent again"
  ELSE IF Reported(ref) THEN "reported" ELSE "sent"

Contract == INSTANCE Settlement WITH phase <- [ref \in Refs |-> Phase(ref)]

\* The worker, the executor and their files keep the contract: each swap is sent
\* once, reported after that, and never taken back.
KeepsContract == Contract!Spec

Waits(k) == k \in DOMAIN queue /\ queue[k].status = "pending"

\* An item of an eligible wallet does not stay pending, whatever fails, unless a
\* file is torn: it waits for the cap of an hour and for its retries only.
PendingEnds ==
  \A k \in 1 .. Cardinality(Requests) :
    (Waits(k) /\ queue[k].req \notin Barred) ~> (torn # {} \/ ~Waits(k))
==============================================================================
