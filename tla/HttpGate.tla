------------------------------ MODULE HttpGate ------------------------------
(***************************************************************************)
(* HttpClient::execute (src/src/jmap/http.rs) under retry_method_call      *)
(* (request.rs): threads that share one client, its two semaphores         *)
(* (inflight.rs) and its cooldown (retry.rs).                              *)
(*                                                                         *)
(* An attempt waits for the cooldown, takes a permit of the requests gate  *)
(* and, for an upload, one of the uploads gate, talks to the server, gives *)
(* the permits back in the opposite order and only then looks at what the  *)
(* server said: done, failed, or sleep and try again.  A throttled attempt *)
(* arms the cooldown that all threads share.                               *)
(*                                                                         *)
(* Time passes in ticks.  A delay is any number of ticks up to MaxDelay:   *)
(* Retry-After is the server's choice, which hides what the backoff and    *)
(* the shared throttle level would add.                                    *)
(***************************************************************************)
EXTENDS Integers, FiniteSets

CONSTANTS
  Threads,      (* the threads that use the client                         *)
  Uploaders,    (* those whose calls are uploads                           *)
  MaxRequests,  (* maxConcurrentRequests of the session                    *)
  MaxUploads,   (* maxConcurrentUpload of the session                      *)
  MaxRetries,   (* --max-retries                                           *)
  MaxDelay,     (* bound on a delay, in ticks                              *)
  MaxCalls      (* bound on the calls of one thread                        *)

ASSUME ThreadsAssumption == IsFiniteSet(Threads) /\ Uploaders \subseteq Threads
ASSUME CapacityAssumption == MaxRequests \in Nat \ {0} /\ MaxUploads \in Nat \ {0}
ASSUME BoundsAssumption ==
  MaxRetries \in Nat /\ MaxDelay \in Nat /\ MaxCalls \in Nat

VARIABLES
  free,         (* [gate -> permits left]                                  *)
  waiters,      (* [gate -> threads blocked on its condition variable]     *)
  pc,           (* [thread -> where its call is]                           *)
  reply,        (* [thread -> what its attempt ended with]                 *)
  tries,        (* [thread -> attempts of this execute() that failed]      *)
  rounds,       (* [thread -> executes of this call that failed]           *)
  nap,          (* [thread -> ticks it has left to sleep]                  *)
  cooldown,     (* ticks until the shared cooldown is over                 *)
  calls,        (* [thread -> calls made]                                  *)
  sends         (* history: [thread -> requests this call put on the wire] *)

gateVars == <<free, waiters>>
countVars == <<tries, rounds, calls, sends>>
vars == <<free, waiters, pc, reply, tries, rounds, nap, cooldown, calls, sends>>

Gates == {"requests", "uploads"}
Capacity == [g \in Gates |-> IF g = "requests" THEN MaxRequests ELSE MaxUploads]
Replies == {"none", "ok", "fatal", "throttled", "transport", "method"}
Phases == {"idle", "cooling", "requests", "uploads", "sent",
           "dropUploads", "dropRequests", "handle", "nap"}

(* A call in phase p of thread t has a permit of gate g.                   *)
Holds(g, t, p) ==
  IF g = "requests" THEN p \in {"uploads", "sent", "dropUploads", "dropRequests"}
                    ELSE t \in Uploaders /\ p \in {"sent", "dropUploads"}

Holders(g) == {t \in Threads : Holds(g, t, pc[t])}
AwakeAt(g) == {t \in Threads : pc[t] = g /\ t \notin waiters[g]}

Init ==
  /\ free = Capacity
  /\ waiters = [g \in Gates |-> {}]
  /\ pc = [t \in Threads |-> "idle"]
  /\ reply = [t \in Threads |-> "none"]
  /\ tries = [t \in Threads |-> 0] /\ rounds = [t \in Threads |-> 0]
  /\ nap = [t \in Threads |-> 0] /\ cooldown = 0
  /\ calls = [t \in Threads |-> 0] /\ sends = [t \in Threads |-> 0]

Goto(t, from, to) == pc[t] = from /\ pc' = [pc EXCEPT ![t] = to]

Call(t) ==
  /\ Goto(t, "idle", "cooling")
  /\ calls[t] < MaxCalls
  /\ calls' = [calls EXCEPT ![t] = @ + 1]
  /\ tries' = [tries EXCEPT ![t] = 0] /\ rounds' = [rounds EXCEPT ![t] = 0]
  /\ sends' = [sends EXCEPT ![t] = 0]
  /\ UNCHANGED <<gateVars, reply, nap, cooldown>>

(* Cooldown::wait: the deadline is looked at again after each sleep.       *)
CooldownOver(t) ==
  /\ cooldown = 0
  /\ Goto(t, "cooling", "requests")
  /\ UNCHANGED <<gateVars, reply, nap, cooldown, countVars>>

(* Semaphore::acquire by an awake thread: take a permit or block.          *)
Enters(t, g, to) ==
  /\ t \notin waiters[g] /\ free[g] > 0
  /\ Goto(t, g, to)
  /\ free' = [free EXCEPT ![g] = @ - 1]
  /\ UNCHANGED waiters

AcquireRequests(t) ==
  /\ Enters(t, "requests", IF t \in Uploaders THEN "uploads" ELSE "sent")
  /\ sends' = IF t \in Uploaders THEN sends ELSE [sends EXCEPT ![t] = @ + 1]
  /\ UNCHANGED <<reply, tries, rounds, nap, cooldown, calls>>

AcquireUploads(t) ==
  /\ Enters(t, "uploads", "sent")
  /\ sends' = [sends EXCEPT ![t] = @ + 1]
  /\ UNCHANGED <<reply, tries, rounds, nap, cooldown, calls>>

Block(t, g) ==
  /\ pc[t] = g /\ t \notin waiters[g] /\ free[g] = 0
  /\ waiters' = [waiters EXCEPT ![g] = @ \union {t}]
  /\ UNCHANGED <<free, pc, reply, nap, cooldown, countVars>>

(* A condition variable may wake a thread nobody notified.                 *)
SpuriousWakeup(t, g) ==
  /\ t \in waiters[g]
  /\ waiters' = [waiters EXCEPT ![g] = @ \ {t}]
  /\ UNCHANGED <<free, pc, reply, nap, cooldown, countVars>>

(* one_attempt: an answer, or an error after IO_TIMEOUT at the latest.  An *)
(* upload has no method calls that could fail.                             *)
Answer(t, r) ==
  /\ r \in Replies \ (IF t \in Uploaders THEN {"none", "method"} ELSE {"none"})
  /\ Goto(t, "sent", IF t \in Uploaders THEN "dropUploads" ELSE "dropRequests")
  /\ reply' = [reply EXCEPT ![t] = r]
  /\ UNCHANGED <<gateVars, nap, cooldown, countVars>>

(* Seeded bug: the permit is leaked. *)
ReleaseNothing(g) == UNCHANGED gateVars
(* Seeded bug: nobody is notified. *)
ReleaseSilently(g) == free' = [free EXCEPT ![g] = @ + 1] /\ UNCHANGED waiters

(* Semaphore::release, which notifies one waiter if there is any.          *)
Release(g) ==
  /\ free' = [free EXCEPT ![g] = @ + 1]
  /\ \/ waiters[g] = {} /\ UNCHANGED waiters
     \/ \E w \in waiters[g] : waiters' = [waiters EXCEPT ![g] = @ \ {w}]

DropUploads(t) ==
  /\ Goto(t, "dropUploads", "dropRequests")
  /\ Release("uploads")
  /\ UNCHANGED <<reply, nap, cooldown, countVars>>

DropRequests(t) ==
  /\ Goto(t, "dropRequests", "handle")
  /\ Release("requests")
  /\ UNCHANGED <<reply, nap, cooldown, countVars>>

Returns(t) ==
  /\ Goto(t, "handle", "idle")
  /\ reply' = [reply EXCEPT ![t] = "none"]
  /\ UNCHANGED <<gateVars, tries, rounds, nap, cooldown, calls, sends>>

Sleeps(t, d) ==
  /\ Goto(t, "handle", "nap")
  /\ reply' = [reply EXCEPT ![t] = "none"]
  /\ nap' = [nap EXCEPT ![t] = d]

(* Cooldown::arm never shortens the cooldown.                              *)
Arm(d) == cooldown' = IF d > cooldown THEN d ELSE cooldown

(* Seeded bug: one retry too many. *)
SpentLate(n) == n > MaxRetries
Spent(n) == n >= MaxRetries

(* An Err for good, an Ok, or an error with no retry left.                 *)
Finish(t) ==
  /\ \/ reply[t] \in {"ok", "fatal"}
     \/ reply[t] \in {"throttled", "transport"} /\ Spent(tries[t])
     \/ reply[t] = "method" /\ Spent(rounds[t])
  /\ Returns(t)

RetryThrottled(t, d) ==
  /\ reply[t] = "throttled" /\ ~Spent(tries[t])
  /\ tries' = [tries EXCEPT ![t] = @ + 1]
  /\ Arm(d) /\ Sleeps(t, d)
  /\ UNCHANGED <<gateVars, rounds, calls, sends>>

RetryTransport(t, d) ==
  /\ reply[t] = "transport" /\ ~Spent(tries[t])
  /\ tries' = [tries EXCEPT ![t] = @ + 1]
  /\ Sleeps(t, d)
  /\ UNCHANGED <<gateVars, cooldown, rounds, calls, sends>>

(* retry_method_call: a new execute(), which counts its tries anew.        *)
RetryMethod(t, d) ==
  /\ reply[t] = "method" /\ ~Spent(rounds[t])
  /\ rounds' = [rounds EXCEPT ![t] = @ + 1]
  /\ tries' = [tries EXCEPT ![t] = 0]
  /\ Arm(d) /\ Sleeps(t, d)
  /\ UNCHANGED <<gateVars, calls, sends>>

WakeUp(t) ==
  /\ nap[t] = 0
  /\ Goto(t, "nap", "cooling")
  /\ UNCHANGED <<gateVars, reply, nap, cooldown, countVars>>

(* Seeded bug: a time that is over goes on falling. *)
LessUnchecked(n) == n - 1
Less(n) == IF n = 0 THEN 0 ELSE n - 1

Tick ==
  /\ cooldown > 0 \/ \E t \in Threads : nap[t] > 0
  /\ cooldown' = Less(cooldown)
  /\ nap' = [t \in Threads |-> Less(nap[t])]
  /\ UNCHANGED <<gateVars, pc, reply, countVars>>

Handle(t) ==
  \/ Finish(t)
  \/ \E d \in 0..MaxDelay :
       RetryThrottled(t, d) \/ RetryTransport(t, d) \/ RetryMethod(t, d)

ThreadStep(t) ==
  \/ CooldownOver(t)
  \/ AcquireRequests(t) \/ AcquireUploads(t)
  \/ \E g \in Gates : Block(t, g)
  \/ \E r \in Replies : Answer(t, r)
  \/ DropUploads(t) \/ DropRequests(t)
  \/ Handle(t) \/ WakeUp(t)

Next ==
  \/ \E t \in Threads : Call(t) \/ ThreadStep(t)
  \/ \E t \in Threads, g \in Gates : SpuriousWakeup(t, g)
  \/ Tick

Spec == Init /\ [][Next]_vars

(* Threads are scheduled, requests time out and time passes.  Nobody has   *)
(* to make a call, and no wakeup comes without a notification.             *)
GateFairness == WF_vars(Tick) /\ \A t \in Threads : WF_vars(ThreadStep(t))

-----------------------------------------------------------------------------
(* Types of the gates, the cooldown and execute()'s locals.                *)
TypeOK ==
  /\ free \in [Gates -> Nat] /\ waiters \in [Gates -> SUBSET Threads]
  /\ pc \in [Threads -> Phases] /\ reply \in [Threads -> Replies]
  /\ tries \in [Threads -> 0..MaxRetries] /\ rounds \in [Threads -> 0..MaxRetries]
  /\ nap \in [Threads -> 0..MaxDelay] /\ cooldown \in 0..MaxDelay
  /\ calls \in [Threads -> 0..MaxCalls] /\ sends \in [Threads -> Nat]

(* The README's "per-server concurrency caps respected": whatever is       *)
(* retried, throttled or timed out, no permit is lost or given back twice, *)
(* so that the requests at the server never exceed either cap and, when    *)
(* all threads are done, every permit is there again.                      *)
CapsRespected ==
  \A g \in Gates : free[g] + Cardinality(Holders(g)) = Capacity[g]

(* No wakeup is lost between the check of the count and the wait, and none *)
(* is swallowed by a thread that came later: while threads wait at a gate, *)
(* every free permit has an awake thread that is about to take one.        *)
NoLostWakeup ==
  \A g \in Gates :
    /\ \A t \in waiters[g] : pc[t] = g
    /\ waiters[g] # {} => Cardinality(AwakeAt(g)) >= free[g]

(* Each call returns: a thread that waits for the cooldown, for a permit,  *)
(* for the second permit while it holds the first, or sleeps, goes on.  As *)
(* there are finitely many calls, no thread is left in one in the end.     *)
NoCall == \A t \in Threads : pc[t] = "idle"

(* The retries of execute() nest in those of retry_method_call: one call   *)
(* makes at most MaxRetries + 1 executes of at most MaxRetries + 1         *)
(* attempts each, and no more, however the two kinds of errors alternate.  *)
SendsBounded ==
  \A t \in Threads : sends[t] <= rounds[t] * (MaxRetries + 1) + tries[t] + 1
=============================================================================
