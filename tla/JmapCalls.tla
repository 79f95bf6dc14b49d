------------------------------ MODULE JmapCalls ------------------------------
(***************************************************************************)
(* A call of JMAP about many objects: Foo/set and Foo/get as set_call and  *)
(* get_objects of src/src/jmap/request.rs send them, in parts that the     *)
(* server's limits allow, and their callers in the export: identities that *)
(* the target lacks (export/keyed.rs), what --prune destroys (do_destroy   *)
(* of export.rs), and objects of the target that are listed.               *)
(*                                                                         *)
(* A caller works through the items of `task', run after run.  `there'     *)
(* says how many objects of each key the server has.                       *)
(***************************************************************************)
EXTENDS Integers, FiniteSets, SequencesExt

CONSTANTS
  Tasks,        (* [kind, items: of each key, size and whether the server  *)
                (*  refuses it, exact: the size the server takes, there]   *)
  ObjectsLimit, (* maxObjectsInSet, maxObjectsInGet                        *)
  SizeLimit,    (* maxSizeRequest, as the session announces it             *)
  MaxCallRuns,
  CallFaults    (* bound on answers that are lost and requests that fail   *)

ASSUME TasksAssumption ==
  \A t \in Tasks : t.items \in Seq([key : DOMAIN t.there, size : Nat, refused : BOOLEAN])
ASSUME CallBoundsAssumption == ObjectsLimit \in Nat /\ CallFaults \in Nat

VARIABLES task, there, call
callVars == <<task, there, call>>

(* call: the parts to come, what was sent, and the fate of each item, as   *)
(* the answers say; of the run, what it counts.  requests and repeated     *)
(* are history: of this run, and whether a request was ever made twice.    *)
AtRest == [pc |-> "over", parts |-> <<>>, sent |-> <<>>, fates |-> <<>>, batch |-> <<>>, known |-> 0,
           result |-> "none", done |-> 0, skipped |-> 0, failed |-> 0, runs |-> 0, faults |-> 0,
           requests |-> 0, repeated |-> FALSE, calm |-> TRUE]

NoCalls == task = [kind |-> "none"] /\ there = <<>> /\ call = AtRest
CallsInit == task \in Tasks /\ there = task.there /\ call = AtRest

Item(i) == task.items[i]
SizeOf(part) == FoldLeft(LAMBDA n, i : n + Item(i).size, 0, part)

(* chunk by chunk, max(1) of the limit                                     *)
Chunked(batch) ==
  LET n == IF ObjectsLimit > 1 THEN ObjectsLimit ELSE 1
      last(k) == IF k * n < Len(batch) THEN k * n ELSE Len(batch)
  IN [k \in 1..((Len(batch) + n - 1) \div n) |-> SubSeq(batch, (k - 1) * n + 1, last(k))]

(* Seeded bug: a key is looked for on the target only. *)
LackingAnywhere(i) == there[Item(i).key] = 0
(* The identities whose key the target does not have, each key once; of    *)
(* the other callers, every item.                                          *)
Lacking(i) ==
  /\ there[Item(i).key] = 0
  /\ \A j \in 1..(i - 1) : Item(j).key # Item(i).key
(* The members of S from the least to the greatest.                        *)
Numbered(S) == [n \in 1..Cardinality(S) |-> CHOOSE i \in S : Cardinality({j \in S : j <= i}) = n]
Batch == Numbered({i \in DOMAIN task.items : task.kind = "create" => Lacking(i)})

CallStarts ==
  /\ call.pc = "over" /\ task.kind # "none" /\ call.runs < MaxCallRuns
  /\ LET fresh == [AtRest EXCEPT !.runs = call.runs + 1, !.faults = call.faults, !.batch = Batch,
                                 !.known = Len(task.items) - Len(Batch), !.repeated = call.repeated]
     IN call' = IF Batch = <<>> THEN [fresh EXCEPT !.result = "ok", !.skipped = fresh.known]
                ELSE [fresh EXCEPT !.pc = "send", !.parts = Chunked(Batch)]
  /\ UNCHANGED <<task, there>>

-----------------------------------------------------------------------------
(* What the server does with a part.  It destroys no object with something *)
(* in it; the items to destroy are a chain, the innermost first.           *)
Declined(S, i) ==
  \/ Item(i).refused
  \/ task.kind = "destroy" /\ i > 1 /\ S[Item(i - 1).key] > 0
  \/ task.kind # "create" /\ S[Item(i).key] = 0
Change == CASE task.kind = "create" -> 1 [] task.kind = "destroy" -> 0 - 1 [] OTHER -> 0

Served(S, part) ==
  FoldLeft(LAMBDA s, i :
             IF Declined(s.there, i) THEN [s EXCEPT !.fates = Append(@, "refused")]
             ELSE [there |-> [s.there EXCEPT ![Item(i).key] = @ + Change], fates |-> Append(s.fates, "done")],
           [there |-> S, fates |-> <<>>], part)

Sending == call.pc = "send"
This == Head(call.parts)
CallFault == call.faults < CallFaults

(* The caller counts; an error leaves it with nothing but the error, and   *)
(* pruning with as many failures as there were candidates.                 *)
Fated(fates, f) == Cardinality({k \in DOMAIN fates : fates[k] = f})
Returned(c) ==
  [c EXCEPT !.pc = "over", !.result = "ok", !.done = Fated(c.fates, "done"),
            !.skipped = c.known + Fated(c.fates, "refused")]
Abandoned(c) ==
  [c EXCEPT !.pc = "over", !.result = "error", !.parts = <<>>, !.skipped = c.known,
            !.failed = IF task.kind = "destroy" THEN Len(c.batch) ELSE 1]

(* absorb: the outcome of a part is added to those before it.              *)
Absorbed(c, fates) ==
  LET more == [c EXCEPT !.parts = Tail(@), !.sent = @ \o Head(c.parts), !.fates = @ \o fates]
  IN IF more.parts = <<>> THEN Returned(more) ELSE more

(* fits(): too large a request is not sent; the server may take less than  *)
(* it announced, and say so.  Either way the part is halved, unless it is  *)
(* one item.                                                               *)
Sent(c) == [c EXCEPT !.requests = @ + 1]
TooLarge(part) == SizeOf(part) > task.exact \/ SizeOf(part) > SizeLimit
Halved(part) ==
  LET mid == Len(part) \div 2 IN <<SubSeq(part, 1, mid), SubSeq(part, mid + 1, Len(part))>>
PartSplit ==
  /\ Sending /\ TooLarge(This)
  /\ LET c == IF SizeOf(This) > SizeLimit THEN call ELSE Sent(call)
     IN call' = IF Len(This) <= 1 THEN Abandoned(c)
                ELSE [c EXCEPT !.parts = Halved(This) \o Tail(@)]
  /\ UNCHANGED <<task, there>>

PartAnswered ==
  /\ Sending /\ ~TooLarge(This)
  /\ LET s == Served(there, This)
     IN there' = s.there /\ call' = Absorbed(Sent(call), s.fates)
  /\ UNCHANGED task

(* The answer is lost and post_json repeats the request: the second answer *)
(* is what counts.                                                         *)
PartRepeated ==
  /\ Sending /\ ~TooLarge(This) /\ CallFault
  /\ LET s == Served(Served(there, This).there, This)
         c == [call EXCEPT !.faults = @ + 1, !.requests = @ + 2, !.repeated = TRUE]
     IN there' = s.there /\ call' = Absorbed(c, s.fates)
  /\ UNCHANGED task

(* An error for good, after the server has done the first n items: what    *)
(* the parts before it did is forgotten too.                               *)
PartFails(n) ==
  /\ Sending /\ ~TooLarge(This) /\ CallFault
  /\ there' = Served(there, SubSeq(This, 1, n)).there
  /\ call' = [Abandoned(Sent(call)) EXCEPT !.faults = @ + 1, !.calm = FALSE]
  /\ UNCHANGED task

CallsNext ==
  \/ CallStarts \/ PartSplit \/ PartAnswered \/ PartRepeated
  \/ \E n \in 0..Len(task.items) : Sending /\ n <= Len(This) /\ PartFails(n)

CallsFairness == WF_callVars(PartSplit \/ PartAnswered)

-----------------------------------------------------------------------------
CallsTypeOK ==
  /\ call.pc \in {"over", "send"} /\ call.result \in {"none", "ok", "error"}
  /\ (call.pc = "send") = (call.parts # <<>>)
  /\ \A key \in DOMAIN there : there[key] \in Nat

(* Halving ends: a run never makes twice as many requests as it has items, *)
(* but for those that were repeated.                                       *)
RequestsFew == call.requests <= 2 * Len(call.batch) + call.faults

(* What the callers build upon.  A part that was answered is the next one: *)
(* no item is left out, sent twice or before its turn, however the parts   *)
(* were split.  A run that returns says of each item what became of it; it *)
(* fails by itself only for an item too large for any request, and even    *)
(* then has done all before it.  No key is created twice, by any number of *)
(* runs that failed half-way, unless a request was repeated.               *)
EachOnce == Sending => call.sent \o FlattenSeq(call.parts) = call.batch
Acceptable(i) == ~Item(i).refused
Alone(i) == TooLarge(<<i>>)
ToldAll ==
  call.pc = "over" /\ call.result = "ok" =>
    /\ call.done + call.skipped = Len(task.items)
    /\ task.kind = "create" =>
         \A i \in DOMAIN task.items : (there[Item(i).key] > 0) =
           (\E j \in DOMAIN task.items : Item(j).key = Item(i).key /\ (Acceptable(j) \/ task.there[Item(i).key] > 0))
    /\ task.kind = "destroy" =>
         \A i \in DOMAIN task.items : (there[Item(i).key] = 0) = (\A j \in 1..i : Acceptable(j))
FailsForCause ==
  call.pc = "over" /\ call.result = "error" /\ call.calm =>
    \E k \in DOMAIN call.batch :
      /\ Alone(call.batch[k])
      /\ \A j \in 1..(k - 1) : task.kind = "create" /\ Acceptable(call.batch[j]) => there[Item(call.batch[j]).key] > 0
NoKeyTwice == \A key \in DOMAIN there : there[key] > 1 => call.repeated
CallsTold == EachOnce /\ ToldAll /\ FailsForCause /\ NoKeyTwice

CallsOver == call.pc = "over"
=============================================================================
