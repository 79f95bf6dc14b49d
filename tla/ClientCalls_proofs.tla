------------------------- MODULE ClientCalls_proofs -------------------------
(***************************************************************************)
(* What holds of the requests of the JMAP client, of the calls of the DAV, *)
(* EWS and Graph clients, of the token they are made with, of the          *)
(* sign-ins and sessions of the ManageSieve and IMAP clients, of the calls *)
(* about many objects and of the search of a service, for any threads,     *)
(* capacities, retries, delays, versions, times, items and answers.        *)
(*                                                                         *)
(* The two gates of HttpGate neither lose a permit nor a wakeup: their     *)
(* invariant is closed under the steps once it says who comes to the       *)
(* uploads gate, as only an uploader ever holds two permits (Routed).  The *)
(* requests of another client's call are bounded although the schema       *)
(* version it lowers is shared: what other calls raised meanwhile is what  *)
(* it may lower once more (Headroom).  The token lasts because, wherever   *)
(* the refresher is, the ticks that are left, those it does not know of    *)
(* and those its failures have cost make up the reserve (Ahead).  A sign-  *)
(* in is covered because the channel it goes over is the one its           *)
(* capabilities were read on (LoginInv) or was sealed before (ShellInv).   *)
(* Halving ends because the parts to come are cut from the batch and never *)
(* empty (Cuts), so that each request is paid for by an item or a part     *)
(* (PartsLeft); a search ends because each place it asks is behind the     *)
(* next (EwsPaid, DavPaid, JmapPaid), and finds what was meant because it  *)
(* knows what it has gone past (SeekMeant).  Answers are not mistaken      *)
(* because between commands nothing is left to read, and during one what   *)
(* is left ends with its last line (SessionTalk, ShellTalk), and because   *)
(* both ends of an IMAP connection know what it is (LinesInv).  The last   *)
(* theorems put these side by side (PartsInv).                             *)
(***************************************************************************)
EXTENDS MCClients, FiniteSetTheorems, SequenceTheorems, TLAPS

(* The gates of the JMAP client.                                           *)

Routed == \A t \in Threads : pc[t] \in {"uploads", "dropUploads"} => t \in Uploaders

IInv == TypeOK /\ Routed /\ CapsRespected /\ NoLostWakeup

(* The steps of Next, each for some thread, gate, reply or delay.          *)
MovesOn(t) ==
  Call(t) \/ CooldownOver(t) \/ AcquireRequests(t) \/ AcquireUploads(t)
  \/ (\E r \in Replies : Answer(t, r)) \/ DropUploads(t) \/ DropRequests(t)
  \/ Handle(t) \/ WakeUp(t)

Waits(t) == \E g \in Gates : Block(t, g) \/ SpuriousWakeup(t, g)

(* Next is made of moves, waits and ticks.                                 *)
LEMMA NextCases ==
  ASSUME Next
  PROVE  (\E t \in Threads : MovesOn(t) \/ Waits(t)) \/ Tick
BY DEF Next, ThreadStep, MovesOn, Waits

-----------------------------------------------------------------------------
(* The sets the invariant counts are finite.                               *)
LEMMA SetsFinite ==
  ASSUME NEW g \in Gates
  PROVE  /\ IsFiniteSet(Holders(g)) /\ Cardinality(Holders(g)) \in Nat
         /\ IsFiniteSet(AwakeAt(g)) /\ Cardinality(AwakeAt(g)) \in Nat
         /\ IsFiniteSet(Holders(g)') /\ Cardinality(Holders(g)') \in Nat
         /\ IsFiniteSet(AwakeAt(g)') /\ Cardinality(AwakeAt(g)') \in Nat
<1>1. \A S \in SUBSET Threads : IsFiniteSet(S) /\ Cardinality(S) \in Nat
  BY ThreadsAssumption, FS_Subset, FS_CardinalityType
<1>2. /\ Holders(g) \in SUBSET Threads /\ AwakeAt(g) \in SUBSET Threads
      /\ Holders(g)' \in SUBSET Threads /\ AwakeAt(g)' \in SUBSET Threads
  BY DEF Holders, AwakeAt
<1> QED
  BY <1>1, <1>2

(* Every step keeps the types of the client and of its calls.              *)
LEMMA TypeStep == TypeOK /\ Next => TypeOK'
<1> SUFFICES ASSUME TypeOK, Next PROVE TypeOK'
  OBVIOUS
<1> USE BoundsAssumption DEF TypeOK, gateVars, countVars, Goto, Phases, Replies, Gates
<1>1. ASSUME NEW t \in Threads, MovesOn(t) PROVE TypeOK'
  <2>1. CASE Call(t)
    BY <2>1 DEF Call
  <2>2. CASE CooldownOver(t)
    BY <2>2 DEF CooldownOver
  <2>3. CASE AcquireRequests(t)
    BY <2>3 DEF AcquireRequests, Enters
  <2>4. CASE AcquireUploads(t)
    BY <2>4 DEF AcquireUploads, Enters
  <2>5. ASSUME NEW r \in Replies, Answer(t, r) PROVE TypeOK'
    BY <2>5 DEF Answer
  <2>6. CASE DropUploads(t)
    BY <2>6 DEF DropUploads, Release
  <2>7. CASE DropRequests(t)
    BY <2>7 DEF DropRequests, Release
  <2>8. CASE Finish(t)
    BY <2>8 DEF Finish, Returns
  <2>9. ASSUME NEW d \in 0..MaxDelay, RetryThrottled(t, d) PROVE TypeOK'
    BY <2>9 DEF RetryThrottled, Sleeps, Arm, Spent
  <2>10. ASSUME NEW d \in 0..MaxDelay, RetryTransport(t, d) PROVE TypeOK'
    BY <2>10 DEF RetryTransport, Sleeps, Spent
  <2>11. ASSUME NEW d \in 0..MaxDelay, RetryMethod(t, d) PROVE TypeOK'
    BY <2>11 DEF RetryMethod, Sleeps, Arm, Spent
  <2>12. CASE WakeUp(t)
    BY <2>12 DEF WakeUp
  <2> QED
    BY <1>1, <2>1, <2>2, <2>3, <2>4, <2>5, <2>6, <2>7, <2>8, <2>9, <2>10,
       <2>11, <2>12 DEF MovesOn, Handle
<1>2. ASSUME NEW t \in Threads, Waits(t) PROVE TypeOK'
  BY <1>2 DEF Waits, Block, SpuriousWakeup
<1>3. CASE Tick
  BY <1>3 DEF Tick, Less
<1> QED
  BY <1>1, <1>2, <1>3, NextCases

-----------------------------------------------------------------------------
(* What a step of a thread does to the permits: it takes or gives back one *)
(* permit of one gate, or none.                                            *)
Took(t, g) ==
  /\ t \notin Holders(g) /\ Holders(g)' = Holders(g) \union {t}
  /\ free[g] > 0 /\ free'[g] = free[g] - 1
Gave(t, g) ==
  /\ t \in Holders(g) /\ Holders(g)' = Holders(g) \ {t}
  /\ free'[g] = free[g] + 1
HeldOn(g) == Holders(g)' = Holders(g) /\ free'[g] = free[g]

(* execute() takes a permit of one gate, gives one back, or leaves the     *)
(* gate alone.                                                             *)
LEMMA Permits ==
  ASSUME TypeOK, Routed, Next, NEW g \in Gates
  PROVE  HeldOn(g) \/ \E t \in Threads : Took(t, g) \/ Gave(t, g)
<1> USE DEF Gates, gateVars, countVars
<1>m. ASSUME NEW t \in Threads, NEW q, pc' = [pc EXCEPT ![t] = q]
      PROVE  /\ Holds(g, t, q) /\ Holds(g, t, pc[t]) => Holders(g)' = Holders(g)
             /\ ~Holds(g, t, q) /\ ~Holds(g, t, pc[t]) => Holders(g)' = Holders(g)
             /\ Holds(g, t, q) /\ ~Holds(g, t, pc[t]) =>
                  t \notin Holders(g) /\ Holders(g)' = Holders(g) \union {t}
             /\ ~Holds(g, t, q) /\ Holds(g, t, pc[t]) =>
                  t \in Holders(g) /\ Holders(g)' = Holders(g) \ {t}
  <2>1. \A u \in Threads : pc'[u] = IF u = t THEN q ELSE pc[u]
    BY <1>m DEF TypeOK
  <2> QED
    BY <2>1 DEF Holders
<1>1. ASSUME NEW t \in Threads, MovesOn(t)
      PROVE  HeldOn(g) \/ Took(t, g) \/ Gave(t, g)
  <2>1. CASE Call(t)
    <3>1. pc' = [pc EXCEPT ![t] = "cooling"] /\ pc[t] = "idle" /\ free' = free
      BY <2>1 DEF Call, Goto
    <3>2. ~Holds(g, t, "cooling") /\ ~Holds(g, t, pc[t])
      BY <3>1 DEF Holds
    <3> QED
      BY <3>1, <3>2, <1>m DEF HeldOn
  <2>2. CASE CooldownOver(t)
    <3>1. pc' = [pc EXCEPT ![t] = "requests"] /\ pc[t] = "cooling" /\ free' = free
      BY <2>2 DEF CooldownOver, Goto
    <3>2. ~Holds(g, t, "requests") /\ ~Holds(g, t, pc[t])
      BY <3>1 DEF Holds
    <3> QED
      BY <3>1, <3>2, <1>m DEF HeldOn
  <2>3. CASE AcquireRequests(t)
    BY <2>3, <1>m DEF AcquireRequests, Enters, Goto, Holds, HeldOn, Took, TypeOK
  <2>4. CASE AcquireUploads(t)
    <3>1. t \in Uploaders
      BY <2>4 DEF AcquireUploads, Enters, Goto, Routed
    <3> QED
      BY <2>4, <3>1, <1>m DEF AcquireUploads, Enters, Goto, Holds, HeldOn, Took, TypeOK
  <2>5. ASSUME NEW r \in Replies, Answer(t, r) PROVE HeldOn(g)
    BY <2>5, <1>m DEF Answer, Goto, Holds, HeldOn
  <2>6. CASE DropUploads(t)
    <3>1. pc' = [pc EXCEPT ![t] = "dropRequests"] /\ pc[t] = "dropUploads"
      BY <2>6 DEF DropUploads, Goto
    <3>2. free' = [free EXCEPT !["uploads"] = @ + 1]
      BY <2>6 DEF DropUploads, Release
    <3>3. CASE g = "uploads"
      <4>1. ~Holds(g, t, "dropRequests") /\ Holds(g, t, pc[t])
        BY <3>1, <3>3, <2>6 DEF Holds, Routed
      <4>2. free'[g] = free[g] + 1
        BY <3>2, <3>3 DEF TypeOK
      <4> QED
        BY <3>1, <4>1, <4>2, <1>m DEF Gave
    <3>4. CASE g # "uploads"
      <4>1. Holds(g, t, "dropRequests") <=> Holds(g, t, pc[t])
        BY <3>1, <3>4 DEF Holds
      <4>2. free'[g] = free[g]
        BY <3>2, <3>4 DEF TypeOK
      <4> QED
        BY <3>1, <4>1, <4>2, <1>m DEF HeldOn
    <3> QED
      BY <3>3, <3>4
  <2>7. CASE DropRequests(t)
    <3>1. pc' = [pc EXCEPT ![t] = "handle"] /\ pc[t] = "dropRequests"
      BY <2>7 DEF DropRequests, Goto
    <3>2. free' = [free EXCEPT !["requests"] = @ + 1]
      BY <2>7 DEF DropRequests, Release
    <3>3. CASE g = "requests"
      <4>1. ~Holds(g, t, "handle") /\ Holds(g, t, pc[t])
        BY <3>1, <3>3 DEF Holds
      <4>2. free'[g] = free[g] + 1
        BY <3>2, <3>3 DEF TypeOK
      <4> QED
        BY <3>1, <4>1, <4>2, <1>m DEF Gave
    <3>4. CASE g # "requests"
      <4>1. Holds(g, t, "handle") <=> Holds(g, t, pc[t])
        BY <3>1, <3>4 DEF Holds
      <4>2. free'[g] = free[g]
        BY <3>2, <3>4 DEF TypeOK
      <4> QED
        BY <3>1, <4>1, <4>2, <1>m DEF HeldOn
    <3> QED
      BY <3>3, <3>4
  <2>8. CASE Handle(t)
    BY <2>8, <1>m DEF Handle, Finish, Returns, RetryThrottled, RetryTransport,
                      RetryMethod, Sleeps, Goto, Holds, HeldOn
  <2>9. CASE WakeUp(t)
    <3>1. pc' = [pc EXCEPT ![t] = "cooling"] /\ pc[t] = "nap" /\ free' = free
      BY <2>9 DEF WakeUp, Goto
    <3>2. ~Holds(g, t, "cooling") /\ ~Holds(g, t, pc[t])
      BY <3>1 DEF Holds
    <3> QED
      BY <3>1, <3>2, <1>m DEF HeldOn
  <2> QED
    BY <1>1, <2>1, <2>2, <2>3, <2>4, <2>5, <2>6, <2>7, <2>8, <2>9 DEF MovesOn
<1>2. ASSUME NEW t \in Threads, Waits(t) PROVE HeldOn(g)
  BY <1>2 DEF Waits, Block, SpuriousWakeup, HeldOn, Holders
<1>3. CASE Tick
  BY <1>3 DEF Tick, HeldOn, Holders
<1> QED
  BY <1>1, <1>2, <1>3, NextCases

(* Taking and giving back keep the sum of the permits of a gate.           *)
LEMMA CapsStep == TypeOK /\ Routed /\ CapsRespected /\ Next => CapsRespected'
<1> SUFFICES ASSUME TypeOK, Routed, CapsRespected, Next, NEW g \in Gates
             PROVE  free'[g] + Cardinality(Holders(g)') = Capacity[g]
  BY DEF CapsRespected
<1>1. /\ IsFiniteSet(Holders(g)) /\ Cardinality(Holders(g)) \in Nat
      /\ Cardinality(Holders(g)') \in Nat /\ free[g] \in Nat
  BY SetsFinite DEF TypeOK
<1>2. free[g] + Cardinality(Holders(g)) = Capacity[g]
  BY DEF CapsRespected
<1>3. CASE HeldOn(g)
  BY <1>2, <1>3 DEF HeldOn
<1>4. ASSUME NEW t \in Threads, Took(t, g)
      PROVE  free'[g] + Cardinality(Holders(g)') = Capacity[g]
  <2>1. Cardinality(Holders(g)') = Cardinality(Holders(g)) + 1
    BY <1>1, <1>4, FS_AddElement DEF Took
  <2> QED
    BY <1>1, <1>2, <1>4, <2>1 DEF Took
<1>5. ASSUME NEW t \in Threads, Gave(t, g)
      PROVE  free'[g] + Cardinality(Holders(g)') = Capacity[g]
  <2>1. Cardinality(Holders(g)') = Cardinality(Holders(g)) - 1
    BY <1>1, <1>5, FS_RemoveElement DEF Gave
  <2> QED
    BY <1>1, <1>2, <1>5, <2>1 DEF Gave
<1> QED
  BY <1>3, <1>4, <1>5, Permits

-----------------------------------------------------------------------------
(* What a step does to those who wait at a gate.                           *)
Steady(g) ==
  /\ waiters'[g] \subseteq waiters[g] /\ free'[g] = free[g]
  /\ AwakeAt(g) \subseteq AwakeAt(g)'
Entered(t, g) ==
  /\ waiters'[g] = waiters[g] /\ free'[g] = free[g] - 1
  /\ t \in AwakeAt(g) /\ AwakeAt(g)' = AwakeAt(g) \ {t}
Blocked(g) == free[g] = 0 /\ free'[g] = 0
Released(g) ==
  /\ free'[g] = free[g] + 1
  /\ \/ waiters'[g] = {}
     \/ \E w \in waiters[g] :
          /\ w \notin AwakeAt(g) /\ AwakeAt(g)' = AwakeAt(g) \union {w}

(* Who waits at a gate is a call that came to it, before and after a step. *)
LEMMA WaitersStep ==
  ASSUME TypeOK, Next, \A g \in Gates : \A t \in waiters[g] : pc[t] = g
  PROVE  \A g \in Gates : \A t \in waiters'[g] : pc'[t] = g
<1> USE DEF Gates, gateVars, countVars, Goto, TypeOK
<1>1. ASSUME NEW t \in Threads, MovesOn(t)
      PROVE  \A g \in Gates : \A u \in waiters'[g] : pc'[u] = g
  <2>1. \A g \in Gates : waiters'[g] \subseteq waiters[g]
    BY <1>1 DEF MovesOn, Call, CooldownOver, AcquireRequests, AcquireUploads, Enters,
                Answer, DropUploads, DropRequests, Release, Handle, Finish, Returns,
                RetryThrottled, RetryTransport, RetryMethod, Sleeps, WakeUp
  <2>2. \A u \in Threads : u # t => pc'[u] = pc[u]
    BY <1>1 DEF MovesOn, Call, CooldownOver, AcquireRequests, AcquireUploads, Enters,
                Answer, DropUploads, DropRequests, Handle, Finish, Returns,
                RetryThrottled, RetryTransport, RetryMethod, Sleeps, WakeUp
  <2>3. \A g \in Gates : t \notin waiters[g]
    BY <1>1 DEF MovesOn, Call, CooldownOver, AcquireRequests, AcquireUploads, Enters,
                Answer, DropUploads, DropRequests, Handle, Finish, Returns,
                RetryThrottled, RetryTransport, RetryMethod, Sleeps, WakeUp
  <2> QED
    BY <2>1, <2>2, <2>3
<1>2. ASSUME NEW t \in Threads, Waits(t)
      PROVE  \A g \in Gates : \A u \in waiters'[g] : pc'[u] = g
  BY <1>2 DEF Waits, Block, SpuriousWakeup
<1>3. CASE Tick
  BY <1>3 DEF Tick
<1> QED
  BY <1>1, <1>2, <1>3, NextCases

(* Every step is one of the four kinds at each gate.                       *)
LEMMA Wakeups ==
  ASSUME TypeOK, Next, NEW g \in Gates, \A t \in waiters[g] : pc[t] = g
  PROVE  \/ Steady(g) \/ Blocked(g) \/ Released(g)
         \/ \E t \in Threads : Entered(t, g)
<1> USE DEF Gates, gateVars, countVars
<1>t. waiters[g] \subseteq Threads
  BY DEF TypeOK
<1>m. ASSUME NEW t \in Threads, NEW q, pc' = [pc EXCEPT ![t] = q], pc[t] # g,
             waiters' = waiters, free'[g] = free[g]
      PROVE  Steady(g)
  <2>1. \A u \in Threads : pc'[u] = IF u = t THEN q ELSE pc[u]
    BY <1>m DEF TypeOK
  <2> QED
    BY <1>m, <2>1 DEF Steady, AwakeAt
<1>e. ASSUME NEW t \in Threads, NEW q \in Phases \ {g}, NEW h \in Gates, Enters(t, h, q)
      PROVE  Steady(g) \/ Entered(t, g)
  <2>1. /\ pc' = [pc EXCEPT ![t] = q] /\ pc[t] = h /\ t \notin waiters[h]
        /\ waiters' = waiters /\ free' = [free EXCEPT ![h] = @ - 1]
    BY <1>e DEF Enters, Goto
  <2>2. CASE h = g
    <3>1. \A u \in Threads : pc'[u] = IF u = t THEN q ELSE pc[u]
      BY <2>1 DEF TypeOK
    <3>2. free'[g] = free[g] - 1
      BY <2>1, <2>2 DEF TypeOK
    <3>3. t \in AwakeAt(g) /\ AwakeAt(g)' = AwakeAt(g) \ {t}
      BY <2>1, <2>2, <3>1, q # g DEF AwakeAt
    <3> QED
      BY <2>1, <3>2, <3>3 DEF Entered
  <2>3. CASE h # g
    <3>1. free'[g] = free[g]
      BY <2>1, <2>3 DEF TypeOK
    <3> QED
      BY <2>1, <2>3, <3>1, <1>m
  <2> QED
    BY <2>2, <2>3
<1>r. ASSUME NEW t \in Threads, NEW from \in Phases \ Gates, NEW q \in Phases \ Gates,
             NEW h \in Gates, Goto(t, from, q), Release(h)
      PROVE  Steady(g) \/ Released(g)
  <2>1. \A u \in Threads : pc'[u] = IF u = t THEN q ELSE pc[u]
    BY <1>r DEF TypeOK, Goto
  <2>2. pc[t] # g /\ q # g
    BY <1>r DEF Goto
  <2>3. free' = [free EXCEPT ![h] = @ + 1]
    BY <1>r DEF Release
  <2>4. CASE h = g
    <3>1. free'[g] = free[g] + 1
      BY <2>3, <2>4 DEF TypeOK
    <3>2. CASE waiters[h] = {} /\ UNCHANGED waiters
      BY <2>4, <3>1, <3>2 DEF Released
    <3>3. ASSUME NEW w \in waiters[h], waiters' = [waiters EXCEPT ![h] = @ \ {w}]
          PROVE  Released(g)
      <4>1. waiters'[g] = waiters[g] \ {w} /\ w \in Threads /\ pc[w] = g
        BY <1>t, <2>4, <3>3 DEF TypeOK
      <4>2. w \notin AwakeAt(g) /\ AwakeAt(g)' = AwakeAt(g) \union {w}
        BY <2>1, <2>2, <2>4, <3>3, <4>1 DEF AwakeAt
      <4> QED
        BY <2>4, <3>1, <3>3, <4>2 DEF Released
    <3> QED
      BY <1>r, <3>2, <3>3 DEF Release
  <2>5. CASE h # g
    <3>1. free'[g] = free[g] /\ waiters'[g] = waiters[g]
      BY <1>r, <2>3, <2>5 DEF TypeOK, Release
    <3>2. AwakeAt(g)' = AwakeAt(g)
      BY <2>1, <2>2, <3>1 DEF AwakeAt
    <3> QED
      BY <3>1, <3>2 DEF Steady
  <2> QED
    BY <2>4, <2>5
<1>1. ASSUME NEW t \in Threads, MovesOn(t)
      PROVE  Steady(g) \/ Released(g) \/ Entered(t, g)
  <2>1. CASE Call(t)
    BY <2>1, <1>m DEF Call, Goto
  <2>2. CASE CooldownOver(t)
    BY <2>2, <1>m DEF CooldownOver, Goto
  <2>3. CASE AcquireRequests(t)
    <3>1. CASE t \in Uploaders
      <4>1. Enters(t, "requests", "uploads")
        BY <2>3, <3>1 DEF AcquireRequests
      <4>2. CASE g = "requests"
        BY <4>1, <4>2, <1>e DEF Phases
      <4>3. CASE g = "uploads"
        <5>1. /\ \A u \in Threads : pc'[u] = IF u = t THEN "uploads" ELSE pc[u]
              /\ waiters' = waiters /\ free'[g] = free[g] /\ pc[t] = "requests"
          BY <4>1, <4>3 DEF Enters, Goto, TypeOK
        <5> QED
          BY <4>3, <5>1 DEF Steady, AwakeAt
      <4> QED
        BY <4>2, <4>3
    <3>2. CASE t \notin Uploaders
      <4>1. Enters(t, "requests", "sent")
        BY <2>3, <3>2 DEF AcquireRequests
      <4> QED
        BY <4>1, <1>e DEF Phases
    <3> QED
      BY <3>1, <3>2
  <2>4. CASE AcquireUploads(t)
    BY <2>4, <1>e DEF AcquireUploads, Phases
  <2>5. ASSUME NEW r \in Replies, Answer(t, r) PROVE Steady(g)
    <3>1. pc[t] = "sent" /\ UNCHANGED <<free, waiters>>
      BY <2>5 DEF Answer, Goto
    <3>2. \E q : pc' = [pc EXCEPT ![t] = q]
      BY <2>5 DEF Answer, Goto
    <3> QED
      BY <3>1, <3>2, <1>m
  <2>6. CASE DropUploads(t)
    BY <2>6, <1>r DEF DropUploads, Phases
  <2>7. CASE DropRequests(t)
    BY <2>7, <1>r DEF DropRequests, Phases
  <2>8. CASE Handle(t)
    <3>1. pc[t] = "handle" /\ UNCHANGED <<free, waiters>>
      BY <2>8 DEF Handle, Finish, Returns, RetryThrottled, RetryTransport,
                  RetryMethod, Sleeps, Goto
    <3>2. \E q : pc' = [pc EXCEPT ![t] = q]
      BY <2>8 DEF Handle, Finish, Returns, RetryThrottled, RetryTransport,
                  RetryMethod, Sleeps, Goto
    <3> QED
      BY <3>1, <3>2, <1>m
  <2>9. CASE WakeUp(t)
    BY <2>9, <1>m DEF WakeUp, Goto
  <2> QED
    BY <1>1, <2>1, <2>2, <2>3, <2>4, <2>5, <2>6, <2>7, <2>8, <2>9 DEF MovesOn
<1>2. ASSUME NEW t \in Threads, NEW h \in Gates, Block(t, h)
      PROVE  Steady(g) \/ Blocked(g)
  <2>1. CASE h = g
    BY <1>2, <2>1 DEF Block, Blocked
  <2>2. CASE h # g
    <3>1. waiters'[g] = waiters[g] /\ UNCHANGED <<free, pc>>
      BY <1>2, <2>2 DEF Block, TypeOK
    <3> QED
      BY <3>1 DEF Steady, AwakeAt
  <2> QED
    BY <2>1, <2>2
<1>3. ASSUME NEW t \in Threads, NEW h \in Gates, SpuriousWakeup(t, h)
      PROVE  Steady(g)
  <2>1. waiters'[g] \subseteq waiters[g] /\ UNCHANGED <<free, pc>>
    BY <1>3 DEF SpuriousWakeup, TypeOK
  <2> QED
    BY <2>1 DEF Steady, AwakeAt
<1>4. CASE Tick
  BY <1>4 DEF Tick, Steady, AwakeAt
<1> QED
  BY <1>1, <1>2, <1>3, <1>4, NextCases DEF Waits

(* Each kind of step keeps an awake thread for every free permit.          *)
LEMMA WakeStep == TypeOK /\ NoLostWakeup /\ Next => NoLostWakeup'
<1> SUFFICES ASSUME TypeOK, NoLostWakeup, Next PROVE NoLostWakeup'
  OBVIOUS
<1>1. \A g \in Gates : \A t \in waiters'[g] : pc'[t] = g
  BY WaitersStep DEF NoLostWakeup
<1>2. ASSUME NEW g \in Gates, waiters'[g] # {}
      PROVE  Cardinality(AwakeAt(g)') >= free'[g]
  <2>1. /\ IsFiniteSet(AwakeAt(g)) /\ Cardinality(AwakeAt(g)) \in Nat
        /\ IsFiniteSet(AwakeAt(g)') /\ Cardinality(AwakeAt(g)') \in Nat
        /\ free[g] \in Nat
    BY SetsFinite DEF TypeOK
  <2>2. waiters[g] # {} => Cardinality(AwakeAt(g)) >= free[g]
    BY DEF NoLostWakeup
  <2>3. CASE Steady(g)
    <3>1. Cardinality(AwakeAt(g)) <= Cardinality(AwakeAt(g)')
      BY <2>1, <2>3, FS_Subset DEF Steady
    <3>2. Cardinality(AwakeAt(g)) >= free[g] /\ free'[g] = free[g]
      BY <1>2, <2>2, <2>3 DEF Steady
    <3> QED
      BY <2>1, <3>1, <3>2
  <2>4. CASE Blocked(g)
    BY <2>1, <2>4 DEF Blocked
  <2>5. CASE Released(g)
    <3>1. PICK w \in waiters[g] :
            w \notin AwakeAt(g) /\ AwakeAt(g)' = AwakeAt(g) \union {w}
      BY <1>2, <2>5 DEF Released
    <3>2. Cardinality(AwakeAt(g)') = Cardinality(AwakeAt(g)) + 1
      BY <2>1, <3>1, FS_AddElement
    <3> QED
      BY <2>1, <2>2, <2>5, <3>2 DEF Released
  <2>6. ASSUME NEW t \in Threads, Entered(t, g)
        PROVE  Cardinality(AwakeAt(g)') >= free'[g]
    <3>1. Cardinality(AwakeAt(g)') = Cardinality(AwakeAt(g)) - 1
      BY <2>1, <2>6, FS_RemoveElement DEF Entered
    <3> QED
      BY <1>2, <2>1, <2>2, <2>6, <3>1 DEF Entered
  <2>7. \A t \in waiters[g] : pc[t] = g
    BY DEF NoLostWakeup
  <2> QED
    BY <2>3, <2>4, <2>5, <2>6, <2>7, Wakeups
<1> QED
  BY <1>1, <1>2 DEF NoLostWakeup

-----------------------------------------------------------------------------
(* A client nobody uses yet satisfies the invariant.                       *)
LEMMA InitIInv == Init => IInv
<1> SUFFICES ASSUME Init PROVE IInv
  OBVIOUS
<1> USE CapacityAssumption, BoundsAssumption DEF Init, Gates
<1>1. TypeOK
  BY DEF TypeOK, Capacity, Phases, Replies
<1>2. \A g \in Gates : Holders(g) = {}
  BY DEF Holders, Holds
<1>3. \A g \in Gates : Capacity[g] \in Nat
  BY DEF Capacity
<1>4. CapsRespected
  BY <1>2, <1>3, FS_EmptySet DEF CapsRespected
<1>5. NoLostWakeup /\ Routed
  BY DEF NoLostWakeup, Routed
<1> QED
  BY <1>1, <1>4, <1>5 DEF IInv

(* Only an uploader goes on to the uploads gate.                           *)
LEMMA RoutedStep == TypeOK /\ Routed /\ Next => Routed'
<1> SUFFICES ASSUME TypeOK, Routed, Next PROVE Routed'
  OBVIOUS
<1> USE DEF TypeOK, Goto, gateVars
<1>1. ASSUME NEW t \in Threads, MovesOn(t) PROVE Routed'
  BY <1>1 DEF Routed, MovesOn, Call, CooldownOver, AcquireRequests, AcquireUploads,
              Enters, Answer, DropUploads, DropRequests, Handle, Finish, Returns,
              RetryThrottled, RetryTransport, RetryMethod, Sleeps, WakeUp
<1>2. ASSUME NEW t \in Threads, Waits(t) PROVE Routed'
  BY <1>2 DEF Waits, Block, SpuriousWakeup, Routed
<1>3. CASE Tick
  BY <1>3 DEF Tick, Routed
<1> QED
  BY <1>1, <1>2, <1>3, NextCases

(* IInv is kept by every step, and is an invariant of the client.          *)
LEMMA IInvStep == IInv /\ [Next]_vars => IInv'
<1>1. IInv /\ Next => IInv'
  BY TypeStep, RoutedStep, CapsStep, WakeStep DEF IInv
<1>2. IInv /\ UNCHANGED vars => IInv'
  BY DEF IInv, TypeOK, Routed, CapsRespected, NoLostWakeup, Holders, Holds,
         AwakeAt, vars
<1> QED
  BY <1>1, <1>2

(* The invariant holds of every reachable state of the gates.              *)
THEOREM Invariance == Spec => []IInv
BY InitIInv, IInvStep, PTL DEF Spec

(* Types of the client and its calls, for any instance.                    *)
THEOREM TypeCorrect == Spec => []TypeOK
<1>1. IInv => TypeOK
  BY DEF IInv
<1> QED
  BY <1>1, Invariance, PTL

(* The requests in flight never exceed the server's caps and no permit is  *)
(* lost, whatever is retried, throttled or timed out.                      *)
THEOREM CapsCorrect == Spec => []CapsRespected
<1>1. IInv => CapsRespected
  BY DEF IInv
<1> QED
  BY <1>1, Invariance, PTL

(* No thread sleeps at a gate while a permit is free that nobody awake is  *)
(* about to take.                                                          *)
THEOREM WakeupsCorrect == Spec => []NoLostWakeup
<1>1. IInv => NoLostWakeup
  BY DEF IInv
<1> QED
  BY <1>1, Invariance, PTL

-----------------------------------------------------------------------------
(* SendsBounded: a call that is about to send has sent no more than its    *)
(* retries so far account for; one that sent has sent one more.            *)
Unsent == {"cooling", "requests", "uploads", "nap"}
Budget(r, n) == r * (MaxRetries + 1) + n
Paid(t) ==
  sends[t] <= Budget(rounds[t], tries[t]) + IF pc[t] \in Unsent THEN 0 ELSE 1

SendsInv == \A t \in Threads : Paid(t)

(* One more try, or a round more instead of the tries of this one.         *)
LEMMA BudgetGrows ==
  ASSUME NEW r \in 0..MaxRetries, NEW n \in 0..MaxRetries
  PROVE  /\ Budget(r, n) \in Nat /\ Budget(r, n + 1) = Budget(r, n) + 1
         /\ Budget(r + 1, 0) >= Budget(r, n) + 1
<1> DEFINE k == MaxRetries + 1
<1>1. k \in Nat /\ n + 1 <= k /\ r \in Nat /\ n \in Nat
  BY BoundsAssumption
<1> HIDE DEF k
<1>2. r * k \in Nat /\ (r + 1) * k = r * k + k
  BY <1>1, Z3
<1>3. Budget(r, n) = r * k + n /\ Budget(r, n + 1) = r * k + (n + 1)
      /\ Budget(r + 1, 0) = (r + 1) * k + 0
  BY DEF Budget, k
<1> QED
  BY <1>1, <1>2, <1>3

(* The steps of execute() and retry_method_call.                           *)
LEMMA SendsStep == TypeOK /\ SendsInv /\ Next => SendsInv'
<1> SUFFICES ASSUME TypeOK, SendsInv, Next PROVE SendsInv'
  OBVIOUS
<1> USE DEF gateVars, countVars, Goto
<1>t. \A t \in Threads :
        /\ sends[t] \in Nat /\ rounds[t] \in 0..MaxRetries /\ tries[t] \in 0..MaxRetries
        /\ Budget(rounds[t], tries[t]) \in Nat
        /\ Paid(t)
  BY BudgetGrows DEF TypeOK, SendsInv
<1>1. ASSUME NEW t \in Threads, MovesOn(t) PROVE SendsInv'
  <2>1. ASSUME NEW u \in Threads, u # t PROVE Paid(u)'
    <3>1. /\ pc'[u] = pc[u] /\ sends'[u] = sends[u]
          /\ rounds'[u] = rounds[u] /\ tries'[u] = tries[u]
      BY <1>1, <2>1 DEF TypeOK, MovesOn, Call, CooldownOver, AcquireRequests, AcquireUploads,
           Enters, Answer, DropUploads, DropRequests, Handle, Finish, Returns,
           RetryThrottled, RetryTransport, RetryMethod, Sleeps, WakeUp
    <3> QED
      BY <1>t, <3>1 DEF Paid
  <2>2. Paid(t)'
    <3>1. CASE Call(t)
      <4>1. sends'[t] = 0 /\ rounds'[t] = 0 /\ tries'[t] = 0
        BY <3>1 DEF Call, TypeOK
      <4>2. 0 \in 0..MaxRetries
        BY BoundsAssumption
      <4>3. Budget(0, 0) \in Nat
        BY <4>2, BudgetGrows
      <4> QED
        BY <4>1, <4>3 DEF Paid
    <3>2. CASE CooldownOver(t) \/ WakeUp(t)
      <4>1. pc[t] \in Unsent /\ pc'[t] \in Unsent /\ UNCHANGED <<sends, rounds, tries>>
        BY <3>2 DEF CooldownOver, WakeUp, Unsent, TypeOK
      <4> QED
        BY <1>t, <4>1 DEF Paid
    <3>3. CASE AcquireRequests(t) \/ AcquireUploads(t)
      <4>1. /\ pc[t] \in Unsent /\ UNCHANGED <<rounds, tries>>
            /\ \/ pc'[t] \in Unsent /\ sends'[t] = sends[t]
               \/ pc'[t] \notin Unsent /\ sends'[t] = sends[t] + 1
        BY <3>3 DEF AcquireRequests, AcquireUploads, Enters, Unsent, TypeOK
      <4> QED
        BY <1>t, <4>1 DEF Paid
    <3>4. CASE (\E r \in Replies : Answer(t, r)) \/ DropUploads(t) \/ DropRequests(t) \/ Finish(t)
      <4>1. /\ pc[t] \notin Unsent /\ pc'[t] \notin Unsent
            /\ UNCHANGED <<sends, rounds, tries>>
        BY <3>4 DEF Answer, DropUploads, DropRequests, Finish, Returns, Unsent, TypeOK
      <4> QED
        BY <1>t, <4>1 DEF Paid
    <3>5. ASSUME NEW d \in 0..MaxDelay, RetryThrottled(t, d) \/ RetryTransport(t, d)
          PROVE  Paid(t)'
      <4>1. /\ pc[t] \notin Unsent /\ pc'[t] \in Unsent /\ UNCHANGED <<sends, rounds>>
            /\ tries'[t] = tries[t] + 1
        BY <3>5 DEF RetryThrottled, RetryTransport, Sleeps, Unsent, TypeOK
      <4>2. Budget(rounds[t], tries[t] + 1) = Budget(rounds[t], tries[t]) + 1
        BY <1>t, BudgetGrows
      <4> QED
        BY <1>t, <4>1, <4>2 DEF Paid
    <3>6. ASSUME NEW d \in 0..MaxDelay, RetryMethod(t, d) PROVE Paid(t)'
      <4>1. /\ pc[t] \notin Unsent /\ pc'[t] \in Unsent /\ UNCHANGED sends
            /\ rounds'[t] = rounds[t] + 1 /\ tries'[t] = 0 /\ rounds[t] + 1 \in 0..MaxRetries
        BY <1>t, <3>6, BoundsAssumption DEF RetryMethod, Sleeps, Unsent, TypeOK, Spent
      <4>2. Budget(rounds[t] + 1, 0) >= Budget(rounds[t], tries[t]) + 1
        BY <1>t, BudgetGrows
      <4>3. Budget(rounds[t] + 1, 0) \in Nat
        BY <4>1, BoundsAssumption, BudgetGrows
      <4> QED
        BY <1>t, <4>1, <4>2, <4>3 DEF Paid
    <3> QED
      BY <1>1, <3>1, <3>2, <3>3, <3>4, <3>5, <3>6 DEF MovesOn, Handle
  <2> QED
    BY <2>1, <2>2 DEF SendsInv
<1>2. ASSUME NEW t \in Threads, Waits(t) PROVE SendsInv'
  BY <1>2 DEF Waits, Block, SpuriousWakeup, SendsInv, Paid
<1>3. CASE Tick
  BY <1>3 DEF Tick, SendsInv, Paid
<1> QED
  BY <1>1, <1>2, <1>3, NextCases

(* At first nothing is sent, and every step pays for what it sends.         *)
LEMMA SendsInitially == Init => SendsInv
<1>1. 0 \in 0..MaxRetries
  BY BoundsAssumption
<1>2. Budget(0, 0) \in Nat
  BY <1>1, BudgetGrows
<1> QED
  BY <1>2 DEF Init, SendsInv, Paid

(* Every step, and every stutter, keeps each call paid for.                *)
LEMMA SendsKept == TypeOK /\ SendsInv /\ [Next]_vars => SendsInv'
<1>1. UNCHANGED vars /\ SendsInv => SendsInv'
  BY DEF vars, SendsInv, Paid
<1> QED
  BY <1>1, SendsStep

(* What is paid for is within the two budgets, and the one request that is *)
(* out.                                                                    *)
LEMMA SendsWithin == TypeOK /\ SendsInv => SendsBounded
<1> SUFFICES ASSUME TypeOK, SendsInv, NEW t \in Threads
             PROVE  sends[t] <= Budget(rounds[t], tries[t]) + 1
  BY DEF SendsBounded, Budget
<1>1. Budget(rounds[t], tries[t]) \in Nat /\ sends[t] \in Nat /\ Paid(t)
  BY BudgetGrows DEF TypeOK, SendsInv
<1> QED
  BY <1>1 DEF Paid

(* The retries of execute() and of retry_method_call multiply, and no more *)
(* than that: a call's requests on the wire never exceed what its rounds   *)
(* and tries account for, for any --max-retries.                           *)
THEOREM SendsCorrect == Spec => []SendsBounded
BY SendsInitially, SendsKept, SendsWithin, TypeCorrect, PTL DEF Spec

-----------------------------------------------------------------------------
(* The calls of the other clients.                                         *)

Offset(l) == IF l.at \in {"cooling", "nap"} THEN 0 ELSE 1
Accounted(l) == l.sends <= l.tries + l.hops + l.lowered + Offset(l)
Headroom(l, v) ==
  /\ l.lowered <= TopVersion + l.raised
  /\ l.at # "idle" => v + l.lowered <= TopVersion + l.raised
  /\ l.at = "sent" => l.asked + l.lowered <= TopVersion + l.raised
Trusted(l) == l.auth => l.host = "origin" /\ ~l.strayed
CallOK(l, v) == l \in Lines /\ Accounted(l) /\ Headroom(l, v) /\ Trusted(l)

CallsInv == RemoteTypeOK /\ \A c \in Callers : CallOK(line[c], version)

(* The records of a call that begins, and of one that is redirected.       *)
LEMMA BegunLine ==
  ASSUME NEW n \in 0..MostCalls
  PROVE  [Fresh(n) EXCEPT !.at = "cooling"] \in Lines
<1>1. /\ "origin" \in Hosts /\ TRUE \in BOOLEAN /\ 0 \in Versions /\ 0 \in 0..Retries
      /\ 0 \in 0..MaxRedirects /\ 0 \in 0..LongestWait /\ 0 \in Nat /\ FALSE \in BOOLEAN
  BY RetriesAssumption DEF Hosts, Versions
<1> QED
  BY <1>1, Zenon DEF Lines, Fresh

(* A call that was redirected is a call, one redirect further.             *)
LEMMA RedirectedLine ==
  ASSUME NEW l \in Lines, NEW h \in Hosts, NEW b \in BOOLEAN, NEW s \in BOOLEAN,
         l.hops < MaxRedirects
  PROVE  [l EXCEPT !.at = "cooling", !.hops = l.hops + 1, !.host = h, !.auth = b, !.strayed = s]
           \in Lines
<1>1. l.hops + 1 \in 0..MaxRedirects
  BY RetriesAssumption DEF Lines
<1> QED
  BY <1>1 DEF Lines

(* ... and of one whose version is refused.                                *)
LEMMA LoweredLine ==
  ASSUME NEW l \in Lines
  PROVE  [l EXCEPT !.at = "cooling", !.lowered = l.lowered + 1] \in Lines
<1>1. l.lowered + 1 \in Nat
  BY DEF Lines
<1> QED
  BY <1>1 DEF Lines

(* A call begins, sends, ends, sleeps, wakes up or is redirected: nobody   *)
(* else's is touched, and the version stays.                               *)
LEMMA AloneKeepsCalls ==
  ASSUME CallsInv, NEW c \in Callers,
         Begin(c) \/ Send(c) \/ Ends(c) \/ Retried(c) \/ Awake(c)
           \/ \E h \in Hosts : Redirected(c, h)
  PROVE  CallsInv'
<1> DEFINE l == line[c]
<1>1. /\ l \in Lines /\ Accounted(l) /\ Headroom(l, version) /\ Trusted(l)
      /\ version \in 0..TopVersion /\ pause \in 0..LongestWait /\ line \in [Callers -> Lines]
      /\ TopVersion \in Nat
  BY RetriesAssumption DEF CallsInv, CallOK, RemoteTypeOK, Versions
<1>t. l \in Lines /\ TopVersion \in Nat
  BY <1>1
<1>2. ASSUME NEW m, CallOK(m, version), line' = [line EXCEPT ![c] = m],
             UNCHANGED <<client, version>>, pause' \in 0..LongestWait
      PROVE  CallsInv'
  BY <1>1, <1>2 DEF CallsInv, RemoteTypeOK, CallOK
<1> USE RetriesAssumption DEF CallOK, Accounted, Headroom, Trusted, Offset, Lines, Versions
<1>3. CASE Begin(c)
  <2> DEFINE m == [Fresh(l.made + 1) EXCEPT !.at = "cooling"]
  <2>1. CallOK(m, version)
    <3>1. l.made + 1 \in 0..MostCalls
      BY <1>1, <1>3 DEF Begin
    <3>2. m \in Lines
      BY <3>1, BegunLine
    <3>3. /\ m.at = "cooling" /\ m.host = "origin" /\ m.strayed = FALSE
          /\ m.sends = 0 /\ m.tries = 0 /\ m.hops = 0 /\ m.lowered = 0 /\ m.raised = 0
      BY DEF Fresh
    <3>4. Trusted(m)
      BY <3>3
    <3> HIDE DEF m, Trusted
    <3> QED
      BY <1>1, <3>2, <3>3, <3>4
  <2>2. line' = [line EXCEPT ![c] = m]
    BY <1>1, <1>3, Zenon DEF Begin
  <2> QED
    BY <1>1, <1>2, <1>3, <2>1, <2>2 DEF Begin
<1>4. CASE Send(c)
  <2> DEFINE m == [l EXCEPT !.at = "sent", !.asked = version, !.sends = @ + 1]
  <2>1. CallOK(m, version)
    BY <1>1, <1>4 DEF Send
  <2>2. line' = [line EXCEPT ![c] = m]
    BY <1>1, <1>4 DEF Send
  <2> QED
    BY <1>1, <1>2, <1>4, <2>1, <2>2 DEF Send
<1>5. CASE Ends(c)
  <2> DEFINE m == [l EXCEPT !.at = "idle"]
  <2>1. CallOK(m, version)
    BY <1>1, <1>5 DEF Ends, Conclude, Exhausted
  <2>2. line' = [line EXCEPT ![c] = m]
    BY <1>1, <1>5 DEF Ends, Conclude, Exhausted
  <2> QED
    BY <1>1, <1>2, <1>5, <2>1, <2>2 DEF Ends, Conclude, Exhausted
<1>6. ASSUME NEW d \in 0..LongestWait, Throttled(c, d) \/ Lost(c, d) PROVE CallsInv'
  <2> DEFINE m == [l EXCEPT !.at = "nap", !.wait = d, !.tries = @ + 1]
  <2>1. CallOK(m, version)
    BY <1>1, <1>6 DEF Throttled, Lost, Retry, MayRetry
  <2>2. line' = [line EXCEPT ![c] = m]
    BY <1>1, <1>6 DEF Throttled, Lost, Retry
  <2>3. pause' \in 0..LongestWait
    BY <1>1, <1>6 DEF Throttled, Lost
  <2> QED
    BY <1>2, <1>6, <2>1, <2>2, <2>3 DEF Throttled, Lost, Retry
<1>7. CASE Awake(c)
  <2> DEFINE m == [l EXCEPT !.at = "cooling"]
  <2>1. CallOK(m, version)
    BY <1>1, <1>7 DEF Awake
  <2>2. line' = [line EXCEPT ![c] = m]
    BY <1>1, <1>7 DEF Awake
  <2> QED
    BY <1>1, <1>2, <1>7, <2>1, <2>2 DEF Awake
<1>8. ASSUME NEW h \in Hosts, Redirected(c, h) PROVE CallsInv'
  <2> DEFINE s == l.strayed \/ h # "origin"
             to(b) == [l EXCEPT !.at = "cooling", !.hops = l.hops + 1, !.host = h, !.auth = b,
                                !.strayed = s]
             m == to(GoesAlong(c, h))
  <2>1. CallOK(m, version)
    <3>0. s \in BOOLEAN
      OBVIOUS
    <3> HIDE DEF s
    <3>1. ASSUME NEW b \in BOOLEAN, b => h = "origin" /\ ~s PROVE CallOK(to(b), version)
      <4> DEFINE n == to(b)
      <4>1. n \in Lines
        BY <1>t, <1>8, <3>0, RedirectedLine DEF Redirected
      <4>2. /\ n.at = "cooling" /\ n.hops = l.hops + 1 /\ n.sends = l.sends
            /\ n.tries = l.tries /\ n.lowered = l.lowered /\ n.raised = l.raised
        BY <1>1
      <4>3. n.host = h /\ n.auth = b /\ n.strayed = s
        BY <1>1
      <4>4. Trusted(n)
        BY <3>1, <4>3
      <4>5. l.at = "sent"
        BY <1>8 DEF Redirected
      <4> HIDE DEF n
      <4>6. Accounted(n) /\ Headroom(n, version)
        <5> HIDE DEF Trusted
        <5> QED
          BY <1>1, <4>1, <4>2, <4>5
      <4>7. CallOK(n, version)
        BY <4>1, <4>4, <4>6 DEF CallOK
      <4> QED
        BY <4>7 DEF n
    <3>2. GoesAlong(c, h) \in BOOLEAN /\ (GoesAlong(c, h) => h = "origin" /\ ~s)
      BY <1>1 DEF GoesAlong, s
    <3> HIDE DEF to
    <3> QED
      BY <3>1, <3>2, Zenon
  <2>2. line' = [line EXCEPT ![c] = m]
    BY <1>1, <1>8 DEF Redirected
  <2> QED
    BY <1>1, <1>2, <1>8, <2>1, <2>2 DEF Redirected
<1> QED
  BY <1>3, <1>4, <1>5, <1>6, <1>7, <1>8 DEF Retried

(* set_server_version by another call: what it raises is headroom.         *)
LEMMA OthersSettled ==
  ASSUME NEW l \in Lines, NEW u \in Versions, NEW v \in Versions, CallOK(l, u)
  PROVE  CallOK([l EXCEPT !.raised = IF v > u THEN @ + v - u ELSE @], v)
<1> DEFINE r == IF v > u THEN l.raised + v - u ELSE l.raised
           m == [l EXCEPT !.raised = r]
<1>1. /\ v \in Nat /\ u \in Nat /\ TopVersion \in Nat /\ v <= TopVersion
      /\ l.raised \in Nat /\ l.lowered \in Nat /\ l.asked \in Nat
  BY RetriesAssumption DEF Versions, Lines
<1>2. r \in Nat /\ r >= l.raised /\ r + u >= l.raised + v
  BY <1>1
<1> HIDE DEF r
<1>3. m \in Lines
  BY <1>2 DEF Lines
<1>4. /\ m.raised = r /\ m.at = l.at /\ m.lowered = l.lowered /\ m.asked = l.asked
      /\ m.sends = l.sends /\ m.tries = l.tries /\ m.hops = l.hops
  BY DEF Lines
<1>5. m.auth = l.auth /\ m.host = l.host /\ m.strayed = l.strayed
  BY DEF Lines
<1>6. Trusted(m)
  BY <1>5 DEF CallOK, Trusted
<1> HIDE DEF m
<1>7. Accounted(m)
  BY <1>4 DEF CallOK, Accounted, Offset
<1>8. Headroom(m, v)
  BY <1>1, <1>2, <1>4 DEF CallOK, Headroom
<1>9. CallOK(m, v)
  BY <1>3, <1>6, <1>7, <1>8 DEF CallOK
<1> QED
  BY <1>9 DEF m, r

(* An answer names the server's version, or the version is refused.        *)
LEMMA SettleKeepsCalls ==
  ASSUME CallsInv, NEW c \in Callers, Refused(c) \/ \E v \in Versions : Versioned(c, v)
  PROVE  CallsInv'
<1> DEFINE l == line[c]
<1>1. /\ l \in Lines /\ Accounted(l) /\ Headroom(l, version) /\ Trusted(l)
      /\ version \in Versions /\ pause \in 0..LongestWait /\ line \in [Callers -> Lines]
      /\ TopVersion \in Nat
  BY RetriesAssumption DEF CallsInv, CallOK, RemoteTypeOK
<1>2. ASSUME NEW v \in Versions, NEW m, CallOK(m, v), Settle(c, v, m) PROVE CallsInv'
  <2>1. version' = v /\ pause' = pause /\ client' = client
    BY <1>2 DEF Settle
  <2>2. \A o \in Callers : CallOK(line'[o], v)
    <3> TAKE o \in Callers
    <3>1. CASE o = c
      BY <1>2, <3>1 DEF Settle
    <3>2. CASE o # c
      <4>1. line'[o] = [line[o] EXCEPT !.raised = IF v > version THEN @ + v - version ELSE @]
        BY <1>2, <3>2 DEF Settle
      <4>2. line[o] \in Lines /\ CallOK(line[o], version)
        BY DEF CallsInv, CallOK
      <4> QED
        BY <1>1, <4>1, <4>2, OthersSettled
    <3> QED
      BY <3>1, <3>2
  <2>3. line' \in [Callers -> Lines]
    BY <1>2, <2>2 DEF Settle, CallOK
  <2> QED
    BY <1>1, <2>1, <2>2, <2>3 DEF CallsInv, RemoteTypeOK
<1>3. CASE Refused(c)
  <2> DEFINE m == [l EXCEPT !.at = "cooling", !.lowered = l.lowered + 1]
  <2>1. l.at = "sent" /\ l.asked > 0 /\ Settle(c, l.asked - 1, m)
    BY <1>3 DEF Refused, Lower
  <2>2. l.asked \in Versions /\ l.asked - 1 \in Versions /\ l.asked \in Nat /\ l.lowered \in Nat
    BY <1>1, <2>1 DEF Lines, Versions
  <2>3. m \in Lines
    <3>1. l \in Lines
      BY <1>1
    <3> QED
      BY <3>1, LoweredLine
  <2>4. /\ m.at = "cooling" /\ m.lowered = l.lowered + 1 /\ m.raised = l.raised
        /\ m.sends = l.sends /\ m.tries = l.tries /\ m.hops = l.hops
        /\ m.raised \in Nat /\ m.sends \in Nat /\ m.tries \in Nat /\ m.hops \in Nat
    BY <1>1 DEF Lines
  <2>5. m.auth = l.auth /\ m.host = l.host /\ m.strayed = l.strayed
    BY <1>1 DEF Lines
  <2> HIDE DEF m
  <2>6. Accounted(m) /\ Headroom(m, l.asked - 1)
    BY <1>1, <2>1, <2>2, <2>4 DEF Accounted, Headroom, Offset
  <2>7. CallOK(m, l.asked - 1)
    BY <1>1, <2>3, <2>5, <2>6 DEF CallOK, Trusted
  <2> QED
    BY <1>2, <2>1, <2>2, <2>7
<1>4. ASSUME NEW v \in Versions, Versioned(c, v) PROVE CallsInv'
  <2> DEFINE m == [l EXCEPT !.at = "idle"]
  <2>1. l.at = "sent" /\ Settle(c, v, m)
    BY <1>4 DEF Versioned
  <2>2. m \in Lines
    BY <1>1 DEF Lines
  <2>3. /\ m.at = "idle" /\ m.lowered = l.lowered /\ m.raised = l.raised
        /\ m.sends = l.sends /\ m.tries = l.tries /\ m.hops = l.hops
    BY <1>1 DEF Lines
  <2>4. m.auth = l.auth /\ m.host = l.host /\ m.strayed = l.strayed
    BY <1>1 DEF Lines
  <2> HIDE DEF m
  <2>5. Accounted(m) /\ Headroom(m, v)
    BY <1>1, <2>1, <2>3 DEF Accounted, Headroom, Offset
  <2>6. CallOK(m, v)
    BY <1>1, <2>2, <2>4, <2>5 DEF CallOK, Trusted
  <2> QED
    BY <1>2, <2>1, <2>6
<1> QED
  BY <1>3, <1>4

(* Time passes for all of them.                                            *)
LEMMA TimeKeepsCalls ==
  ASSUME CallsInv, TimePasses
  PROVE  CallsInv'
<1>1. /\ version' = version /\ client' = client
      /\ pause' \in 0..LongestWait
  BY RetriesAssumption DEF TimePasses, Fewer, CallsInv, RemoteTypeOK
<1>2. \A c \in Callers : CallOK(line'[c], version)
  <2> TAKE c \in Callers
  <2> DEFINE l == line[c]
             m == [l EXCEPT !.wait = Fewer(l.wait)]
  <2>1. line'[c] = m
    BY DEF TimePasses
  <2>2. CallOK(l, version) /\ l \in Lines
    BY DEF CallsInv, CallOK
  <2>3. Fewer(l.wait) \in 0..LongestWait
    BY <2>2, RetriesAssumption DEF Lines, Fewer
  <2>4. m \in Lines
    BY <2>2, <2>3 DEF Lines
  <2>5. /\ m.raised = l.raised /\ m.at = l.at /\ m.lowered = l.lowered /\ m.asked = l.asked
        /\ m.sends = l.sends /\ m.tries = l.tries /\ m.hops = l.hops
    BY <2>2 DEF Lines
  <2>6. m.auth = l.auth /\ m.host = l.host /\ m.strayed = l.strayed
    BY <2>2 DEF Lines
  <2> HIDE DEF m
  <2>7. Accounted(m) /\ Headroom(m, version)
    BY <2>2, <2>5 DEF CallOK, Accounted, Offset, Headroom
  <2>8. Trusted(m)
    BY <2>2, <2>6 DEF CallOK, Trusted
  <2> QED
    BY <2>1, <2>4, <2>7, <2>8 DEF CallOK
<1>3. line' \in [Callers -> Lines]
  BY <1>2 DEF TimePasses, CallOK
<1> QED
  BY <1>1, <1>2, <1>3 DEF CallsInv, RemoteTypeOK

(* The invariant of the calls holds at first, and is kept by every step.   *)
LEMMA CallsInitially == RemoteInit => CallsInv
<1> SUFFICES ASSUME RemoteInit PROVE CallsInv
  OBVIOUS
<1>1. Fresh(0) \in Lines
  <2>1. /\ "origin" \in Hosts /\ TRUE \in BOOLEAN /\ 0 \in Versions /\ 0 \in 0..Retries
        /\ 0 \in 0..MaxRedirects /\ 0 \in 0..LongestWait /\ 0 \in 0..MostCalls /\ 0 \in Nat
        /\ FALSE \in BOOLEAN
    BY RetriesAssumption DEF Hosts, Versions
  <2> QED
    BY <2>1, Zenon DEF Lines, Fresh
<1>2. Fresh(0).host = "origin" /\ Fresh(0).strayed = FALSE
  BY DEF Fresh
<1>3. Trusted(Fresh(0))
  BY <1>2 DEF Trusted
<1>4. Accounted(Fresh(0)) /\ Headroom(Fresh(0), TopVersion)
  BY RetriesAssumption DEF Accounted, Headroom, Offset, Fresh
<1>5. version = TopVersion /\ pause = 0 /\ line = [c \in Callers |-> Fresh(0)] /\ client \in Clients
  BY DEF RemoteInit
<1> QED
  BY <1>1, <1>3, <1>4, <1>5, RetriesAssumption DEF CallsInv, CallOK, RemoteTypeOK, Versions

(* Each step is one caller's, or time's.                                   *)
LEMMA CallsStep == CallsInv /\ [RemoteNext]_remoteVars => CallsInv'
<1> SUFFICES ASSUME CallsInv, [RemoteNext]_remoteVars PROVE CallsInv'
  OBVIOUS
<1>1. CASE TimePasses
  BY <1>1, TimeKeepsCalls
<1>2. ASSUME NEW c \in Callers, Begin(c) \/ Proceed(c) PROVE CallsInv'
  BY <1>2, AloneKeepsCalls, SettleKeepsCalls DEF Proceed, DavAnswer, EwsAnswer, GraphAnswer
<1>3. CASE UNCHANGED remoteVars
  BY <1>3 DEF remoteVars, CallsInv, RemoteTypeOK
<1> QED
  BY <1>1, <1>2, <1>3 DEF RemoteNext

(* The invariant of the calls holds in every state.                        *)
LEMMA CallsAlways == RemoteSpec => []CallsInv
BY CallsInitially, CallsStep, PTL DEF RemoteSpec

(* A line that is accounted for has made few requests.                     *)
LEMMA RoundsWithin == CallsInv => RoundsBounded
<1> SUFFICES ASSUME CallsInv, NEW c \in Callers
             PROVE  /\ line[c].sends <= line[c].tries + line[c].hops + line[c].lowered + 1
                    /\ line[c].lowered <= TopVersion + line[c].raised
  BY DEF RoundsBounded
<1>1. /\ line[c] \in Lines /\ Accounted(line[c]) /\ Headroom(line[c], version)
  BY DEF CallsInv, CallOK
<1>2. /\ line[c].sends \in Nat /\ line[c].tries \in Nat /\ line[c].hops \in Nat
      /\ line[c].lowered \in Nat
  BY <1>1, RetriesAssumption DEF Lines
<1> QED
  BY <1>1, <1>2 DEF Accounted, Offset, Headroom

(* execute() ends even when the server refuses or redirects whatever is    *)
(* sent: a call's requests are its retries, its redirects and the versions *)
(* it gave up, and these are no more than there are and others raised.     *)
THEOREM RoundsCorrect == RemoteSpec => []RoundsBounded
BY RoundsWithin, CallsAlways, PTL

(* A line's credentials are trusted to the origin alone, until it strays.  *)
LEMMA CallsTrusted == CallsInv => CredentialsKept
BY DEF CallsInv, CallOK, Trusted, CredentialsKept

(* Whatever chain of redirects and retries a DAV call goes through, its    *)
(* credentials go to no host but the one it was for, and not to that one   *)
(* once a redirect led away from it.                                       *)
THEOREM CredentialsCorrect == RemoteSpec => []CredentialsKept
BY CallsTrusted, CallsAlways, PTL

-----------------------------------------------------------------------------
(* The token.  What n failures cost in ticks, where a request takes w.     *)
Slack(n, w) == n * (FailurePause + w)

(* What is left, what the thread does not know of, and what its failures   *)
(* and its request cost make up the reserve.                               *)
Ahead ==
  /\ refresher.at \in {"sleep", "ask", "pause"}
  /\ refresher.at = "sleep" => token.left + token.late + Slack(failed, Longest) >= Reserve
  /\ refresher.at = "ask" =>
       /\ refresher.since <= Longest
       /\ token.left + token.late + Slack(failed, Longest) + refresher.since >= Reserve
  /\ refresher.at = "pause" =>
       /\ failed > 0 /\ refresher.since <= FailurePause
       /\ token.left + token.late + Slack(failed - 1, Longest) + Longest + refresher.since >= Reserve

Tokens == [renewal : Renewals, life : Nat, left : Nat, due : Int, late : Nat]
Refreshers == [at : {"setup", "sleep", "ask", "pause", "gone"}, since : Nat]

TokenInv ==
  /\ vendor \in {"ews", "graph"} /\ failed \in Nat
  /\ token \in Tokens /\ refresher \in Refreshers
  /\ token.due <= token.left + token.late
  /\ import = "runs" /\ token.renewal # "none" => Ahead

(* One failure more costs one pause and one request more.                  *)
LEMMA SlackGrows ==
  ASSUME NEW n \in Nat, NEW w \in Nat
  PROVE  Slack(n, w) \in Nat /\ Slack(n + 1, w) = Slack(n, w) + FailurePause + w
<1>1. FailurePause \in Nat
  BY TimesAssumption
<1> QED
  BY <1>1, Z3 DEF Slack

(* A token is taken up with a deadline that is behind its end by `late`.   *)
LEMMA TakenUpFits ==
  ASSUME NEW r \in Renewals, NEW n \in Nat, NEW d \in Int
  PROVE  /\ TakenUp(r, n, d) \in Tokens
         /\ TakenUp(r, n, d).life = n /\ TakenUp(r, n, d).left = n
         /\ TakenUp(r, n, d).due <= n + TakenUp(r, n, d).late
         /\ TakenUp(r, n, d).renewal = r
<1>1. Beyond(d, n) \in Nat /\ d <= n + Beyond(d, n)
  BY DEF Beyond
<1> QED
  BY <1>1 DEF TakenUp, Tokens

(* No token is in use before the sign-in.                                  *)
LEMMA TokenInitially == TokenInit => TokenInv
<1>1. NoTokenYet \in Tokens /\ NoTokenYet.due <= NoTokenYet.left + NoTokenYet.late
  BY TakenUpFits DEF NoTokenYet, Renewals
<1> QED
  BY <1>1 DEF TokenInit, TokenInv, Place, Refreshers

(* A thread that sleeps on a new token has all of it ahead.                *)
LEMMA FreshAhead ==
  ASSUME token' \in Tokens, token'.life = token'.left, failed' \in Nat,
         refresher' = Place("sleep")
  PROVE  Ahead'
<1>1. Longest' \in Nat /\ Reserve' \in Int /\ Reserve' <= token'.left
  BY TimesAssumption DEF Longest, Reserve, Margin, Tokens
<1>2. Slack(failed', Longest') \in Nat
  BY <1>1, SlackGrows
<1>3. token'.late \in Nat /\ token'.left \in Nat
  BY DEF Tokens
<1> QED
  BY <1>1, <1>2, <1>3 DEF Ahead, Place

(* Each step keeps the reserve made up.                                    *)
LEMMA TokenStep == TokenInv /\ [TokenNext]_tokenVars => TokenInv'
<1> SUFFICES ASSUME TokenInv, [TokenNext]_tokenVars PROVE TokenInv'
  OBVIOUS
<1>1. /\ vendor \in {"ews", "graph"} /\ failed \in Nat
      /\ token.left \in Nat /\ token.life \in Nat /\ token.late \in Nat /\ token.due \in Int
      /\ token.renewal \in Renewals /\ refresher.since \in Nat
      /\ token \in Tokens /\ refresher \in Refreshers
      /\ token.due <= token.left + token.late
      /\ import = "runs" /\ token.renewal # "none" => Ahead
  BY DEF TokenInv, Tokens, Refreshers
<1>2. /\ FailurePause \in Nat /\ Slowest \in Nat /\ Lives \subseteq Nat /\ Fallback \in Nat
      /\ Margin \in Nat /\ Longest \in Nat /\ Reserve \in Nat /\ Reserve <= Margin
  BY <1>1, TimesAssumption DEF Margin, Longest, Reserve
<1>3. \A n \in Nat : /\ Slack(n, Longest) \in Nat
                      /\ Slack(n + 1, Longest) = Slack(n, Longest) + FailurePause + Longest
  BY <1>2, SlackGrows
<1>m. ASSUME vendor' = vendor, token'.life = token.life, token'.renewal = token.renewal
      PROVE  Longest' = Longest /\ Reserve' = Reserve /\ Margin' = Margin
  BY <1>m DEF Longest, Reserve, Margin
<1>4. CASE Pending \/ SlowDown \/ NotSignedIn \/ CodeTick
  BY <1>1, <1>4, <1>m DEF Pending, SlowDown, NotSignedIn, CodeTick, Polls, TokenInv
<1>5. ASSUME NEW l \in Lives, NEW r \in Renewals, SignedIn(l, r) \/ Acquired(l, r)
      PROVE  TokenInv'
  <2>1. /\ token' = TakenUp(r, l, 0) /\ refresher' = Place("setup") /\ import' = "setup"
        /\ vendor' = vendor /\ failed' = failed
    BY <1>1, <1>5 DEF SignedIn, Acquired, Polls
  <2>2. token' \in Tokens /\ token'.due <= token'.left + token'.late
    BY <1>2, <2>1, TakenUpFits
  <2> QED
    BY <1>1, <2>1, <2>2 DEF TokenInv, Place, Refreshers
<1>6. CASE Ask
  BY <1>1, <1>2, <1>3, <1>6, <1>m DEF Ask, TokenInv, Ahead, Place, Refreshers
<1>7. ASSUME NEW l \in Lives, NEW lag \in 0..Slowest, Granted(l, lag) PROVE TokenInv'
  <2>1. PICK due \in {l - lag} \union (IF vendor = "graph" THEN {l, Fallback} ELSE {token.due + Fallback}),
             r \in {token.renewal} \union (IF token.renewal = "code" THEN {"refresh"} ELSE {}) :
          token' = TakenUp(r, l - lag, due)
    BY <1>7 DEF Granted
  <2>2. l - lag \in Nat /\ due \in Int /\ r \in Renewals
    BY <1>1, <1>2, <1>7, <2>1 DEF Granted, Renewals
  <2>3. token' \in Tokens /\ token'.life = token'.left /\ token'.due <= token'.left + token'.late
    BY <2>1, <2>2, TakenUpFits
  <2>4. refresher' = Place("sleep") /\ failed' = 0 /\ UNCHANGED <<vendor, import>>
    BY <1>7 DEF Granted
  <2>5. Ahead'
    BY <2>3, <2>4, FreshAhead
  <2> QED
    BY <1>1, <2>3, <2>4, <2>5 DEF TokenInv, Place, Refreshers
<1>8. CASE Denied
  <2>1. Slack(failed', Longest) = Slack(failed, Longest) + FailurePause + Longest
    BY <1>1, <1>3, <1>8 DEF Denied
  <2>2. failed' \in Nat /\ failed' > 0 /\ failed' - 1 = failed
    BY <1>1, <1>8 DEF Denied
  <2>3. refresher' = [at |-> "pause", since |-> 0] /\ refresher.at = "ask"
    BY <1>8 DEF Denied, Place
  <2>4. vendor' = vendor /\ token' = token /\ import' = import
    BY <1>8 DEF Denied
  <2>5. Slack(failed' - 1, Longest) = Slack(failed, Longest) /\ Slack(failed, Longest) \in Nat
    BY <1>1, <1>3, <2>2
  <2>6. ASSUME import = "runs", token.renewal # "none" PROVE Ahead'
    <3>1. token.left + token.late + Slack(failed, Longest) + Longest >= Reserve
      BY <1>1, <1>2, <2>3, <2>5, <2>6 DEF Ahead
    <3> QED
      BY <1>1, <1>2, <1>m, <2>2, <2>3, <2>4, <2>5, <3>1 DEF Ahead
  <2>7. (import = "runs" /\ token.renewal # "none") \/ ~(import' = "runs" /\ token'.renewal # "none")
    BY <2>4
  <2> QED
    BY <1>1, <2>2, <2>3, <2>4, <2>6, <2>7 DEF TokenInv, Refreshers
<1>9. CASE PauseEnds
  <2>1. refresher.at = "pause" /\ refresher.since = FailurePause
    BY <1>9 DEF PauseEnds
  <2>2. refresher' = [at |-> "sleep", since |-> 0] /\ UNCHANGED <<vendor, token, failed, import>>
    BY <1>9 DEF PauseEnds, Place
  <2>3. ASSUME failed > 0
        PROVE  /\ Slack(failed - 1, Longest) \in Nat
               /\ Slack(failed, Longest) = Slack(failed - 1, Longest) + FailurePause + Longest
    <3>1. failed - 1 \in Nat /\ (failed - 1) + 1 = failed
      BY <1>1, <2>3
    <3>2. /\ Slack(failed - 1, Longest) \in Nat
          /\ Slack((failed - 1) + 1, Longest) = Slack(failed - 1, Longest) + FailurePause + Longest
      BY <1>3, <3>1
    <3> QED
      BY <3>1, <3>2
  <2>4. import = "runs" /\ token.renewal # "none" => Ahead'
    BY <1>1, <1>2, <1>3, <1>m, <2>1, <2>2, <2>3 DEF Ahead
  <2> QED
    BY <1>1, <2>2, <2>4 DEF TokenInv, Refreshers
<1>10. CASE Stops \/ Import \/ Join \/ SetupFails
  BY <1>1, <1>10, <1>m DEF Stops, Told, Import, Join, SetupFails, TokenInv, Ahead, Place, Refreshers
<1>s. CASE Spawn
  <2>1. PICK due \in {token.left} \union (IF vendor = "graph" THEN {token.life} ELSE {}) :
          token' = TakenUp(token.renewal, token.left, due)
    BY <1>s DEF Spawn
  <2>2. /\ token' \in Tokens /\ token'.life = token'.left /\ token'.due <= token'.left + token'.late
        /\ token'.renewal = token.renewal
    BY <1>1, <2>1, TakenUpFits
  <2>3. /\ refresher' = Place(IF token.renewal = "none" THEN "gone" ELSE "sleep")
        /\ failed' = failed /\ vendor' = vendor
    BY <1>s DEF Spawn
  <2>4. token.renewal # "none" => Ahead'
    BY <1>1, <2>2, <2>3, FreshAhead
  <2> QED
    BY <1>1, <2>2, <2>3, <2>4 DEF TokenInv, Place, Refreshers
<1>11. CASE TokenTick
  <2>1. UNCHANGED <<vendor, failed, import>>
    BY <1>11 DEF TokenTick
  <2>2. /\ token' \in Tokens /\ token'.life = token.life /\ token'.renewal = token.renewal
        /\ token'.late = token.late /\ token'.left \in Nat /\ token'.left >= token.left - 1
        /\ token'.due <= token'.left + token'.late
    <3>1. token' = [token EXCEPT !.left = Lessen(token.left), !.due = Earlier(token.due)]
      BY <1>11 DEF TokenTick
    <3>2. Lessen(token.left) \in Nat /\ Lessen(token.left) >= token.left - 1
      BY <1>1 DEF Lessen
    <3>3. /\ Earlier(token.due) \in Int
          /\ Earlier(token.due) <= Lessen(token.left) + token.late
      BY <1>1, <1>2, <3>2 DEF Earlier
    <3> QED
      BY <1>1, <3>1, <3>2, <3>3 DEF Tokens
  <2>3. refresher'.at = refresher.at /\ refresher' \in Refreshers
    BY <1>1, <1>11 DEF TokenTick, Refreshers
  <2>4. Longest' = Longest /\ Reserve' = Reserve
    BY <1>m, <2>1, <2>2
  <2>5. CASE refresher.at = "setup"
    BY <1>1, <2>1, <2>2, <2>3, <2>5 DEF TokenInv, Ahead
  <2>6. CASE refresher.at = "sleep"
    <3>1. refresher' = refresher /\ token.due > Margin
      BY <1>1, <1>2, <1>11, <2>6 DEF TokenTick, Due
    <3>2. import = "runs" /\ token.renewal # "none" => Ahead'
      BY <1>1, <1>2, <1>3, <2>1, <2>2, <2>4, <2>6, <3>1 DEF Ahead
    <3> QED
      BY <1>1, <2>1, <2>2, <2>3, <3>2 DEF TokenInv
  <2>7. CASE refresher.at = "ask"
    <3>1. refresher'.since = refresher.since + 1 /\ refresher.since < Longest
      BY <1>1, <1>11, <2>7 DEF TokenTick, Refreshers
    <3>2. import = "runs" /\ token.renewal # "none" => Ahead'
      BY <1>1, <1>2, <1>3, <2>1, <2>2, <2>3, <2>4, <2>7, <3>1 DEF Ahead
    <3> QED
      BY <1>1, <2>1, <2>2, <2>3, <3>2 DEF TokenInv
  <2>8. CASE refresher.at = "pause"
    <3>1. refresher'.since = refresher.since + 1 /\ refresher.since < FailurePause
      BY <1>1, <1>11, <2>8 DEF TokenTick, Refreshers
    <3>2. ASSUME failed > 0 PROVE Slack(failed - 1, Longest) \in Nat
      BY <1>1, <1>3, <3>2
    <3>3. import = "runs" /\ token.renewal # "none" => Ahead'
      BY <1>1, <1>2, <2>1, <2>2, <2>3, <2>4, <2>8, <3>1, <3>2 DEF Ahead
    <3> QED
      BY <1>1, <2>1, <2>2, <2>3, <3>3 DEF TokenInv
  <2> QED
    BY <1>11, <2>5, <2>6, <2>7, <2>8 DEF TokenTick
<1>12. CASE UNCHANGED tokenVars
  BY <1>1, <1>12, <1>m DEF tokenVars, TokenInv, Ahead
<1> QED
  BY <1>4, <1>5, <1>6, <1>7, <1>8, <1>9, <1>10, <1>s, <1>11, <1>12
  DEF TokenNext, SignIn, RefresherStep

(* The invariant of the token holds in every state.                        *)
LEMMA TokenAlways == TokenSpec => []TokenInv
BY TokenInitially, TokenStep, PTL DEF TokenSpec

(* Wherever the thread is, what is made up makes the token last.           *)
LEMMA TokenMadeUp == TokenInv => TokenLasts
<1> HAVE TokenInv
<1> SUFFICES ASSUME import = "runs", token.renewal # "none", token.left = 0
             PROVE  token.late + Slack(failed, Longest) + Longest >= Reserve
  <2>1. /\ token.late \in Nat /\ token.life \in Nat /\ failed \in Nat /\ FailurePause \in Nat
        /\ Longest \in Nat /\ Reserve \in Nat
    BY TimesAssumption DEF TokenInv, Tokens, Longest, Reserve, Margin
  <2>2. Slack(failed, Longest) \in Nat
    BY <2>1, SlackGrows
  <2>3. Renewing = Slack(failed, Longest) + Longest
    BY DEF Renewing, Slack
  <2> QED
    BY <2>1, <2>2, <2>3 DEF TokenLasts
<1>1. /\ Ahead /\ failed \in Nat /\ refresher.since \in Nat /\ token.late \in Nat
      /\ FailurePause \in Nat /\ Longest \in Nat /\ Reserve \in Nat
  BY TimesAssumption DEF TokenInv, Tokens, Refreshers, Longest, Reserve, Margin
<1>2. Slack(failed, Longest) \in Nat
  BY <1>1, SlackGrows
<1>3. ASSUME failed > 0
      PROVE  /\ Slack(failed - 1, Longest) \in Nat
             /\ Slack(failed, Longest) = Slack(failed - 1, Longest) + FailurePause + Longest
  <2>1. failed - 1 \in Nat /\ (failed - 1) + 1 = failed
    BY <1>1, <1>3
  <2>2. /\ Slack((failed - 1) + 1, Longest) = Slack(failed - 1, Longest) + FailurePause + Longest
        /\ Slack(failed - 1, Longest) \in Nat
    BY <1>1, <2>1, SlackGrows
  <2> QED
    BY <2>1, <2>2
<1> QED
  BY <1>1, <1>2, <1>3 DEF Ahead

(* The refresher keeps an import's calls from an ended token, whatever the *)
(* lives, margins, pauses and setups: if a token has ended, the time the   *)
(* thread was wrong by, that of the failures and that of the request       *)
(* together are no less than what was reserved for them.                   *)
THEOREM TokenCorrect == TokenSpec => []TokenLasts
BY TokenMadeUp, TokenAlways, PTL
-----------------------------------------------------------------------------
ShellInv ==
  /\ {"at", "data"} \subseteq DOMAIN getting
  /\ getting.at = "login" => link.tls \/ (shell.cleartext /\ ~shell.implicit)
  /\ NotExposed

(* A connection that is not yet made has said nothing.                     *)
LEMMA ShellInitially == ShellInit => ShellInv
BY DEF ShellInit, ShellStart, Stage, ShellInv, NotExposed

(* What comes after a script, the last one or an error is no sign-in.      *)
LEMMA OnTo ==
  ASSUME {"at", "data"} \subseteq DOMAIN getting, NextScript \/ Finished \/ GivesUp
  PROVE  {"at", "data"} \subseteq DOMAIN getting' /\ getting'.at # "login"
<1>1. CASE Finished
  BY <1>1 DEF Finished
<1>2. CASE NextScript /\ ~Finished
  <2>1. PICK s \in getting.left : getting' = [Stage("ask", s) EXCEPT !.left = getting.left \ {s}]
    BY <1>2 DEF NextScript
  <2> QED
    BY <2>1 DEF Stage
<1> QED
  BY <1>1, <1>2 DEF GivesUp

(* No step of the exchange signs in over a connection that is in the       *)
(* clear, but when the user said so.                                       *)
LEMMA ShellStep == ShellInv /\ [ShellNext]_shellVars => ShellInv'
<1> SUFFICES ASSUME ShellInv, [ShellNext]_shellVars PROVE ShellInv'
  OBVIOUS
<1>d. {"at", "data"} \subseteq DOMAIN getting
  BY DEF ShellInv
<1>1. CASE DialFails
  <2>1. getting'.at # "login" /\ {"at", "data"} \subseteq DOMAIN getting'
    BY <1>1, <1>d, OnTo DEF DialFails
  <2> QED
    BY <1>1, <2>1 DEF DialFails, ShellInv, NotExposed
<1>2. CASE Dial
  <2>1. PICK e \in BOOLEAN :
          /\ e \/ (~shell.implicit /\ Plain)
          /\ link' = [NoLink EXCEPT !.open = TRUE, !.tls = e]
    BY <1>2 DEF Dial
  <2>2. link'.tls = e
    BY <2>1 DEF NoLink
  <2> QED
    BY <1>2, <1>d, <2>1, <2>2 DEF Dial, ShellInv, NotExposed, Plain
<1>3. CASE LoginFails
  <2>1. getting'.at # "login" /\ {"at", "data"} \subseteq DOMAIN getting'
    BY <1>3, <1>d, OnTo DEF LoginFails
  <2> QED
    BY <1>3, <2>1 DEF LoginFails, ShellInv, NotExposed
<1>4. CASE Login
  BY <1>4, <1>d DEF Login, ShellInv, NotExposed
<1>5. CASE Command \/ ReadData
  <2>1. UNCHANGED <<shell, exposed>>
    BY <1>5 DEF Command, ReadData
  <2>2. getting'.at # "login" /\ {"at", "data"} \subseteq DOMAIN getting'
    BY <1>5, <1>d DEF Command, ReadData, Takes
  <2> QED
    BY <2>1, <2>2 DEF ShellInv, NotExposed
<1>6. CASE TakeResponse
  <2>1. getting'.at # "login" /\ {"at", "data"} \subseteq DOMAIN getting'
    <3>1. ASSUME NEW s \in Names, getting' = [Stage("ask", s) EXCEPT !.left = Names \ {s}]
          PROVE  getting'.at # "login" /\ {"at", "data"} \subseteq DOMAIN getting'
      BY <3>1 DEF Stage
    <3> QED
      BY <1>6, <1>d, <3>1, OnTo DEF TakeResponse
  <2> QED
    BY <1>6, <2>1 DEF TakeResponse, ShellInv, NotExposed
<1>7. CASE TakeError
  <2>1. getting'.at # "login" /\ {"at", "data"} \subseteq DOMAIN getting'
    BY <1>7, <1>d, OnTo DEF TakeError
  <2> QED
    BY <1>7, <2>1 DEF TakeError, ShellInv, NotExposed
<1>8. CASE TakeBusy
  <2>1. getting'.at # "login" /\ {"at", "data"} \subseteq DOMAIN getting'
    <3>1. CASE GivesUp
      BY <3>1, <1>d, OnTo
    <3>2. CASE ~GivesUp
      BY <3>2, <1>d, <1>8 DEF TakeBusy
    <3> QED
      BY <3>1, <3>2
  <2> QED
    BY <1>8, <2>1 DEF TakeBusy, ShellInv, NotExposed
<1>9. CASE TakeBye \/ Break
  <2>1. Dropped
    BY <1>9 DEF TakeBye, Break
  <2>2. getting'.at # "login" /\ {"at", "data"} \subseteq DOMAIN getting'
    <3>1. CASE Finished
      BY <3>1, <1>d, OnTo
    <3>2. CASE ~Finished
      BY <3>2, <1>d, <2>1 DEF Dropped, AnotherLink
    <3> QED
      BY <3>1, <3>2
  <2> QED
    BY <2>1, <2>2 DEF Dropped, ShellInv, NotExposed
<1>10. CASE UNCHANGED shellVars
  BY <1>10 DEF shellVars, ShellInv, NotExposed
<1> QED
  BY <1>1, <1>2, <1>3, <1>4, <1>5, <1>6, <1>7, <1>8, <1>9, <1>10 DEF ShellNext

(* A response is taken for that to the command it was sent for because,    *)
(* between two commands, nothing is left unread, and during one what is    *)
(* read so far and what is left are together one response to it.           *)
LineKinds == {"data", "caps", "ok", "no", "busy", "bye", "garbled"}
SaidBy == [kind : LineKinds, from : Senders]
LinkSound(l) ==
  /\ {"open", "tls", "known", "lines", "odd"} \subseteq DOMAIN l
  /\ l.open \in BOOLEAN /\ l.tls \in BOOLEAN /\ l.known \in BOOLEAN /\ l.odd \in BOOLEAN
  /\ l.lines \in Seq(SaidBy)
GettingSound(g) ==
  /\ {"at", "name", "data", "drops", "busy", "left"} \subseteq DOMAIN g
  /\ g.at \in {"dial", "login", "ask", "read", "over"} /\ g.name \in Senders /\ g.data \in Seq(SaidBy)
  /\ g.drops \in 0..SieveTries /\ g.busy \in 0..SieveTries /\ g.left \in SUBSET Names
ShellRecords ==
  /\ shell \in [implicit : BOOLEAN, cleartext : BOOLEAN]
  /\ LinkSound(link) /\ GettingSound(getting)
  /\ got \subseteq [name : Senders, from : Senders, odd : BOOLEAN]
  /\ garbled \in 0..MaxGarbled
InStep ==
  \/ \E k \in Statuses : link.lines = <<Line(k)>> /\ getting.data = <<>>
  \/ link.lines = <<Line("data"), Line("ok")>> /\ getting.data = <<>>
  \/ link.lines = <<Line("ok")>> /\ getting.data = <<Line("data")>>
ShellMatches ==
  /\ link.odd \/
       /\ getting.at \in {"login", "ask"} => link.lines = <<>>
       /\ getting.at = "read" => InStep
  /\ ScriptsMatch
ShellTalk == ShellRecords /\ ShellMatches

(* The importer's locals at the start of a command.                        *)
LEMMA StageSound ==
  ASSUME NEW at \in {"dial", "ask", "over"}, NEW name \in Senders, NEW left \in SUBSET Names
  PROVE  GettingSound([Stage(at, name) EXCEPT !.left = left])
BY SieveBoundsAssumption DEF Stage, GettingSound

(* Whoever says no or yes has not said anything else.                      *)
LEMMA ShellTalksInitially == ShellInit \/ NoShell => ShellTalk
<1> SUFFICES ASSUME ShellInit \/ NoShell PROVE ShellTalk
  OBVIOUS
<1>1. shell \in [implicit : BOOLEAN, cleartext : BOOLEAN] /\ link = NoLink /\ got = {} /\ garbled = 0
  <2>1. ShellStart
    BY DEF ShellInit, NoShell
  <2>2. shell \in [implicit : BOOLEAN, cleartext : BOOLEAN]
    <3>1. ShellInit => shell \in [implicit : BOOLEAN, cleartext : BOOLEAN]
      BY DEF ShellInit
    <3>2. NoShell => shell \in [implicit : BOOLEAN, cleartext : BOOLEAN]
      BY DEF NoShell
    <3> QED
      BY <3>1, <3>2
  <2> QED
    BY <2>1, <2>2 DEF ShellStart
<1>2. PICK at \in {"dial", "over"} : getting = Stage(at, "start")
  BY DEF ShellInit, NoShell
<1>3. GettingSound(getting)
  BY <1>2, SieveBoundsAssumption DEF Stage, Senders, GettingSound
<1>4. LinkSound(NoLink)
  BY DEF NoLink, LinkSound
<1>5. ShellRecords
  BY <1>1, <1>3, <1>4, SieveBoundsAssumption DEF ShellRecords
<1>6. getting.at \in {"dial", "over"}
  BY <1>2 DEF Stage
<1>7. ShellMatches
  BY <1>1, <1>6 DEF ShellMatches, ScriptsMatch
<1> QED
  BY <1>5, <1>7 DEF ShellTalk

(* What comes after a script, the last one or an error.                    *)
LEMMA OnToSound ==
  ASSUME ShellRecords, NextScript \/ Finished \/ GivesUp
  PROVE  /\ GettingSound(getting')
         /\ getting'.at \in {"ask", "over"}
<1>1. CASE Finished
  BY <1>1 DEF Finished, ShellRecords, GettingSound
<1>2. CASE NextScript /\ ~Finished
  <2>1. PICK s \in getting.left : getting' = [Stage("ask", s) EXCEPT !.left = getting.left \ {s}]
    BY <1>2 DEF NextScript
  <2>2. s \in Senders /\ getting.left \ {s} \in SUBSET Names
    BY DEF ShellRecords, GettingSound, Senders
  <2>3. getting'.at = "ask"
    BY <2>1 DEF Stage
  <2> QED
    BY <2>1, <2>2, <2>3, StageSound
<1> QED
  BY <1>1, <1>2 DEF GivesUp

(* Lines that are read off or added to are lines.                          *)
LEMMA ShellTalkStep == ShellTalk /\ [ShellNext]_shellVars => ShellTalk'
<1> SUFFICES ASSUME ShellTalk, [ShellNext]_shellVars PROVE ShellTalk'
  OBVIOUS
<1> DEFINE Shells == [implicit : BOOLEAN, cleartext : BOOLEAN]
           Gots == SUBSET [name : Senders, from : Senders, odd : BOOLEAN]
<1>r. /\ shell \in Shells /\ LinkSound(link) /\ GettingSound(getting) /\ got \in Gots /\ garbled \in 0..MaxGarbled
  BY DEF ShellTalk, ShellRecords
<1>m. ShellRecords /\ ShellMatches
  BY DEF ShellTalk
<1>n. \A k \in LineKinds : Line(k) \in SaidBy
  BY <1>r DEF Line, SaidBy, GettingSound
<1> USE SieveBoundsAssumption
(* How a step that ends with a link and a command in step is in step.      *)
<1>k. ASSUME shell' = shell, LinkSound(link'), GettingSound(getting'), got' \in Gots, garbled' \in 0..MaxGarbled,
             link'.odd \/ (/\ getting'.at \in {"login", "ask"} => link'.lines = <<>>
                           /\ getting'.at = "read" => InStep'),
             ScriptsMatch'
      PROVE  ShellTalk'
  BY <1>k, <1>r DEF ShellTalk, ShellRecords, ShellMatches
<1> HIDE DEF Shells, Gots
<1>1. CASE DialFails
  <2>1. link' = [link EXCEPT !.odd = TRUE] /\ UNCHANGED <<shell, got, garbled>>
    BY <1>1 DEF DialFails
  <2>2. LinkSound(link') /\ link'.odd
    BY <1>r, <2>1 DEF LinkSound
  <2>3. GettingSound(getting')
    BY <1>1, <1>m, OnToSound DEF DialFails, GettingSound
  <2> QED
    BY <1>k, <1>r, <1>m, <2>1, <2>2, <2>3 DEF ShellMatches, ScriptsMatch
<1>2. CASE Dial
  <2>1. PICK e \in BOOLEAN : link' = [NoLink EXCEPT !.open = TRUE, !.tls = e]
    BY <1>2 DEF Dial
  <2>2. LinkSound(link') /\ link'.lines = <<>>
    BY <2>1 DEF NoLink, LinkSound
  <2>3. GettingSound(getting') /\ getting'.at = "login"
    BY <1>2, <1>r DEF Dial, GettingSound
  <2>4. UNCHANGED <<shell, got, garbled>>
    BY <1>2 DEF Dial
  <2> QED
    BY <1>k, <1>r, <1>m, <2>2, <2>3, <2>4 DEF ShellMatches, ScriptsMatch
<1>3. CASE LoginFails
  <2>1. GettingSound(getting') /\ getting'.at \in {"ask", "over"} /\ getting.at = "login"
    BY <1>3, <1>m, OnToSound DEF LoginFails, GettingSound
  <2>2. UNCHANGED <<shell, got>> /\ ScriptsMatch'
    BY <1>3, <1>m DEF LoginFails, ShellMatches, ScriptsMatch
  <2>3. CASE UNCHANGED <<link, garbled>>
    BY <1>k, <1>r, <1>m, <2>1, <2>2, <2>3 DEF ShellMatches
  <2>4. CASE link' = [link EXCEPT !.open = FALSE] /\ UNCHANGED garbled
    <3>1. LinkSound(link') /\ link'.lines = link.lines /\ link'.odd = link.odd
      BY <1>r, <2>4 DEF LinkSound
    <3> QED
      BY <1>k, <1>r, <1>m, <2>1, <2>2, <2>4, <3>1 DEF ShellMatches
  <2>5. CASE /\ garbled < MaxGarbled /\ garbled' = garbled + 1
             /\ link' = [link EXCEPT !.lines = <<[kind |-> "ok", from |-> "start"]>>, !.known = TRUE, !.odd = TRUE]
    <3>1. <<[kind |-> "ok", from |-> "start"]>> \in Seq(SaidBy)
      BY DEF SaidBy, LineKinds, Senders
    <3>2. LinkSound(link') /\ link'.odd
      BY <1>r, <2>5, <3>1 DEF LinkSound
    <3>3. garbled' \in 0..MaxGarbled
      BY <1>r, <2>5
    <3> QED
      BY <1>k, <1>r, <2>1, <2>2, <3>2, <3>3
  <2> QED
    BY <1>3, <2>3, <2>4, <2>5 DEF LoginFails
<1>4. CASE Login
  <2> DEFINE caps == <<[kind |-> "caps", from |-> "start"], [kind |-> "ok", from |-> "start"]>>
  <2>1. \/ link' = [link EXCEPT !.known = TRUE]
        \/ link' = [link EXCEPT !.known = TRUE, !.lines = caps, !.odd = TRUE]
    BY <1>4 DEF Login
  <2>2. caps \in Seq(SaidBy)
    BY DEF SaidBy, LineKinds, Senders
  <2> HIDE DEF caps
  <2>3. LinkSound(link') /\ (link'.odd \/ (link'.lines = link.lines /\ link'.odd = link.odd))
    BY <1>r, <2>1, <2>2 DEF LinkSound
  <2>4. GettingSound(getting') /\ getting'.at = "ask" /\ getting.at = "login"
    BY <1>4, <1>r DEF Login, GettingSound, Senders
  <2>5. UNCHANGED <<shell, got, garbled>>
    BY <1>4 DEF Login
  <2> QED
    BY <1>k, <1>r, <1>m, <2>3, <2>4, <2>5 DEF ShellMatches, ScriptsMatch
<1>5. CASE Command
  <2>1. /\ getting.at = "ask" /\ getting' = [getting EXCEPT !.at = "read", !.data = <<>>]
        /\ UNCHANGED <<shell, got>>
    BY <1>5 DEF Command
  <2>2. GettingSound(getting') /\ getting'.at = "read" /\ getting'.data = <<>> /\ getting'.name = getting.name
    BY <1>r, <2>1 DEF GettingSound
  <2>3. ScriptsMatch'
    BY <1>m, <2>1 DEF ShellMatches, ScriptsMatch
  <2>4. PICK r \in ShellReplies :
          \/ link' = [link EXCEPT !.lines = @ \o r] /\ UNCHANGED garbled
          \/ /\ garbled < MaxGarbled /\ garbled' = garbled + 1
             /\ \E i \in DOMAIN r :
                  link' = [link EXCEPT !.lines = @ \o ReplaceAt(r, i, Line("garbled")), !.odd = TRUE]
    BY <1>5 DEF Command
  <2>5. r \in Seq(SaidBy) /\ ((\E k \in Statuses : r = <<Line(k)>>) \/ r = <<Line("data"), Line("ok")>>)
    <3>1. (\E k \in Statuses : r = <<Line(k)>>) \/ r = <<Line("data"), Line("ok")>>
      BY <2>4 DEF ShellReplies
    <3>2. \A k \in Statuses \union {"data", "ok"} : Line(k) \in SaidBy
      BY <1>n DEF Statuses, LineKinds
    <3>3. (\A x \in SaidBy : <<x>> \in Seq(SaidBy)) /\ (\A x, y \in SaidBy : <<x, y>> \in Seq(SaidBy))
      OBVIOUS
    <3> QED
      BY <3>1, <3>2, <3>3
  <2>6. CASE link' = [link EXCEPT !.lines = @ \o r] /\ UNCHANGED garbled
    <3>1. LinkSound(link') /\ link'.odd = link.odd /\ link'.lines = link.lines \o r
      BY <1>r, <2>5, <2>6 DEF LinkSound
    <3>2. ASSUME ~link.odd PROVE InStep'
      <4>1. link'.lines = r
        BY <1>m, <2>1, <2>5, <3>1, <3>2 DEF ShellMatches
      <4>2. \A k \in LineKinds : Line(k)' = Line(k)
        BY <2>2 DEF Line
      <4> QED
        BY <2>2, <2>5, <4>1, <4>2 DEF InStep, Statuses, LineKinds
    <3> QED
      BY <1>k, <1>r, <2>1, <2>2, <2>3, <2>6, <3>1, <3>2
  <2>7. CASE /\ garbled < MaxGarbled /\ garbled' = garbled + 1
             /\ \E i \in DOMAIN r :
                  link' = [link EXCEPT !.lines = @ \o ReplaceAt(r, i, Line("garbled")), !.odd = TRUE]
    <3>1. PICK i \in DOMAIN r :
            link' = [link EXCEPT !.lines = @ \o ReplaceAt(r, i, Line("garbled")), !.odd = TRUE]
      BY <2>7
    <3>2. ReplaceAt(r, i, Line("garbled")) \in Seq(SaidBy)
      BY <1>n, <2>5, <3>1 DEF ReplaceAt, LineKinds
    <3>3. LinkSound(link') /\ link'.odd
      BY <1>r, <3>1, <3>2 DEF LinkSound
    <3>4. garbled' \in 0..MaxGarbled
      BY <1>r, <2>7
    <3> QED
      BY <1>k, <1>r, <2>1, <2>2, <2>3, <3>3, <3>4
  <2> QED
    BY <2>4, <2>6, <2>7
(* Reading takes the first line off.                                       *)
<1>t. ASSUME NEW kinds, Takes(kinds)
      PROVE  /\ getting.at = "read" /\ link.lines # <<>> /\ Head(link.lines).kind \in kinds
             /\ LinkSound(link') /\ link'.odd = link.odd /\ link'.lines = Tail(link.lines)
             /\ Head(link.lines) \in SaidBy
             /\ link.odd \/ InStep
  BY <1>r, <1>m, <1>t DEF Takes, LinkSound, ShellMatches
<1>s. ASSUME InStep
      PROVE  /\ Head(link.lines).kind = "data" =>
                  Tail(link.lines) = <<Line("ok")>> /\ Head(link.lines) = Line("data") /\ getting.data = <<>>
             /\ Head(link.lines).kind \in {"ok", "no", "busy", "bye"} => Tail(link.lines) = <<>>
             /\ Head(link.lines).kind = "ok" => getting.data = <<Line("data")>>
             /\ Head(link.lines).kind \notin {"caps", "garbled"}
  <2>0. \A k : Line(k).kind = k
    BY DEF Line
  <2>1. \A x, y : /\ Head(<<x>>) = x /\ Tail(<<x>>) = <<>>
                  /\ Head(<<x, y>>) = x /\ Tail(<<x, y>>) = <<y>>
    OBVIOUS
  <2>2. CASE \E k \in Statuses : link.lines = <<Line(k)>> /\ getting.data = <<>>
    BY <2>0, <2>1, <2>2 DEF Statuses
  <2>3. CASE link.lines = <<Line("data"), Line("ok")>> /\ getting.data = <<>>
    BY <2>0, <2>1, <2>3
  <2>4. CASE link.lines = <<Line("ok")>> /\ getting.data = <<Line("data")>>
    BY <2>0, <2>1, <2>4
  <2> QED
    BY <1>s, <2>2, <2>3, <2>4 DEF InStep
<1>6. CASE ReadData
  <2>1. /\ Takes({"data", "caps"}) /\ getting' = [getting EXCEPT !.data = Append(@, Head(link.lines))]
        /\ UNCHANGED <<shell, got, garbled>>
    BY <1>6 DEF ReadData
  <2>2. /\ GettingSound(getting') /\ getting'.at = "read" /\ getting'.name = getting.name
        /\ getting'.data = Append(getting.data, Head(link.lines))
    BY <1>r, <1>t, <2>1 DEF GettingSound
  <2>3. ASSUME ~link.odd PROVE InStep'
    <3>1. InStep /\ link'.lines = <<Line("ok")>> /\ getting'.data = <<Line("data")>>
      <4>1. InStep /\ Head(link.lines).kind \in {"data", "caps"} /\ link'.lines = Tail(link.lines)
        BY <1>t, <2>1, <2>3
      <4>2. Tail(link.lines) = <<Line("ok")>> /\ Head(link.lines) = Line("data") /\ getting.data = <<>>
        BY <1>s, <4>1
      <4>3. \A x : Append(<<>>, x) = <<x>>
        OBVIOUS
      <4> QED
        BY <2>2, <4>1, <4>2, <4>3
    <3>2. \A k \in LineKinds : Line(k)' = Line(k)
      BY <2>2 DEF Line
    <3> QED
      BY <3>1, <3>2 DEF InStep, LineKinds
  <2>4. ScriptsMatch'
    BY <1>m, <2>1 DEF ShellMatches, ScriptsMatch
  <2> QED
    BY <1>k, <1>r, <1>t, <2>1, <2>2, <2>3, <2>4
<1>7. CASE TakeResponse
  <2>1. /\ Takes({"ok"}) /\ UNCHANGED <<shell, garbled>>
        /\ got' = got \union {[name |-> getting.name, from |-> Source, odd |-> link.odd]}
    BY <1>7 DEF TakeResponse
  <2>2. GettingSound(getting') /\ getting'.at \in {"ask", "over"}
    <3>1. CASE getting.name = "list" /\ Source = "list" /\ Names # {}
      <4>1. PICK s \in Names : getting' = [Stage("ask", s) EXCEPT !.left = Names \ {s}]
        BY <1>7, <3>1 DEF TakeResponse
      <4>2. getting'.at = "ask" /\ s \in Senders
        BY <4>1 DEF Stage, Senders
      <4> QED
        BY <4>1, <4>2, StageSound DEF GettingSound
    <3>2. CASE ~(getting.name = "list" /\ Source = "list" /\ Names # {})
      BY <1>7, <1>m, <3>2, OnToSound DEF TakeResponse, GettingSound
    <3> QED
      BY <3>1, <3>2
  <2>3. Source \in Senders
    <3>1. getting.data # <<>> => getting.data[1] \in SaidBy
      BY <1>r DEF GettingSound
    <3> QED
      BY <3>1 DEF Source, SaidBy, Senders
  <2>4. got' \in Gots
    BY <1>r, <2>1, <2>3 DEF GettingSound, Gots, LinkSound
  <2>5. ASSUME ~link.odd PROVE Source = getting.name /\ link'.lines = <<>>
    <3>1. getting.data = <<Line("data")>> /\ link'.lines = <<>>
      <4>1. InStep /\ Head(link.lines).kind \in {"ok"} /\ link'.lines = Tail(link.lines)
        BY <1>t, <2>1, <2>5
      <4> QED
        BY <1>s, <4>1
    <3> QED
      BY <3>1 DEF Source, Line
  <2>6. ScriptsMatch'
    BY <1>m, <2>1, <2>5 DEF ShellMatches, ScriptsMatch
  <2> QED
    BY <1>k, <1>r, <1>t, <2>1, <2>2, <2>4, <2>5, <2>6
<1>8. CASE TakeError
  <2>1. PICK kinds \in {{"no", "garbled"}, {"ok"}} : Takes(kinds)
    BY <1>8 DEF TakeError
  <2>2. GettingSound(getting') /\ getting'.at \in {"ask", "over"} /\ UNCHANGED <<shell, got, garbled>>
    BY <1>8, <1>m, OnToSound DEF TakeError, GettingSound
  <2>3. link.odd \/ link'.lines = <<>>
    BY <1>t, <1>s, <2>1
  <2> QED
    BY <1>k, <1>r, <1>m, <1>t, <2>1, <2>2, <2>3 DEF ShellMatches, ScriptsMatch
<1>9. CASE TakeBusy
  <2>1. Takes({"busy"}) /\ UNCHANGED <<shell, got, garbled>>
    BY <1>9 DEF TakeBusy
  <2>2. GettingSound(getting') /\ getting'.at \in {"ask", "over"}
    <3>1. CASE getting.busy < SieveTries
      <4>1. getting' = [getting EXCEPT !.at = "ask", !.busy = @ + 1]
        BY <1>9, <3>1 DEF TakeBusy
      <4> QED
        BY <1>r, <3>1, <4>1 DEF GettingSound
    <3>2. CASE ~(getting.busy < SieveTries)
      BY <1>9, <1>m, <3>2, OnToSound DEF TakeBusy, GettingSound
    <3> QED
      BY <3>1, <3>2
  <2>3. link.odd \/ link'.lines = <<>>
    BY <1>t, <1>s, <2>1
  <2> QED
    BY <1>k, <1>r, <1>m, <1>t, <2>1, <2>2, <2>3 DEF ShellMatches, ScriptsMatch
<1>10. CASE TakeBye \/ Break
  <2>1. Dropped /\ (link' = [link EXCEPT !.open = FALSE, !.lines = <<>>] \/ UNCHANGED link)
    BY <1>10 DEF TakeBye, Break
  <2>e. <<>> \in Seq(SaidBy)
    OBVIOUS
  <2>2. LinkSound(link')
    <3>1. CASE link' = [link EXCEPT !.open = FALSE, !.lines = <<>>]
      BY <1>r, <2>e, <3>1 DEF LinkSound
    <3> QED
      BY <1>r, <2>1, <3>1
  <2>3. GettingSound(getting') /\ getting'.at \in {"dial", "over"}
    <3>1. CASE getting.drops < SieveTries
      <4>1. getting' = [getting EXCEPT !.at = "dial", !.drops = @ + 1]
        BY <2>1, <3>1 DEF Dropped, AnotherLink
      <4> QED
        BY <1>r, <3>1, <4>1 DEF GettingSound
    <3>2. CASE ~(getting.drops < SieveTries)
      <4>1. getting' = [getting EXCEPT !.at = "over", !.data = <<>>]
        BY <2>1, <3>2 DEF Dropped, Finished
      <4> QED
        BY <1>r, <2>e, <4>1 DEF GettingSound
    <3> QED
      BY <3>1, <3>2
  <2>4. UNCHANGED <<shell, got, garbled>>
    BY <2>1 DEF Dropped
  <2> QED
    BY <1>k, <1>r, <1>m, <2>2, <2>3, <2>4 DEF ShellMatches, ScriptsMatch
<1>11. CASE UNCHANGED shellVars
  BY <1>11, <1>m DEF shellVars, ShellTalk, ShellRecords, ShellMatches, ScriptsMatch, InStep, Line
<1> QED
  BY <1>1, <1>2, <1>3, <1>4, <1>5, <1>6, <1>7, <1>8, <1>9, <1>10, <1>11 DEF ShellNext

(* The types of the importer's side, of any of its values, and of the      *)
(* connection.                                                             *)
LoginFields ==
  {"pc", "command", "folder", "drops", "busy", "faults", "sent", "doubted", "unnamed", "named", "lapses"}
LoginSound(l) ==
  /\ LoginFields \subseteq DOMAIN l
  /\ l.pc \in {"dial", "starttls", "caps", "sign", "refresh", "compress", "enable", "run", "over"}
  /\ l.command \in {"first", "LIST", "NOOP", "SELECT", "SEARCH"}
  /\ l.folder \in 0..SiteFolders /\ l.lapses \in Nat
  /\ l.faults \in 0..LoginFaults /\ l.drops \in 0..LoginRetries /\ l.busy \in 0..LoginRetries
  /\ l.doubted \in BOOLEAN /\ l.unnamed \in BOOLEAN /\ l.named \in BOOLEAN
ChannelEnds == {"up", "tls", "sealed", "signed", "deflates", "inflates", "utf8", "accepts", "selected", "strayed"}
ChannelSound ==
  /\ (ChannelEnds \cup {"caps"}) \subseteq DOMAIN channel
  /\ \A end \in ChannelEnds : channel[end] \in BOOLEAN

LoginInv ==
  /\ site \in Sites
  /\ LoginSound(login)
  /\ ChannelSound
  /\ LoginAt("caps") => channel.tls /\ channel.sealed
  /\ LoginAt("sign") =>
       /\ channel.caps = Offered /\ channel.tls = channel.sealed
       /\ channel.tls \/ site.mode = "plain"
  /\ SecretsCovered

(* The record of no connection has its types.                              *)
LEMMA NoChannelSound ==
  /\ (ChannelEnds \cup {"caps"}) \subseteq DOMAIN NoChannel
  /\ \A end \in ChannelEnds : NoChannel[end] = FALSE
BY DEF NoChannel, ChannelEnds

(* Before the first connection no secret was sent.                         *)
LEMMA LoginStarts == LoginSound(LoginStart) /\ LoginStart.sent.by = "none" /\ LoginStart.pc = "dial"
BY LoginBoundsAssumption DEF LoginStart, LoginSound, LoginFields

LEMMA LoginInitially == LoginInit => LoginInv
BY LoginStarts, NoChannelSound DEF LoginInit, LoginInv, LoginAt, SecretsCovered, ChannelSound

(* What an error leads to sends nothing and is no sign-in. *)
Apart(l, k) == LoginSound(k) /\ k.sent = l.sent
Settled(l) == l.pc \notin {"caps", "sign"}

(* A command that begins, and the next folder's, sends no secret.          *)
LEMMA IssueApart ==
  ASSUME NEW l, LoginSound(l), NEW c \in {"LIST", "NOOP", "SELECT", "SEARCH"}
  PROVE  Apart(l, Issue(l, c)) /\ Settled(Issue(l, c))
<1>1. /\ Issue(l, c).pc = "run" /\ Issue(l, c).command = c /\ Issue(l, c).drops = 0 /\ Issue(l, c).busy = 0
      /\ DOMAIN Issue(l, c) = DOMAIN l
      /\ \A f \in LoginFields \ {"pc", "command", "drops", "busy"} : Issue(l, c)[f] = l[f]
  BY DEF Issue, LoginSound, LoginFields
<1>2. /\ Issue(l, c).folder = l.folder /\ Issue(l, c).lapses = l.lapses /\ Issue(l, c).faults = l.faults
      /\ Issue(l, c).doubted = l.doubted /\ Issue(l, c).unnamed = l.unnamed /\ Issue(l, c).named = l.named
      /\ Issue(l, c).sent = l.sent
  BY <1>1 DEF LoginFields
<1> QED
  BY <1>1, <1>2, LoginBoundsAssumption DEF Apart, Settled, LoginSound

LEMMA FolderApart ==
  ASSUME NEW l, LoginSound(l)
  PROVE  Apart(l, NextFolder(l)) /\ Settled(NextFolder(l))
<1>1. CASE l.folder = SiteFolders
  BY <1>1 DEF NextFolder, Apart, Settled, LoginSound, LoginFields
<1>2. CASE l.folder # SiteFolders
  <2>1. Apart(l, [l EXCEPT !.folder = @ + 1])
    BY <1>2, LoginBoundsAssumption DEF Apart, LoginSound, LoginFields
  <2> QED
    BY <1>2, <2>1, IssueApart DEF NextFolder, Apart
<1> QED
  BY <1>1, <1>2

(* Nor does what comes after a command that failed or was done.            *)
LEMMA FailedApart ==
  ASSUME NEW l, LoginSound(l), NEW c \in BOOLEAN
  PROVE  Apart(l, Failed(l, c)) /\ Settled(Failed(l, c))
<1>1. Apart(l, [l EXCEPT !.pc = "over"]) /\ Settled([l EXCEPT !.pc = "over"])
  BY DEF Apart, Settled, LoginSound, LoginFields
<1>2. Apart(l, [l EXCEPT !.lapses = @ + 1])
  BY DEF Apart, LoginSound, LoginFields
<1>3. Apart(l, NextFolder([l EXCEPT !.lapses = @ + 1])) /\ Settled(NextFolder([l EXCEPT !.lapses = @ + 1]))
  BY <1>2, FolderApart DEF Apart
<1> QED
  BY <1>1, <1>3, IssueApart DEF Failed

LEMMA ErrorApart ==
  ASSUME NEW l, LoginSound(l)
  PROVE  Apart(l, DialError(l)) /\ Settled(DialError(l))
<1>1. Apart(l, [l EXCEPT !.doubted = TRUE])
  BY DEF Apart, LoginSound, LoginFields
<1> QED
  BY <1>1, FailedApart DEF DialError, Apart

LEMMA DoneApart ==
  ASSUME NEW l, LoginSound(l), ChannelSound
  PROVE  Apart(l, Done(l)) /\ Settled(Done(l))
<1>1. Apart(l, [l EXCEPT !.named = channel.accepts])
  BY DEF Apart, LoginSound, LoginFields, ChannelSound, ChannelEnds
<1>2. Apart(l, NextFolder([l EXCEPT !.named = channel.accepts]))
      /\ Settled(NextFolder([l EXCEPT !.named = channel.accepts]))
  BY <1>1, FolderApart DEF Apart
<1>3. l.command \in {"first", "LIST", "NOOP", "SELECT", "SEARCH"}
  BY DEF LoginSound
<1>4. Apart(l, NextFolder(l)) /\ Settled(NextFolder(l))
  BY FolderApart
<1>5. Apart(l, Issue(l, "SELECT")) /\ Settled(Issue(l, "SELECT"))
      /\ Apart(l, Issue(l, "SEARCH")) /\ Settled(Issue(l, "SEARCH"))
  BY IssueApart
<1> QED
  BY <1>2, <1>3, <1>4, <1>5 DEF Done

(* A fault while there may be more of them, a client that is ready, and a  *)
(* step on the way to it.                                                  *)
LEMMA FaultApart ==
  ASSUME NEW l, LoginSound(l), l.faults < LoginFaults
  PROVE  Apart(l, Faulted(l)) /\ Faulted(l).pc = l.pc
BY LoginBoundsAssumption DEF Apart, Faulted, LoginSound, LoginFields

LEMMA ReadyApart ==
  ASSUME NEW l, LoginSound(l)
  PROVE  Apart(l, Ready(l)) /\ Settled(Ready(l))
<1>1. Apart(l, [l EXCEPT !.pc = "run"]) /\ Settled([l EXCEPT !.pc = "run"])
  BY DEF Apart, Settled, LoginSound, LoginFields
<1> QED
  BY <1>1, IssueApart DEF Ready

LEMMA GoesApart ==
  ASSUME LoginSound(login),
         NEW p \in {"dial", "starttls", "caps", "sign", "refresh", "compress", "enable", "run", "over"}
  PROVE  Apart(login, [login EXCEPT !.pc = p]) /\ [login EXCEPT !.pc = p].pc = p
BY DEF Apart, LoginSound, LoginFields

(* A step that sends nothing and comes to no sign-in keeps the invariant.  *)
LEMMA ApartKeeps ==
  ASSUME LoginInv, site' = site, ChannelSound', Apart(login, login'), Settled(login')
  PROVE  LoginInv'
BY DEF LoginInv, Apart, Settled, LoginAt, SecretsCovered, LoginSound, LoginFields

(* However the connection changes, it has its types.                       *)
LEMMA ChannelChanges ==
  ASSUME ChannelSound, NEW f \in ChannelEnds, NEW b \in BOOLEAN, channel' = [channel EXCEPT ![f] = b]
  PROVE  ChannelSound'
BY DEF ChannelSound, ChannelEnds

LEMMA ChannelGone ==
  ASSUME ChannelSound, channel' = Gone \/ channel' = NoChannel \/ channel' = channel
  PROVE  ChannelSound'
<1>1. CASE channel' = Gone
  BY <1>1 DEF ChannelSound, ChannelEnds, Gone
<1>2. CASE channel' = NoChannel
  BY <1>2, NoChannelSound DEF ChannelSound
<1>3. CASE channel' = channel
  BY <1>3 DEF ChannelSound
<1> QED
  BY <1>1, <1>2, <1>3

LEMMA LoginStep == LoginInv /\ [LoginNext]_loginVars => LoginInv'
<1> SUFFICES ASSUME LoginInv, [LoginNext]_loginVars PROVE LoginInv'
  OBVIOUS
<1>d. LoginSound(login) /\ ChannelSound /\ site \in Sites
  BY DEF LoginInv
<1>f. LoginFault => LoginSound(Faulted(login)) /\ Faulted(login).sent = login.sent /\ Faulted(login).pc = login.pc
  BY <1>d, FaultApart DEF LoginFault, Apart
<1>e. /\ Apart(login, DialError(login)) /\ Settled(DialError(login))
      /\ LoginFault => Apart(login, DialError(Faulted(login))) /\ Settled(DialError(Faulted(login)))
  BY <1>d, <1>f, ErrorApart DEF Apart
<1>g. ASSUME NEW p \in {"sign", "caps", "starttls", "compress", "enable"}, Goes(p)
      PROVE  login'.pc = p /\ Apart(login, login')
  BY <1>d, <1>g, GoesApart DEF Goes
<1>1. CASE HandshakeFails
  BY <1>1, <1>d, <1>e, ApartKeeps, ChannelGone DEF HandshakeFails
<1>2. CASE DialIn
  <2>1. PICK p \in {"starttls", "sign"} : Goes(p) /\ (p = "sign" => site.mode # "starttls")
    BY <1>2 DEF DialIn
  <2>2. login'.pc = p /\ Apart(login, login')
    BY <2>1, <1>g
  <2>3. /\ channel'.tls = (site.mode = "tls") /\ channel'.sealed = (site.mode = "tls")
        /\ channel'.signed = FALSE
        /\ channel'.caps = IF site.mode = "tls" THEN site.covered ELSE site.clear
    BY <1>2 DEF DialIn, NoChannel
  <2>4. channel'.caps = Offered' /\ site' = site
    BY <1>2, <2>3 DEF DialIn, Offered
  <2>5. site.mode \in {"tls", "starttls", "plain"}
    BY SitesAssumption, <1>d
  <2>6. ChannelSound'
    BY <1>2, NoChannelSound DEF DialIn, ChannelSound, ChannelEnds
  <2> QED
    BY <2>1, <2>2, <2>3, <2>4, <2>5, <2>6, <1>d DEF LoginInv, LoginAt, SecretsCovered, Apart
<1>3. CASE StartTls
  <2>1. CASE Knows("STARTTLS")
    <3>1. channel' = [channel EXCEPT !.tls = TRUE, !.sealed = TRUE] /\ Goes("caps") /\ site' = site
      BY <1>3, <2>1 DEF StartTls, Upgrade
    <3>2. channel'.tls /\ channel'.sealed /\ ChannelSound'
      BY <1>d, <3>1 DEF ChannelSound, ChannelEnds
    <3> QED
      BY <3>1, <3>2, <1>d, <1>g DEF LoginInv, LoginAt, SecretsCovered, Apart
  <2>2. CASE ~Knows("STARTTLS")
    BY <1>3, <1>d, <1>e, <2>2, ApartKeeps, ChannelGone DEF StartTls, Upgrade
  <2> QED
    BY <2>1, <2>2
<1>4. CASE Capability
  <2>1. channel' = [channel EXCEPT !.caps = Offered] /\ site' = site /\ Goes("sign")
    BY <1>4 DEF Capability
  <2>2. channel.tls /\ channel.sealed
    BY <1>4 DEF Capability, LoginInv
  <2>3. /\ channel'.caps = Offered /\ channel'.tls = channel.tls
        /\ channel'.sealed = channel.sealed /\ channel'.signed = channel.signed
    BY <2>1, <1>d DEF ChannelSound, ChannelEnds
  <2>4. ChannelSound'
    BY <2>1, <1>d DEF ChannelSound, ChannelEnds
  <2>5. Offered' = Offered
    BY <2>1, <2>3 DEF Offered
  <2>6. login'.pc = "sign" /\ Apart(login, login')
    BY <2>1, <1>g
  <2> QED
    BY <1>d, <2>1, <2>2, <2>3, <2>4, <2>5, <2>6 DEF LoginInv, LoginAt, SecretsCovered, Apart
<1>5. ASSUME NEW k \in 1..2, Comes(k), ~Barred(Mechanisms[k]), site' = site, ChannelSound',
             Settled(login'), login'.sent = Posted(Mechanisms[k]), LoginSound(login')
      PROVE  LoginInv'
  <2>1. /\ channel.caps = Offered
        /\ (channel.tls /\ channel.sealed) \/ site.mode = "plain"
    BY <1>5 DEF Comes, LoginInv
  <2>2. Mechanisms[k] \in {"LOGIN"} \cup channel.caps
    <3>1. /\ Mechanisms \in {<<"PLAIN", "LOGIN">>, <<"LOGIN">>, <<"XOAUTH2", "OAUTHBEARER">>,
                             <<"XOAUTH2">>, <<"OAUTHBEARER">>, <<>>}
          /\ Mechanisms = <<"PLAIN", "LOGIN">> => "PLAIN" \in channel.caps
          /\ Mechanisms \in {<<"XOAUTH2", "OAUTHBEARER">>, <<"XOAUTH2">>} => "XOAUTH2" \in channel.caps
          /\ Mechanisms \in {<<"XOAUTH2", "OAUTHBEARER">>, <<"OAUTHBEARER">>} => "OAUTHBEARER" \in channel.caps
      BY DEF Mechanisms, Knows
    <3>2. k \in DOMAIN Mechanisms
      BY <1>5 DEF Comes
    <3> QED
      BY <3>1, <3>2
  <2>3. Mechanisms[k] = "LOGIN" => "LOGINDISABLED" \notin Offered
    BY <1>5, <2>1 DEF Barred, Knows
  <2>4. /\ login'.sent.by = Mechanisms[k] /\ login'.sent.offered = Offered
        /\ login'.sent.covered = (channel.tls /\ channel.sealed)
    BY <1>5 DEF Posted
  <2>5. SecretsCovered'
    BY <1>5, <2>1, <2>2, <2>3, <2>4 DEF SecretsCovered
  <2> QED
    BY <1>5, <2>5, <1>d DEF LoginInv, Settled, LoginAt
<1>6. ASSUME NEW k \in 1..2, Authenticate(k) PROVE LoginInv'
  <2> DEFINE posted == [login EXCEPT !.sent = Posted(Mechanisms[k])]
  <2>1. LoginSound(posted) /\ posted.sent = Posted(Mechanisms[k])
    BY <1>d DEF LoginSound, LoginFields
  <2>2. /\ LoginSound([login EXCEPT !.pc = "refresh", !.sent = Posted(Mechanisms[k])])
        /\ [login EXCEPT !.pc = "refresh", !.sent = Posted(Mechanisms[k])].sent = Posted(Mechanisms[k])
        /\ [login EXCEPT !.pc = "refresh", !.sent = Posted(Mechanisms[k])].pc = "refresh"
    BY <1>d DEF LoginSound, LoginFields
  <2>3. DialError(posted).sent = Posted(Mechanisms[k]) /\ Settled(DialError(posted))
        /\ LoginSound(DialError(posted))
    <3> HIDE DEF posted
    <3> QED
      BY <2>1, ErrorApart DEF Apart
  <2>4. CASE /\ channel' = [channel EXCEPT !.signed = TRUE, !.caps = IF site.tells THEN site.inside ELSE @]
             /\ login' = [login EXCEPT !.pc = "refresh", !.sent = Posted(Mechanisms[k])]
    <3>1. ChannelSound'
      BY <1>d, <2>4 DEF ChannelSound, ChannelEnds
    <3>2. Settled(login')
      BY <2>2, <2>4 DEF Settled
    <3> QED
      BY <2>2, <2>4, <3>1, <3>2, <1>5, <1>6 DEF Authenticate
  <2>5. CASE channel' = channel /\ login' = DialError(posted)
    <3>1. ChannelSound'
      BY <1>d, <2>5, ChannelGone
    <3> QED
      BY <2>3, <2>5, <3>1, <1>5, <1>6 DEF Authenticate
  <2> QED
    BY <1>6, <2>4, <2>5 DEF Authenticate
<1>7. CASE NoMechanism
  BY <1>7, <1>d, <1>e, ApartKeeps, ChannelGone DEF NoMechanism
<1>8. ASSUME NEW k \in 1..2, NEW broken \in BOOLEAN, SignInLost(k, broken) PROVE LoginInv'
  <2> DEFINE posted == [login EXCEPT !.sent = Posted(Mechanisms[k])]
  <2>1. LoginSound(posted) /\ posted.sent = Posted(Mechanisms[k]) /\ posted.faults = login.faults
    BY <1>d DEF LoginSound, LoginFields
  <2>2. /\ login' = DialError(Faulted(posted)) /\ login.faults < LoginFaults
        /\ Comes(k) /\ ~Barred(Mechanisms[k]) /\ site' = site
        /\ channel' = Gone \/ channel' = channel
    BY <1>8 DEF SignInLost, LoginFault
  <2> HIDE DEF posted
  <2>3. LoginSound(Faulted(posted)) /\ Faulted(posted).sent = Posted(Mechanisms[k])
    BY <2>1, <2>2, FaultApart DEF Apart
  <2>4. DialError(Faulted(posted)).sent = Posted(Mechanisms[k]) /\ Settled(DialError(Faulted(posted)))
        /\ LoginSound(DialError(Faulted(posted)))
    BY <2>3, ErrorApart DEF Apart
  <2>5. ChannelSound'
    BY <1>d, <2>2, ChannelGone
  <2> QED
    BY <2>2, <2>4, <2>5, <1>5
<1>9. ASSUME NEW broken \in BOOLEAN, Refresh \/ RefreshFails(broken) PROVE LoginInv'
  <2>1. site' = site /\ ChannelSound'
    <3>1. Refresh => ChannelSound'
      BY <1>d DEF Refresh, ChannelSound, ChannelEnds
    <3>2. RefreshFails(broken) => ChannelSound'
      BY <1>d, ChannelGone DEF RefreshFails
    <3> QED
      BY <1>9, <3>1, <3>2 DEF Refresh, RefreshFails
  <2>2. CASE Refresh
    BY <2>1, <2>2, <1>g, ApartKeeps DEF Refresh, Settled
  <2>3. CASE RefreshFails(broken)
    <3>1. \/ login' = [Faulted(login) EXCEPT !.pc = "over"]
          \/ \E b \in BOOLEAN : login' = [Faulted(login) EXCEPT !.pc = "compress", !.unnamed = b]
      <4>1. (Faulted(login).unnamed \/ channel.caps # site.inside) \in BOOLEAN
        OBVIOUS
      <4> QED
        BY <2>3, <4>1, Zenon DEF RefreshFails
    <3>2. LoginFault
      BY <2>3 DEF RefreshFails
    <3>3. Apart(login, login') /\ Settled(login')
      BY <3>1, <3>2, <1>f DEF Apart, Settled, LoginSound, LoginFields
    <3> QED
      BY <2>1, <3>3, ApartKeeps
  <2> QED
    BY <1>9, <2>2, <2>3
<1>10. ASSUME NEW ahead \in BOOLEAN, CompressDeflate(ahead) \/ NoCompress \/ CompressFails
       PROVE  LoginInv'
  <2>1. site' = site /\ ChannelSound'
    <3>1. CompressDeflate(ahead) => ChannelSound'
      BY <1>d DEF CompressDeflate, Primed, ChannelSound, ChannelEnds
    <3> QED
      BY <1>10, <1>d, <3>1, ChannelGone DEF CompressDeflate, NoCompress, CompressFails
  <2>2. Apart(login, login') /\ Settled(login')
    <3>1. ASSUME Goes("enable") PROVE Apart(login, login') /\ Settled(login')
      BY <3>1, <1>g DEF Settled
    <3> QED
      BY <1>10, <3>1, <1>e DEF CompressDeflate, NoCompress, CompressFails
  <2> QED
    BY <2>1, <2>2, ApartKeeps
<1>11. ASSUME NEW broken \in BOOLEAN, Enable \/ NotEnabled \/ EnableFails(broken) \/ NamespaceLost
       PROVE  LoginInv'
  <2>1. site' = site /\ ChannelSound'
    <3>1. Enable => ChannelSound'
      BY <1>d DEF Enable, ChannelSound, ChannelEnds
    <3> QED
      BY <1>11, <1>d, <3>1, ChannelGone DEF Enable, NotEnabled, EnableFails, NamespaceLost
  <2>2. \A l : LoginSound(l) => Apart(l, Ready(l)) /\ Settled(Ready(l))
    BY ReadyApart
  <2>3. /\ LoginSound([login EXCEPT !.unnamed = @ \/ ~broken])
        /\ [login EXCEPT !.unnamed = @ \/ ~broken].sent = login.sent
        /\ [login EXCEPT !.unnamed = @ \/ ~broken].faults = login.faults
    BY <1>d DEF LoginSound, LoginFields
  <2>4. LoginFault => /\ LoginSound(Faulted([login EXCEPT !.unnamed = @ \/ ~broken]))
                      /\ Faulted([login EXCEPT !.unnamed = @ \/ ~broken]).sent = login.sent
    BY <2>3, FaultApart DEF Apart, LoginFault
  <2>5. \/ login' = Ready(login)
        \/ LoginFault /\ login' = Ready(Faulted(login))
        \/ LoginFault /\ login' = Ready(Faulted([login EXCEPT !.unnamed = @ \/ ~broken]))
    BY <1>11 DEF Enable, NotEnabled, EnableFails, NamespaceLost
  <2>6. Apart(login, login') /\ Settled(login')
    BY <1>d, <1>f, <2>2, <2>4, <2>5 DEF Apart
  <2> QED
    BY <2>1, <2>6, ApartKeeps
<1>12. CASE RunCommand \/ CommandLost \/ CommandBusy
  <2>1. site' = site
    BY <1>12 DEF RunCommand, CommandLost, CommandBusy
  <2>2. Running /\ Settled(login)
    BY <1>12 DEF RunCommand, CommandLost, CommandBusy, Running, LoginAt, Settled
  <2>3. \A l, c : LoginSound(l) /\ c \in BOOLEAN =>
          Apart(l, Failed(l, c)) /\ Settled(Failed(l, c))
    BY FailedApart
  <2>4. CASE RunCommand
    <3>1. Apart(login, login') /\ Settled(login')
      BY <2>3, <2>4, <1>d, DoneApart DEF RunCommand
    <3>2. Obeyed \in BOOLEAN /\ channel.selected \in BOOLEAN
      BY <1>d DEF Obeyed, ChannelSound, ChannelEnds
    <3>3. ChannelSound'
      <4> DEFINE b == IF login.command = "SELECT" THEN Obeyed ELSE channel.selected
      <4>1. channel' = [channel EXCEPT !.selected = b] /\ b \in BOOLEAN
        BY <2>4, <3>2 DEF RunCommand
      <4> HIDE DEF b
      <4> QED
        BY <4>1, <1>d DEF ChannelSound, ChannelEnds
    <3> QED
      BY <2>1, <3>1, <3>3, ApartKeeps
  <2>5. CASE CommandLost
    <3>1. PICK l \in {login, Faulted(login)} :
            /\ l = Faulted(login) => LoginFault \/ l = login
            /\ login' = IF l.drops < LoginRetries THEN [l EXCEPT !.drops = @ + 1, !.pc = "dial"]
                        ELSE Failed(l, TRUE)
      BY <2>5 DEF CommandLost
    <3>2. LoginSound(l) /\ l.sent = login.sent
      BY <3>1, <1>d, <1>f
    <3>3. l.drops < LoginRetries =>
            /\ LoginSound([l EXCEPT !.drops = @ + 1, !.pc = "dial"])
            /\ [l EXCEPT !.drops = @ + 1, !.pc = "dial"].sent = login.sent
            /\ [l EXCEPT !.drops = @ + 1, !.pc = "dial"].pc = "dial"
      BY <3>2, LoginBoundsAssumption DEF LoginSound, LoginFields
    <3>4. Apart(login, login') /\ Settled(login')
      BY <3>1, <3>2, <3>3, <2>3 DEF Apart, Settled
    <3>5. ChannelSound'
      BY <2>5, <1>d, ChannelGone DEF CommandLost
    <3> QED
      BY <2>1, <3>4, <3>5, ApartKeeps
  <2>6. CASE CommandBusy
    <3>1. LoginFault
      BY <2>6 DEF CommandBusy
    <3>2. LoginSound(Faulted(login)) /\ Faulted(login).busy = login.busy
      BY <3>1, <1>d, <1>f DEF Faulted, LoginSound, LoginFields
    <3>3. login.busy < LoginRetries =>
            /\ LoginSound([Faulted(login) EXCEPT !.busy = @ + 1])
            /\ [Faulted(login) EXCEPT !.busy = @ + 1].sent = login.sent
            /\ [Faulted(login) EXCEPT !.busy = @ + 1].pc = login.pc
      BY <3>1, <3>2, <1>f, LoginBoundsAssumption DEF LoginSound, LoginFields
    <3>4. Apart(login, login') /\ Settled(login')
      BY <2>6, <3>1, <3>2, <3>3, <1>f, <2>2, <2>3 DEF CommandBusy, Apart, Settled
    <3>5. ChannelSound'
      <4> DEFINE b == channel.selected /\ login.command # "SELECT"
      <4>1. channel' = [channel EXCEPT !.selected = b] /\ b \in BOOLEAN
        BY <2>6 DEF CommandBusy
      <4> HIDE DEF b
      <4> QED
        BY <4>1, <1>d DEF ChannelSound, ChannelEnds
    <3> QED
      BY <2>1, <3>4, <3>5, ApartKeeps
  <2> QED
    BY <1>12, <2>4, <2>5, <2>6
<1>13. CASE UNCHANGED loginVars
  BY <1>13 DEF loginVars, LoginInv, LoginAt, Offered, SecretsCovered, ChannelSound
<1> QED
  BY <1>1, <1>2, <1>3, <1>4, <1>6, <1>7, <1>8, <1>9, <1>10, <1>11, <1>12, <1>13
  DEF LoginNext, LoginProgress

(* What both ends of the connection agree on, by how far it has come; and  *)
(* unless a reconnection failed or learned nothing (doubted, unnamed),     *)
(* that every connection in use is one that was signed in on and knows     *)
(* what is offered, so that names have one form; and that what passes a    *)
(* folder over, a search that the connection no longer has a folder for,   *)
(* was paid for by a fault.                                                *)
Young == {"dial", "starttls", "caps", "sign", "refresh"}
ConnectionInv ==
  /\ LayersAgree
  /\ LoginAt("dial") => ~channel.up
  /\ login.pc \in {"starttls", "caps", "sign", "refresh"} => channel.up
  /\ login.pc \in Young \cup {"compress", "enable"} /\ channel.up => ~channel.accepts /\ ~channel.selected
  /\ LoginAt("refresh") => channel.signed
Served8(set) == "UTF8" \in set
NamesInv ==
  login.unnamed \/ login.doubted \/
    /\ login.pc \in {"compress", "enable", "run"} /\ channel.up => channel.signed /\ channel.caps = site.inside
    /\ Running => login.command # "first"
    /\ Running /\ channel.up => channel.accepts = Served8(site.inside)
    /\ login.command \in {"NOOP", "SELECT", "SEARCH"} => login.named = Served8(site.inside)
Unselected == login.command = "SEARCH" /\ ~LoginAt("over") /\ ~(channel.up /\ channel.selected)
LapsesInv ==
  login.doubted \/
    /\ login.pc \in {"compress", "enable", "run"} /\ channel.up => channel.signed
    /\ login.pc \notin {"run", "over"} /\ login.command = "SEARCH" => Unselected
    /\ login.lapses <= login.faults
    /\ Unselected => login.lapses + 1 <= login.faults
LinesInv == ConnectionInv /\ NamesInv /\ LapsesInv

LEMMA LinesInitially == LoginInit => LinesInv
BY NoChannelSound
DEF LoginInit, LinesInv, ConnectionInv, NamesInv, LapsesInv, LayersAgree, LoginStart, LoginAt, Young,
    Running, Unselected, ChannelEnds

LEMMA LinesHold == LoginInv /\ LinesInv => LinesAgree
BY DEF LoginInv, LoginSound, LoginFields, LinesInv, LinesAgree, ConnectionInv, NamesInv, LapsesInv, NamesAgree, LapsesForCause,
       Running, LoginAt

(* What a step on from a command leaves of the histories.                  *)
Noted(l, k) ==
  /\ k.named = l.named /\ k.unnamed = l.unnamed /\ k.doubted = l.doubted /\ k.faults = l.faults

LEMMA IssueNotes ==
  ASSUME NEW l, LoginSound(l), NEW c
  PROVE  /\ Noted(l, Issue(l, c)) /\ Issue(l, c).pc = "run" /\ Issue(l, c).command = c
         /\ Issue(l, c).lapses = l.lapses
BY DEF Issue, Noted, LoginSound, LoginFields

LEMMA FolderNotes ==
  ASSUME NEW l, LoginSound(l)
  PROVE  /\ Noted(l, NextFolder(l)) /\ NextFolder(l).lapses = l.lapses
         /\ \/ NextFolder(l).pc = "over" /\ NextFolder(l).command = l.command
            \/ NextFolder(l).pc = "run" /\ NextFolder(l).command \in {"SELECT", "NOOP"}
<1>1. CASE l.folder = SiteFolders
  BY <1>1 DEF NextFolder, Noted, LoginSound, LoginFields
<1>2. CASE l.folder # SiteFolders
  <2> DEFINE k == [l EXCEPT !.folder = @ + 1]
  <2>1. LoginSound(k) /\ Noted(l, k) /\ k.lapses = l.lapses
    BY <1>2, LoginBoundsAssumption DEF LoginSound, LoginFields, Noted
  <2>2. NextFolder(l) = Issue(k, IF l.folder = 0 THEN "SELECT" ELSE "NOOP")
    BY <1>2 DEF NextFolder
  <2> HIDE DEF k
  <2> QED
    BY <2>1, <2>2, IssueNotes DEF Noted
<1> QED
  BY <1>1, <1>2

LEMMA FailedNotes ==
  ASSUME NEW l, LoginSound(l), NEW c \in BOOLEAN
  PROVE  /\ Noted(l, Failed(l, c))
         /\ \/ /\ Failed(l, c).lapses = l.lapses
               /\ Failed(l, c).pc = "run" /\ Failed(l, c).command = "SELECT" /\ l.command = "NOOP"
            \/ /\ Failed(l, c).lapses = l.lapses
               /\ Failed(l, c).pc = "over" /\ Failed(l, c).command = l.command
            \/ /\ Failed(l, c).lapses = l.lapses + 1 /\ l.command \in {"SELECT", "SEARCH"}
               /\ \/ Failed(l, c).pc = "over" /\ Failed(l, c).command = l.command
                  \/ Failed(l, c).pc = "run" /\ Failed(l, c).command \in {"SELECT", "NOOP"}
<1> DEFINE k == [l EXCEPT !.lapses = @ + 1]
           o == [l EXCEPT !.pc = "over"]
<1>1. LoginSound(k) /\ Noted(l, k) /\ k.lapses = l.lapses + 1 /\ k.command = l.command
  BY DEF LoginSound, LoginFields, Noted
<1>2. Noted(l, o) /\ o.pc = "over" /\ o.command = l.command /\ o.lapses = l.lapses
  BY DEF LoginSound, LoginFields, Noted
<1>3. l.command \in {"first", "LIST", "NOOP", "SELECT", "SEARCH"}
  BY DEF LoginSound
<1>4. Failed(l, c) = IF l.command = "NOOP" THEN Issue(l, "SELECT")
                     ELSE IF l.command \in {"first", "LIST"} \/ (l.command = "SELECT" /\ c) THEN o
                     ELSE NextFolder(k)
  BY DEF Failed
<1> HIDE DEF k, o
<1>5. CASE l.command = "NOOP"
  BY <1>4, <1>5, IssueNotes
<1>6. CASE l.command \in {"first", "LIST"} \/ (l.command = "SELECT" /\ c)
  BY <1>2, <1>4, <1>6
<1>7. CASE l.command # "NOOP" /\ ~(l.command \in {"first", "LIST"} \/ (l.command = "SELECT" /\ c))
  <2>1. Failed(l, c) = NextFolder(k) /\ l.command \in {"SELECT", "SEARCH"}
    BY <1>3, <1>4, <1>7
  <2> QED
    BY <1>1, <2>1, FolderNotes DEF Noted
<1> QED
  BY <1>5, <1>6, <1>7

(* A reconnection that failed is noted, and leaves the connection as it is. *)
LEMMA ErrorNotes ==
  ASSUME NEW l, LoginSound(l)
  PROVE  DialError(l).doubted /\ DialError(l).pc \in {"run", "over"}
<1>1. LoginSound([l EXCEPT !.doubted = TRUE]) /\ [l EXCEPT !.doubted = TRUE].doubted
  BY DEF LoginSound, LoginFields
<1> QED
  BY <1>1, FailedNotes DEF DialError, Noted

LEMMA DoubtKeeps ==
  ASSUME LayersAgree', login'.doubted, login'.pc \in {"run", "over"}
  PROVE  LinesInv'
BY DEF LinesInv, ConnectionInv, NamesInv, LapsesInv, Young, LoginAt

LEMMA GoneAgrees ==
  ASSUME ChannelSound, channel' = Gone \/ channel' = NoChannel
  PROVE  LayersAgree' /\ ~channel'.up
BY NoChannelSound DEF LayersAgree, Gone, ChannelSound, ChannelEnds

(* Every step keeps what the ends of the connection agree on.              *)
LEMMA LinesStep == LoginInv /\ LinesInv /\ [LoginNext]_loginVars => LinesInv'
<1> SUFFICES ASSUME LoginInv, LinesInv, [LoginNext]_loginVars PROVE LinesInv'
  OBVIOUS
<1>d. LoginSound(login) /\ ChannelSound /\ LayersAgree
  BY DEF LoginInv, LinesInv, ConnectionInv
<1>f. LoginFault => /\ LoginSound(Faulted(login)) /\ Faulted(login).pc = login.pc
                    /\ Faulted(login).command = login.command /\ Faulted(login).lapses = login.lapses
                    /\ Faulted(login).faults = login.faults + 1 /\ Faulted(login).named = login.named
                    /\ Faulted(login).unnamed = login.unnamed /\ Faulted(login).doubted = login.doubted
                    /\ Faulted(login).drops = login.drops /\ Faulted(login).busy = login.busy
  <2>1. LoginFault => LoginSound(Faulted(login))
    BY <1>d, FaultApart DEF LoginFault, Apart
  <2> QED
    BY <1>d, <2>1 DEF Faulted, LoginSound, LoginFields
<1>e. /\ DialError(login).doubted /\ DialError(login).pc \in {"run", "over"}
      /\ LoginFault => DialError(Faulted(login)).doubted /\ DialError(Faulted(login)).pc \in {"run", "over"}
  BY <1>d, <1>f, ErrorNotes
<1>c. login.lapses \in Nat /\ login.faults \in Nat
  BY <1>d, LoginBoundsAssumption DEF LoginSound
<1>g. ASSUME NEW q \in {"sign", "caps", "starttls", "compress", "enable"}, Goes(q)
      PROVE  /\ login'.pc = q /\ Noted(login, login')
             /\ login'.command = login.command /\ login'.lapses = login.lapses
  BY <1>d, <1>g DEF Goes, LoginSound, LoginFields, Noted
<1>1. CASE HandshakeFails
  BY <1>1, <1>d, <1>e, GoneAgrees, DoubtKeeps DEF HandshakeFails
<1>2. CASE DialIn
  <2>1. PICK q \in {"starttls", "sign"} : Goes(q)
    BY <1>2 DEF DialIn
  <2>2. /\ login'.pc = q /\ Noted(login, login')
        /\ login'.command = login.command /\ login'.lapses = login.lapses /\ site' = site
    BY <1>2, <1>g, <2>1 DEF DialIn
  <2>3. /\ channel'.up /\ ~channel'.accepts /\ ~channel'.selected
        /\ channel'.tls = channel'.sealed /\ channel'.deflates = FALSE /\ channel'.inflates = FALSE
        /\ ~channel'.strayed /\ channel'.utf8 = FALSE /\ channel'.accepts = FALSE
    BY <1>2 DEF DialIn, NoChannel
  <2>4. LoginAt("dial") /\ ~channel.up
    BY <1>2 DEF DialIn, LinesInv, ConnectionInv
  <2> QED
    BY <2>2, <2>3, <2>4 DEF LinesInv, ConnectionInv, NamesInv, LapsesInv, LayersAgree, LoginAt, Running, Young,
       Unselected, Noted
<1>3. CASE StartTls
  <2>1. CASE Knows("STARTTLS")
    <3>1. channel' = [channel EXCEPT !.tls = TRUE, !.sealed = TRUE] /\ Goes("caps") /\ site' = site
      BY <1>3, <2>1 DEF StartTls, Upgrade
    <3>2. /\ channel'.tls /\ channel'.sealed
          /\ \A f \in ChannelEnds \ {"tls", "sealed"} : channel'[f] = channel[f]
      BY <1>d, <3>1 DEF ChannelSound, ChannelEnds
    <3>3. login'.pc = "caps" /\ LoginAt("starttls") /\ Noted(login, login')
          /\ login'.command = login.command /\ login'.lapses = login.lapses
      BY <3>1, <1>g, <1>3 DEF StartTls
    <3> QED
      BY <3>1, <3>2, <3>3 DEF LinesInv, ConnectionInv, NamesInv, LapsesInv, LayersAgree, LoginAt, Running, Young,
         Unselected, Noted, ChannelEnds
  <2>2. CASE ~Knows("STARTTLS")
    BY <1>3, <1>d, <1>e, <2>2, GoneAgrees, DoubtKeeps DEF StartTls, Upgrade
  <2> QED
    BY <2>1, <2>2
<1>4. CASE Capability
  <2>1. channel' = [channel EXCEPT !.caps = Offered] /\ site' = site /\ Goes("sign") /\ LoginAt("caps")
    BY <1>4 DEF Capability
  <2>2. \A f \in ChannelEnds : channel'[f] = channel[f]
    BY <2>1, <1>d DEF ChannelSound, ChannelEnds
  <2>3. login'.pc = "sign" /\ Noted(login, login')
        /\ login'.command = login.command /\ login'.lapses = login.lapses
    BY <2>1, <1>g
  <2> QED
    BY <2>1, <2>2, <2>3 DEF LinesInv, ConnectionInv, NamesInv, LapsesInv, LayersAgree, LoginAt, Running, Young,
       Unselected, Noted, ChannelEnds
<1>6. ASSUME NEW k \in 1..2, Authenticate(k) PROVE LinesInv'
  <2> DEFINE posted == [login EXCEPT !.sent = Posted(Mechanisms[k])]
  <2>0. LoginAt("sign") /\ site' = site
    BY <1>6 DEF Authenticate, Comes
  <2>1. LoginSound(posted)
    BY <1>d DEF LoginSound, LoginFields
  <2>2. CASE channel' = channel /\ login' = DialError(posted)
    <3> HIDE DEF posted
    <3>1. login'.doubted /\ login'.pc \in {"run", "over"}
      BY <2>1, <2>2, ErrorNotes
    <3> QED
      BY <2>2, <3>1, <1>d, DoubtKeeps DEF LayersAgree
  <2>3. CASE /\ channel' = [channel EXCEPT !.signed = TRUE, !.caps = IF site.tells THEN site.inside ELSE @]
             /\ login' = [login EXCEPT !.pc = "refresh", !.sent = Posted(Mechanisms[k])]
    <3>1. channel'.signed = TRUE /\ \A f \in ChannelEnds \ {"signed"} : channel'[f] = channel[f]
      BY <1>d, <2>3 DEF ChannelSound, ChannelEnds
    <3>2. /\ login'.pc = "refresh" /\ Noted(login, login')
          /\ login'.command = login.command /\ login'.lapses = login.lapses
      BY <1>d, <2>3 DEF LoginSound, LoginFields, Noted
    <3> QED
      BY <2>0, <3>1, <3>2 DEF LinesInv, ConnectionInv, NamesInv, LapsesInv, LayersAgree, LoginAt, Running, Young,
         Unselected, Noted, ChannelEnds
  <2> QED
    BY <1>6, <2>2, <2>3 DEF Authenticate
<1>7. CASE NoMechanism
  BY <1>7, <1>d, <1>e, DoubtKeeps DEF NoMechanism, LayersAgree
<1>8. ASSUME NEW k \in 1..2, NEW broken \in BOOLEAN, SignInLost(k, broken) PROVE LinesInv'
  <2> DEFINE posted == [login EXCEPT !.sent = Posted(Mechanisms[k])]
  <2>1. LoginSound(posted) /\ posted.faults = login.faults
    BY <1>d DEF LoginSound, LoginFields
  <2>2. login' = DialError(Faulted(posted)) /\ login.faults < LoginFaults
        /\ (channel' = Gone \/ channel' = channel)
    BY <1>8 DEF SignInLost, LoginFault
  <2> HIDE DEF posted
  <2>3. LoginSound(Faulted(posted))
    BY <2>1, <2>2, FaultApart DEF Apart
  <2>4. login'.doubted /\ login'.pc \in {"run", "over"}
    BY <2>2, <2>3, ErrorNotes
  <2>5. LayersAgree'
    BY <1>d, <2>2, GoneAgrees DEF LayersAgree
  <2> QED
    BY <2>4, <2>5, DoubtKeeps
<1>9. CASE Refresh
  <2>1. channel' = [channel EXCEPT !.caps = Offered] /\ site' = site /\ Goes("compress") /\ LoginAt("refresh")
    BY <1>9 DEF Refresh
  <2>2. channel'.caps = Offered /\ \A f \in ChannelEnds : channel'[f] = channel[f]
    BY <2>1, <1>d DEF ChannelSound, ChannelEnds
  <2>3. login'.pc = "compress" /\ Noted(login, login')
        /\ login'.command = login.command /\ login'.lapses = login.lapses
    BY <2>1, <1>g
  <2>4. channel.signed /\ Offered = site.inside
    BY <2>1 DEF LinesInv, ConnectionInv, Offered
  <2> QED
    BY <2>1, <2>2, <2>3, <2>4 DEF LinesInv, ConnectionInv, NamesInv, LapsesInv, LayersAgree, LoginAt, Running, Young,
       Unselected, Noted, ChannelEnds
<1>10. ASSUME NEW broken \in BOOLEAN, RefreshFails(broken) PROVE LinesInv'
  <2>1. /\ site' = site /\ LoginAt("refresh") /\ LoginFault
        /\ channel' = IF broken THEN Gone ELSE channel
    BY <1>10 DEF RefreshFails
  <2>2. channel'.up => channel' = channel
    BY <2>1, <1>d, GoneAgrees
  <2>3. LayersAgree' /\ channel.signed /\ channel.up /\ ~channel.accepts /\ ~channel.selected
    BY <1>d, <2>1, GoneAgrees DEF LinesInv, ConnectionInv, LayersAgree, Young, LoginAt
  <2>4. /\ login'.lapses = login.lapses /\ login'.faults = login.faults + 1 /\ login'.named = login.named
        /\ login'.doubted = login.doubted /\ login'.command = login.command
        /\ \/ login'.pc = "over" /\ login.command = "first" /\ login'.unnamed = login.unnamed
           \/ login'.pc = "compress" /\ login'.unnamed = (login.unnamed \/ channel.caps # site.inside)
    BY <1>10, <1>f, <2>1 DEF RefreshFails, LoginSound, LoginFields
  <2>5. ConnectionInv'
    BY <2>2, <2>3, <2>4 DEF ConnectionInv, LoginAt, Young
  <2>6. NamesInv'
    BY <2>1, <2>2, <2>3, <2>4 DEF LinesInv, NamesInv, Running, LoginAt
  <2>7. LapsesInv'
    BY <2>1, <2>2, <2>3, <2>4, <1>c DEF LinesInv, LapsesInv, Unselected, LoginAt
  <2> QED
    BY <2>5, <2>6, <2>7 DEF LinesInv
<1>11. ASSUME NEW ahead \in BOOLEAN, CompressDeflate(ahead) PROVE LinesInv'
  <2>1. /\ channel' = [channel EXCEPT !.deflates = TRUE, !.inflates = TRUE, !.strayed = FALSE]
        /\ site' = site /\ Goes("enable") /\ LoginAt("compress")
    BY <1>11 DEF CompressDeflate, Primed
  <2>2. /\ channel'.deflates /\ channel'.inflates /\ ~channel'.strayed /\ channel'.caps = channel.caps
        /\ \A f \in ChannelEnds \ {"deflates", "inflates", "strayed"} : channel'[f] = channel[f]
    BY <2>1, <1>d DEF ChannelSound, ChannelEnds
  <2>3. login'.pc = "enable" /\ Noted(login, login')
        /\ login'.command = login.command /\ login'.lapses = login.lapses
    BY <2>1, <1>g
  <2> QED
    BY <2>1, <2>2, <2>3 DEF LinesInv, ConnectionInv, NamesInv, LapsesInv, LayersAgree, LoginAt, Running, Young,
       Unselected, Noted, ChannelEnds
<1>12. CASE NoCompress
  <2>1. channel' = channel /\ site' = site /\ Goes("enable") /\ LoginAt("compress")
    BY <1>12 DEF NoCompress
  <2>2. login'.pc = "enable" /\ Noted(login, login')
        /\ login'.command = login.command /\ login'.lapses = login.lapses
    BY <2>1, <1>g
  <2> QED
    BY <2>1, <2>2 DEF LinesInv, ConnectionInv, NamesInv, LapsesInv, LayersAgree, LoginAt, Running, Young,
       Unselected, Noted
<1>13. CASE CompressFails
  BY <1>13, <1>d, <1>e, DoubtKeeps DEF CompressFails, LayersAgree
<1>14. ASSUME NEW k, LoginSound(k), k.lapses = login.lapses, k.command = login.command, k.named = login.named,
              k.doubted = login.doubted, k.faults >= login.faults, k.faults \in Nat, login.unnamed => k.unnamed,
              login' = Ready(k), site' = site, LoginAt("enable"), LayersAgree',
              channel'.up => /\ channel.up /\ channel'.signed = channel.signed /\ channel'.caps = channel.caps
                             /\ channel'.selected = channel.selected
                             /\ k.unnamed \/ login.doubted \/ channel'.accepts = Served8(site.inside)
       PROVE  LinesInv'
  <2>1. /\ login'.lapses = login.lapses /\ Noted(k, login') /\ login'.pc = "run"
        /\ login'.command = IF login.command = "first" THEN "LIST" ELSE login.command
    <3>1. Noted(k, Issue(k, "LIST")) /\ Issue(k, "LIST").pc = "run" /\ Issue(k, "LIST").command = "LIST"
          /\ Issue(k, "LIST").lapses = k.lapses
      BY <1>14, IssueNotes
    <3>2. Noted(k, [k EXCEPT !.pc = "run"]) /\ [k EXCEPT !.pc = "run"].pc = "run"
          /\ [k EXCEPT !.pc = "run"].command = k.command /\ [k EXCEPT !.pc = "run"].lapses = k.lapses
      BY <1>14 DEF LoginSound, LoginFields, Noted
    <3> QED
      BY <1>14, <3>1, <3>2 DEF Ready
  <2>2. ConnectionInv'
    BY <1>14, <2>1 DEF ConnectionInv, LoginAt, Young
  <2>3. NamesInv'
    BY <1>14, <2>1 DEF LinesInv, NamesInv, Running, LoginAt, Noted
  <2>4. LapsesInv'
    BY <1>14, <2>1, <1>c DEF LinesInv, LapsesInv, Unselected, LoginAt, Noted
  <2> QED
    BY <2>2, <2>3, <2>4 DEF LinesInv
<1>15. CASE Enable
  <2>1. /\ channel' = [channel EXCEPT !.utf8 = TRUE, !.accepts = TRUE] /\ site' = site /\ login' = Ready(login)
        /\ LoginAt("enable") /\ channel.up /\ "UTF8" \in Offered
    BY <1>15 DEF Enable
  <2>2. /\ channel'.utf8 /\ channel'.accepts /\ channel'.caps = channel.caps
        /\ channel'.accepts \in BOOLEAN /\ channel'.utf8 \in BOOLEAN
        /\ \A f \in ChannelEnds \ {"utf8", "accepts"} : channel'[f] = channel[f]
    BY <2>1, <1>d DEF ChannelSound, ChannelEnds
  <2>3. channel.signed \/ login.doubted
    BY <2>1 DEF LinesInv, LapsesInv, LoginAt
  <2>4. login.doubted \/ Served8(site.inside)
    BY <2>1, <2>3 DEF Offered, Served8
  <2>5. LayersAgree' /\ channel'.accepts = TRUE
    BY <2>1, <2>2, <1>d DEF LayersAgree, ChannelEnds
  <2>6. login.unnamed \/ login.doubted \/ channel'.accepts = Served8(site.inside)
    BY <2>4, <2>5 DEF Served8
  <2>7. /\ channel'.signed = channel.signed /\ channel'.caps = channel.caps /\ channel'.selected = channel.selected
        /\ login.faults >= login.faults
    BY <2>2, <1>c DEF ChannelEnds
  <2> QED
    BY <2>1, <2>5, <2>6, <2>7, <1>c, <1>d, <1>14
<1>16. CASE NotEnabled
  <2>1. /\ channel' = channel /\ site' = site /\ login' = Ready(login) /\ LoginAt("enable")
        /\ Knows("UTF8") => ~channel.up \/ "UTF8" \notin Offered
    BY <1>16 DEF NotEnabled, Enabling
  <2>2. channel.up => login.unnamed \/ login.doubted \/ ~Served8(site.inside)
    BY <2>1 DEF LinesInv, NamesInv, LoginAt, Knows, Offered, Served8
  <2>3. channel.up => ~channel.accepts /\ channel.accepts \in BOOLEAN
    BY <2>1, <1>d DEF LinesInv, ConnectionInv, LoginAt, ChannelSound, ChannelEnds
  <2>4. channel'.up => login.unnamed \/ login.doubted \/ channel'.accepts = Served8(site.inside)
    BY <2>1, <2>2, <2>3 DEF Served8
  <2>5. LayersAgree'
    BY <2>1, <1>d DEF LayersAgree
  <2> QED
    BY <2>1, <2>4, <2>5, <1>c, <1>d, <1>14
<1>17. ASSUME NEW broken \in BOOLEAN, EnableFails(broken) PROVE LinesInv'
  <2> DEFINE k == [login EXCEPT !.unnamed = @ \/ ~broken]
  <2>1. /\ LoginSound(k) /\ k.faults = login.faults /\ k.lapses = login.lapses /\ k.command = login.command
        /\ k.named = login.named /\ k.doubted = login.doubted
        /\ login.unnamed => k.unnamed
        /\ ~broken => k.unnamed
    BY <1>d DEF LoginSound, LoginFields
  <2>2. /\ login' = Ready(Faulted(k)) /\ site' = site /\ LoginAt("enable") /\ LoginFault
        /\ channel.up /\ channel' = IF broken THEN Gone ELSE channel
    BY <1>17 DEF EnableFails
  <2> HIDE DEF k
  <2>3. LoginSound(Faulted(k))
    BY <2>1, <2>2, FaultApart DEF LoginFault, Apart
  <2>4. /\ Faulted(k).faults = login.faults + 1 /\ Faulted(k).lapses = login.lapses
        /\ Faulted(k).command = login.command /\ Faulted(k).named = login.named
        /\ Faulted(k).doubted = login.doubted /\ Faulted(k).unnamed = k.unnamed
    BY <2>1 DEF Faulted, LoginSound, LoginFields
  <2>5. LayersAgree' /\ (channel'.up => channel' = channel /\ ~broken)
    BY <2>2, <1>d, GoneAgrees DEF LayersAgree
  <2>9. Faulted(k).faults >= login.faults /\ Faulted(k).faults \in Nat
    BY <2>4, <1>c
  <2>6. /\ channel'.up => channel' = channel /\ Faulted(k).unnamed
        /\ login.unnamed => Faulted(k).unnamed
        /\ Faulted(k).faults >= login.faults /\ Faulted(k).faults \in Nat
    BY <2>1, <2>4, <2>5, <2>9
  <2> DEFINE m == Faulted(k)
  <2>7. LoginSound(m) /\ login' = Ready(m)
    BY <2>2, <2>3
  <2>8. /\ m.lapses = login.lapses /\ m.command = login.command /\ m.named = login.named
        /\ m.doubted = login.doubted /\ m.faults >= login.faults /\ m.faults \in Nat
        /\ login.unnamed => m.unnamed
        /\ channel'.up => channel' = channel /\ m.unnamed
    BY <2>4, <2>6
  <2> HIDE DEF m
  <2> QED
    BY <2>2, <2>5, <2>7, <2>8, <1>14
<1>18. CASE NamespaceLost
  <2>1. login' = Ready(Faulted(login)) /\ site' = site /\ LoginAt("enable") /\ LoginFault /\ channel' = Gone
    BY <1>18 DEF NamespaceLost
  <2>2. LayersAgree' /\ ~channel'.up
    BY <2>1, <1>d, GoneAgrees
  <2> QED
    BY <2>1, <2>2, <1>c, <1>f, <1>14
<1>19. CASE RunCommand
  <2>1. /\ Running /\ channel.up /\ site' = site
        /\ login' = IF Obeyed THEN Done(login) ELSE Failed(login, FALSE)
    BY <1>19 DEF RunCommand
  <2>2. /\ \A f \in ChannelEnds \ {"selected"} : channel'[f] = channel[f]
        /\ channel'.caps = channel.caps
        /\ channel'.selected = IF login.command = "SELECT" THEN Obeyed ELSE channel.selected
    BY <1>19, <1>d DEF RunCommand, ChannelSound, ChannelEnds
  <2>3. LayersAgree'
    BY <2>2, <1>d DEF LayersAgree, ChannelEnds
  <2>4. login.command \in {"first", "LIST", "NOOP", "SELECT", "SEARCH"} /\ FALSE \in BOOLEAN
    BY <1>d DEF LoginSound
  <2>5. CASE Obeyed
    <3> DEFINE k == [login EXCEPT !.named = channel.accepts]
    <3>1. /\ LoginSound(k) /\ k.named = channel.accepts /\ k.unnamed = login.unnamed /\ k.doubted = login.doubted
          /\ k.faults = login.faults /\ k.lapses = login.lapses /\ k.command = login.command
      BY <1>d DEF LoginSound, LoginFields, ChannelSound, ChannelEnds
    <3>2. login' = CASE login.command = "LIST" -> NextFolder(k)
                     [] login.command = "SELECT" -> Issue(login, "SEARCH")
                     [] login.command = "SEARCH" -> NextFolder(login)
                     [] OTHER -> Issue(login, "SELECT")
      BY <2>1, <2>5 DEF Done
    <3> HIDE DEF k
    <3>3. CASE login.command = "LIST"
      <4>1. /\ Noted(k, login') /\ login'.lapses = k.lapses
            /\ \/ login'.pc = "over" /\ login'.command = "LIST"
               \/ login'.pc = "run" /\ login'.command \in {"SELECT", "NOOP"}
        BY <3>1, <3>2, <3>3, FolderNotes
      <4> QED
        BY <2>1, <2>2, <2>3, <3>1, <3>3, <4>1 DEF LinesInv, ConnectionInv, NamesInv, LapsesInv, Noted, Running, LoginAt,
           Young, Unselected, ChannelEnds
    <3>4. CASE login.command = "SELECT"
      <4>1. Noted(login, login') /\ login'.lapses = login.lapses /\ login'.pc = "run" /\ login'.command = "SEARCH"
        BY <1>d, <3>2, <3>4, IssueNotes
      <4>2. channel'.selected /\ channel'.up
        BY <2>1, <2>2, <2>5, <3>4 DEF ChannelEnds
      <4> QED
        BY <2>1, <2>2, <2>3, <3>4, <4>1, <4>2 DEF LinesInv, ConnectionInv, NamesInv, LapsesInv, Noted, Running, LoginAt,
           Young, Unselected, ChannelEnds
    <3>5. CASE login.command = "SEARCH"
      <4>1. /\ Noted(login, login') /\ login'.lapses = login.lapses
            /\ \/ login'.pc = "over" /\ login'.command = "SEARCH"
               \/ login'.pc = "run" /\ login'.command \in {"SELECT", "NOOP"}
        BY <1>d, <3>2, <3>5, FolderNotes
      <4> QED
        BY <2>1, <2>2, <2>3, <3>5, <4>1 DEF LinesInv, ConnectionInv, NamesInv, LapsesInv, Noted, Running, LoginAt,
           Young, Unselected, ChannelEnds
    <3>6. CASE login.command \in {"NOOP", "first"}
      <4>1. Noted(login, login') /\ login'.lapses = login.lapses /\ login'.pc = "run" /\ login'.command = "SELECT"
        BY <1>d, <3>2, <3>6, IssueNotes
      <4> QED
        BY <2>1, <2>2, <2>3, <3>6, <4>1 DEF LinesInv, ConnectionInv, NamesInv, LapsesInv, Noted, Running, LoginAt,
           Young, Unselected, ChannelEnds
    <3> QED
      BY <2>4, <3>3, <3>4, <3>5, <3>6
  <2>6. CASE ~Obeyed
    <3>1. login' = Failed(login, FALSE) /\ login.command # "NOOP"
      BY <2>1, <2>6 DEF Obeyed
    <3>2. login.doubted \/ Unselected
      BY <2>1, <2>4, <2>6 DEF LinesInv, LapsesInv, Obeyed, Unselected, Running, LoginAt
    <3>3. Noted(login, login') /\ login'.pc \in {"run", "over"}
          /\ (login'.pc = "run" => login'.command \in {"SELECT", "NOOP"})
          /\ (login'.pc = "run" => login.command \in {"SELECT", "SEARCH"})
          /\ login'.lapses \in {login.lapses, login.lapses + 1}
          /\ (login'.pc = "over" => login'.command = login.command)
      BY <1>d, <2>4, <3>1, FailedNotes
    <3>4. ConnectionInv'
      BY <2>3, <3>3 DEF ConnectionInv, LoginAt, Young
    <3>5. NamesInv'
      BY <2>1, <2>2, <3>3 DEF LinesInv, NamesInv, Noted, Running, LoginAt, ChannelEnds
    <3>6. LapsesInv'
      BY <2>1, <2>2, <3>2, <3>3, <1>c DEF LinesInv, LapsesInv, Noted, Unselected, Running, LoginAt, ChannelEnds
    <3> QED
      BY <3>4, <3>5, <3>6 DEF LinesInv
  <2> QED
    BY <2>5, <2>6
<1>20. ASSUME NEW k, LoginSound(k), k.pc = "run", k.lapses = login.lapses, k.command = login.command,
              k.named = login.named, k.unnamed = login.unnamed, k.doubted = login.doubted,
              k.faults \in {login.faults, login.faults + 1},
              k.faults = login.faults + 1 \/ ((Unselected \/ login.command # "SEARCH") /\ ~channel.up),
              NEW c \in BOOLEAN, login' = Failed(k, c), k.command # "SELECT" \/ c = TRUE \/ k.faults = login.faults + 1,
              site' = site, LayersAgree', Running,
              channel'.up => /\ channel.up /\ channel'.signed = channel.signed /\ channel'.caps = channel.caps
                             /\ channel'.accepts = channel.accepts
       PROVE  LinesInv'
  <2>1. Noted(k, login') /\ login'.pc \in {"run", "over"}
        /\ (login'.pc = "run" => login'.command \in {"SELECT", "NOOP"})
        /\ (login'.pc = "run" => login.command \in {"NOOP", "SELECT", "SEARCH"})
        /\ login'.lapses \in {login.lapses, login.lapses + 1}
        /\ (login'.pc = "over" => login'.command = login.command)
    BY <1>20, FailedNotes
  <2>2. login'.lapses = login.lapses + 1 => login.command = "SEARCH" \/ k.faults = login.faults + 1
    <3>1. CASE k.command = "SELECT" /\ c
      <4>1. login'.lapses = k.lapses
        BY <3>1, <1>20 DEF Failed, LoginSound, LoginFields
      <4> QED
        BY <4>1, <1>20, <1>c
    <3> QED
      BY <3>1, <1>20, <1>c, FailedNotes
  <2>3. ConnectionInv'
    BY <1>20, <2>1 DEF ConnectionInv, LoginAt, Young
  <2>4. NamesInv'
    BY <1>20, <2>1 DEF LinesInv, NamesInv, Noted, Running, LoginAt
  <2>5. LapsesInv'
    BY <1>20, <2>1, <2>2, <1>c DEF LinesInv, LapsesInv, Noted, Unselected, Running, LoginAt
  <2> QED
    BY <2>3, <2>4, <2>5 DEF LinesInv
<1>21. CASE CommandLost
  <2> DEFINE l == IF channel.up THEN Faulted(login) ELSE login
  <2>1. /\ Running /\ channel' = Gone /\ site' = site /\ (channel.up => LoginFault)
        /\ login' = IF l.drops < LoginRetries THEN [l EXCEPT !.drops = @ + 1, !.pc = "dial"] ELSE Failed(l, TRUE)
    BY <1>21 DEF CommandLost
  <2>2. /\ LoginSound(l) /\ l.pc = "run" /\ l.lapses = login.lapses /\ l.command = login.command
        /\ l.named = login.named /\ l.unnamed = login.unnamed /\ l.doubted = login.doubted
        /\ channel.up => l.faults = login.faults + 1
        /\ ~channel.up => l.faults = login.faults
    BY <2>1, <1>d, <1>f DEF Running, LoginAt
  <2> HIDE DEF l
  <2>3. LayersAgree' /\ ~channel'.up
    BY <2>1, <1>d, GoneAgrees
  <2>4. ~channel.up => Unselected \/ login.command # "SEARCH"
    BY <2>1 DEF Unselected, Running, LoginAt
  <2>5. CASE login' = [l EXCEPT !.drops = @ + 1, !.pc = "dial"]
    <3>1. /\ login'.pc = "dial" /\ Noted(l, login') /\ login'.lapses = l.lapses /\ login'.command = l.command
      BY <2>2, <2>5 DEF LoginSound, LoginFields, Noted
    <3>2. ConnectionInv'
      BY <2>3, <3>1 DEF ConnectionInv, LoginAt, Young
    <3>3. NamesInv'
      BY <2>1, <2>2, <2>3, <3>1 DEF LinesInv, NamesInv, Noted, Running, LoginAt
    <3>4. LapsesInv'
      <4>1. /\ login'.lapses = login.lapses /\ login'.command = login.command /\ login'.doubted = login.doubted
            /\ channel.up => login'.faults = login.faults + 1
            /\ ~channel.up => login'.faults = login.faults
        BY <2>2, <3>1 DEF Noted
      <4>2. CASE ~login.doubted
        <5>1. login.lapses <= login.faults /\ (Unselected => login.lapses + 1 <= login.faults)
          BY <4>2 DEF LinesInv, LapsesInv
        <5>2. login'.lapses <= login'.faults
          BY <4>1, <5>1, <1>c
        <5>3. login.command = "SEARCH" => login'.lapses + 1 <= login'.faults
          BY <4>1, <5>1, <2>4, <1>c
        <5> QED
          BY <2>3, <3>1, <4>1, <5>2, <5>3 DEF LapsesInv, Unselected, LoginAt
      <4> QED
        BY <4>1, <4>2 DEF LapsesInv
    <3> QED
      BY <3>2, <3>3, <3>4 DEF LinesInv
  <2>6. CASE login' = Failed(l, TRUE)
    <3>2. TRUE \in BOOLEAN
      OBVIOUS
    <3>1. /\ l.faults \in {login.faults, login.faults + 1}
          /\ l.faults = login.faults + 1 \/ ((Unselected \/ login.command # "SEARCH") /\ ~channel.up)
      <4>1. CASE channel.up
        BY <4>1, <2>2
      <4>2. CASE ~channel.up
        BY <4>2, <2>2, <2>4
      <4> QED
        BY <4>1, <4>2
    <3> QED
      BY <2>1, <2>2, <2>3, <2>6, <3>1, <3>2, <1>20
  <2> QED
    BY <2>1, <2>5, <2>6
<1>22. CASE CommandBusy
  <2>1. /\ Running /\ channel.up /\ LoginFault /\ site' = site
        /\ login' = IF login.busy < LoginRetries THEN [Faulted(login) EXCEPT !.busy = @ + 1]
                     ELSE Failed(Faulted(login), FALSE)
    BY <1>22 DEF CommandBusy
  <2>2. /\ \A f \in ChannelEnds \ {"selected"} : channel'[f] = channel[f]
        /\ channel'.caps = channel.caps
        /\ channel'.selected = (channel.selected /\ login.command # "SELECT")
    BY <1>22, <1>d DEF CommandBusy, ChannelSound, ChannelEnds
  <2>3. LayersAgree'
    BY <2>2, <1>d DEF LayersAgree, ChannelEnds
  <2>4. CASE login' = [Faulted(login) EXCEPT !.busy = @ + 1]
    <3>1. /\ login'.pc = "run" /\ Noted(Faulted(login), login') /\ login'.lapses = login.lapses
          /\ login'.command = login.command
      BY <2>1, <2>4, <1>f DEF LoginSound, LoginFields, Noted, Running, LoginAt
    <3>2. ConnectionInv'
      BY <2>3, <3>1 DEF ConnectionInv, LoginAt, Young
    <3>5. /\ login'.named = login.named /\ login'.unnamed = login.unnamed /\ login'.doubted = login.doubted
          /\ channel'.up = channel.up /\ channel'.signed = channel.signed /\ channel'.accepts = channel.accepts
          /\ channel'.caps = channel.caps
      BY <2>1, <2>2, <3>1, <1>f DEF Noted, ChannelEnds
    <3>3. NamesInv'
      BY <2>1, <3>1, <3>5 DEF LinesInv, NamesInv, Running, LoginAt
    <3>6. login'.faults = login.faults + 1
      BY <2>1, <3>1, <1>f DEF Noted
    <3>4. LapsesInv'
      <4>1. login.doubted \/ login.lapses <= login.faults
        BY DEF LinesInv, LapsesInv
      <4>2. login'.doubted \/ (login'.lapses <= login'.faults /\ login'.lapses + 1 <= login'.faults)
        BY <4>1, <3>1, <3>5, <3>6, <1>c
      <4> QED
        BY <2>1, <3>1, <3>5, <4>2 DEF LinesInv, LapsesInv, Running, LoginAt
    <3> QED
      BY <3>2, <3>3, <3>4 DEF LinesInv
  <2>5. CASE login' = Failed(Faulted(login), FALSE)
    <3>1. FALSE \in BOOLEAN
      OBVIOUS
    <3>2. /\ channel'.up = channel.up /\ channel'.signed = channel.signed /\ channel'.accepts = channel.accepts
          /\ channel'.caps = channel.caps
      BY <2>2 DEF ChannelEnds
    <3> DEFINE l == Faulted(login)
    <3>3. /\ LoginSound(l) /\ l.pc = "run" /\ l.lapses = login.lapses /\ l.command = login.command
          /\ l.named = login.named /\ l.unnamed = login.unnamed /\ l.doubted = login.doubted
          /\ l.faults = login.faults + 1 /\ login' = Failed(l, FALSE)
      BY <2>1, <2>5, <1>f DEF Running, LoginAt
    <3>4. l.faults \in {login.faults, login.faults + 1}
      BY <3>3
    <3> HIDE DEF l
    <3>5. channel'.up => /\ channel.up /\ channel'.signed = channel.signed /\ channel'.caps = channel.caps
                          /\ channel'.accepts = channel.accepts
      BY <3>2
    <3> QED
      BY <2>1, <2>3, <3>1, <3>3, <3>4, <3>5, <1>20
  <2> QED
    BY <2>1, <2>4, <2>5
<1>23. CASE UNCHANGED loginVars
  BY <1>23 DEF loginVars, LinesInv, ConnectionInv, NamesInv, LapsesInv, LayersAgree, Unselected, Running, LoginAt
<1> QED
  BY <1>1, <1>2, <1>3, <1>4, <1>6, <1>7, <1>8, <1>9, <1>10, <1>11, <1>12, <1>13, <1>15, <1>16, <1>17, <1>18, <1>19,
     <1>21, <1>22, <1>23 DEF LoginNext, LoginProgress

-----------------------------------------------------------------------------
(* Calls about many objects.                                               *)

(* Where each part begins in a sequence that goes from `from' to `to':     *)
(* none is empty, so that no two begin nearer than they are apart.         *)
Cuts(cut, from, parts, to) ==
  /\ cut \in [1..(Len(parts) + 1) -> Nat]
  /\ cut[1] = from /\ cut[Len(parts) + 1] = to
  /\ \A k \in 1..Len(parts) : cut[k + 1] = cut[k] + Len(parts[k])
  /\ \A j, k \in 1..(Len(parts) + 1) : j < k => cut[k] - cut[j] >= k - j

(* Parts that are cut are never empty, so there are no more of them than   *)
(* items.                                                                  *)
LEMMA CutsMeasure ==
  ASSUME NEW T, NEW q \in Seq(Seq(T)), NEW from, NEW to, NEW cut, Cuts(cut, from, q, to)
  PROVE  /\ from \in Nat /\ to \in Nat /\ to >= from + Len(q)
         /\ q # <<>> => Head(q) \in Seq(T) /\ Len(Head(q)) >= 1
<1>1. Len(q) \in Nat /\ 1 \in 1..(Len(q) + 1) /\ Len(q) + 1 \in 1..(Len(q) + 1)
  OBVIOUS
<1>2. from \in Nat /\ to \in Nat
  BY <1>1 DEF Cuts
<1>3. to >= from + Len(q)
  <2>1. CASE Len(q) = 0
    BY <2>1, <1>1, <1>2 DEF Cuts
  <2>2. CASE Len(q) > 0
    <3>1. cut[Len(q) + 1] - cut[1] >= Len(q) + 1 - 1
      BY <1>1, <2>2 DEF Cuts
    <3> QED
      BY <3>1, <1>1, <1>2 DEF Cuts
  <2> QED
    BY <2>1, <2>2, <1>1
<1>4. ASSUME q # <<>> PROVE Head(q) \in Seq(T) /\ Len(Head(q)) >= 1
  <2>1. Len(q) >= 1 /\ Head(q) = q[1] /\ q[1] \in Seq(T) /\ 1 \in 1..Len(q)
    BY <1>4, <1>1
  <2>2. cut[1 + 1] = cut[1] + Len(q[1])
    BY <2>1 DEF Cuts
  <2>3. cut[2] - cut[1] >= 2 - 1
    BY <2>1, <1>1 DEF Cuts
  <2>4. Len(q[1]) \in Nat /\ cut[1] \in Nat
    BY <2>1, <1>2 DEF Cuts
  <2> QED
    BY <2>1, <2>2, <2>3, <2>4
<1> QED
  BY <1>2, <1>3, <1>4

(* Without its first part, what is left is cut from where that part ends.  *)
LEMMA CutsTail ==
  ASSUME NEW T, NEW q \in Seq(Seq(T)), q # <<>>, NEW from, NEW to, NEW cut, Cuts(cut, from, q, to)
  PROVE  \E d : Cuts(d, from + Len(Head(q)), Tail(q), to)
<1>1. Len(q) \in Nat /\ Len(q) >= 1 /\ Tail(q) \in Seq(Seq(T)) /\ Len(Tail(q)) = Len(q) - 1 /\ Head(q) = q[1]
  OBVIOUS
<1>2. \A k \in 1..Len(Tail(q)) : Tail(q)[k] = q[k + 1]
  BY <1>1
<1> DEFINE d == [k \in 1..Len(q) |-> cut[k + 1]]
<1>3. d \in [1..(Len(Tail(q)) + 1) -> Nat]
  BY <1>1 DEF Cuts
<1>4. d[1] = from + Len(Head(q))
  BY <1>1 DEF Cuts
<1>5. d[Len(Tail(q)) + 1] = to
  BY <1>1 DEF Cuts
<1>6. \A k \in 1..Len(Tail(q)) : d[k + 1] = d[k] + Len(Tail(q)[k])
  BY <1>1, <1>2 DEF Cuts
<1>7. ASSUME NEW j \in 1..(Len(Tail(q)) + 1), NEW k \in 1..(Len(Tail(q)) + 1), j < k
      PROVE  d[k] - d[j] >= k - j
  <2>1. j + 1 \in 1..(Len(q) + 1) /\ k + 1 \in 1..(Len(q) + 1) /\ j + 1 < k + 1
    BY <1>1, <1>7
  <2>2. cut[k + 1] - cut[j + 1] >= (k + 1) - (j + 1)
    BY <2>1 DEF Cuts
  <2>3. d[k] = cut[k + 1] /\ d[j] = cut[j + 1]
    BY <1>1
  <2> QED
    BY <2>2, <2>3
<1> HIDE DEF d
<1>8. Cuts(d, from + Len(Head(q)), Tail(q), to)
  BY <1>3, <1>4, <1>5, <1>6, <1>7 DEF Cuts
<1> QED
  BY <1>8

(* With its first part halved, it is cut between the same ends, once more. *)
LEMMA CutsHalved ==
  ASSUME NEW T, NEW q \in Seq(Seq(T)), q # <<>>, NEW from, NEW to, NEW cut, Cuts(cut, from, q, to),
         Len(Head(q)) >= 2
  PROVE  /\ Halved(Head(q)) \o Tail(q) \in Seq(Seq(T))
         /\ Len(Halved(Head(q)) \o Tail(q)) = Len(q) + 1
         /\ \E d : Cuts(d, from, Halved(Head(q)) \o Tail(q), to)
<1> DEFINE p == Head(q)
           n == Len(p)
           mid == n \div 2
           a == SubSeq(p, 1, mid)
           b == SubSeq(p, mid + 1, n)
           r == <<a, b>> \o Tail(q)
<1>1. Len(q) \in Nat /\ Len(q) >= 1 /\ Tail(q) \in Seq(Seq(T)) /\ Len(Tail(q)) = Len(q) - 1 /\ p = q[1]
  OBVIOUS
<1>2. p \in Seq(T) /\ n \in Nat /\ n >= 2
  BY <1>1
<1>n. n = Len(p)
  OBVIOUS
<1> HIDE DEF n
<1>3. mid \in 1..n /\ mid + 1 \in 1..n /\ mid < n
  BY <1>2, Z3
<1> HIDE DEF mid
<1>4. a \in Seq(T) /\ Len(a) = mid
  <2>1. \A k \in 1..mid : p[k] \in T
    BY <1>2, <1>3, <1>n
  <2> QED
    BY <1>2, <1>3, <1>n, <2>1, SubSeqProperties
<1>5. b \in Seq(T) /\ Len(b) = n - mid
  <2>1. \A k \in (mid + 1)..n : p[k] \in T
    BY <1>2, <1>3, <1>n
  <2> QED
    BY <1>2, <1>3, <1>n, <2>1, SubSeqProperties
<1> HIDE DEF a, b, p
<1>6. Halved(Head(q)) \o Tail(q) = r
  BY DEF Halved, p, a, b, mid, n
<1>7. <<a, b>> \in Seq(Seq(T)) /\ Len(<<a, b>>) = 2
  BY <1>4, <1>5
<1>8. r \in Seq(Seq(T)) /\ Len(r) = Len(q) + 1
  BY <1>7, <1>1, ConcatProperties
<1>9. r[1] = a /\ r[2] = b /\ \A k \in 3..(Len(q) + 1) : r[k] = q[k - 1]
  <2>1. r[1] = a /\ r[2] = b
    BY <1>7, <1>1
  <2>2. ASSUME NEW k \in 3..(Len(q) + 1) PROVE r[k] = q[k - 1]
    <3>1. r[k] = Tail(q)[k - 2]
      BY <1>7, <1>1, <2>2
    <3>2. Tail(q)[k - 2] = q[(k - 2) + 1]
      BY <1>1, <2>2
    <3> QED
      BY <3>1, <3>2, <1>1
  <2> QED
    BY <2>1, <2>2
<1> HIDE DEF r
<1> DEFINE d == [k \in 1..(Len(q) + 2) |-> IF k = 1 THEN from ELSE IF k = 2 THEN from + mid ELSE cut[k - 1]]
<1>c. /\ from \in Nat /\ \A k \in 1..(Len(q) + 1) : cut[k] \in Nat
      /\ cut[1] = from /\ cut[2] = from + n /\ cut[Len(q) + 1] = to
      /\ \A k \in 1..Len(q) : cut[k + 1] = cut[k] + Len(q[k])
      /\ \A j, k \in 1..(Len(q) + 1) : j < k => cut[k] - cut[j] >= k - j
  <2>1. from \in Nat
    BY CutsMeasure
  <2>2. cut[2] = from + n
    BY <1>1, <1>n DEF Cuts
  <2> QED
    BY <2>1, <2>2 DEF Cuts
<1>10. d \in [1..(Len(r) + 1) -> Nat]
  <2>1. ASSUME NEW k \in 1..(Len(q) + 2) PROVE d[k] \in Nat
    <3>1. from + mid \in Nat
      BY <1>c, <1>2, <1>3
    <3>2. k > 2 => cut[k - 1] \in Nat
      BY <1>1, <1>c, <2>1
    <3> QED
      BY <1>c, <2>1, <3>1, <3>2
  <2>2. 1..(Len(r) + 1) = 1..(Len(q) + 2)
    BY <1>1, <1>8
  <2> QED
    BY <2>1, <2>2
<1>11. d[1] = from /\ d[Len(r) + 1] = to
  <2>1. Len(r) + 1 \in 1..(Len(q) + 2) /\ Len(r) + 1 # 1 /\ Len(r) + 1 # 2 /\ (Len(r) + 1) - 1 = Len(q) + 1
    BY <1>1, <1>8
  <2> QED
    BY <2>1, <1>1, <1>c
<1>12. ASSUME NEW k \in 1..Len(r) PROVE d[k + 1] = d[k] + Len(r[k])
  <2>1. CASE k = 1
    BY <2>1, <1>1, <1>4, <1>9
  <2>2. CASE k = 2
    <3>1. d[2] = from + mid /\ d[3] = cut[2] /\ Len(r[2]) = n - mid
      BY <1>1, <1>5, <1>9
    <3> QED
      BY <2>2, <3>1, <1>2, <1>3, <1>c
  <2>3. CASE k > 2
    <3>1. k \in 3..(Len(q) + 1) /\ k - 1 \in 1..Len(q) /\ (k - 1) + 1 = k
      BY <2>3, <1>1, <1>8
    <3>2. cut[(k - 1) + 1] = cut[k - 1] + Len(q[k - 1]) /\ r[k] = q[k - 1]
      BY <3>1, <1>c, <1>9
    <3>3. d[k] = cut[k - 1] /\ d[k + 1] = cut[(k + 1) - 1] /\ (k + 1) - 1 = k
      BY <3>1, <1>1
    <3> QED
      BY <3>1, <3>2, <3>3
  <2> QED
    BY <2>1, <2>2, <2>3
<1>13. ASSUME NEW j \in 1..(Len(r) + 1), NEW k \in 1..(Len(r) + 1), j < k
       PROVE  d[k] - d[j] >= k - j
  <2>1. k \in 2..(Len(q) + 2) /\ j \in 1..(Len(q) + 1)
    BY <1>13, <1>8, <1>1
  <2>2. CASE k = 2
    <3>1. j = 1 /\ d[k] = from + mid /\ d[j] = from
      BY <2>2, <2>1, <1>13, <1>1
    <3> QED
      BY <3>1, <2>2, <1>c, <1>3, <1>2
  <2>3. CASE k > 2 /\ j > 2
    <3>1. k - 1 \in 1..(Len(q) + 1) /\ j - 1 \in 1..(Len(q) + 1) /\ j - 1 < k - 1
      BY <2>3, <2>1, <1>13
    <3>2. cut[k - 1] - cut[j - 1] >= (k - 1) - (j - 1)
      BY <3>1, <1>c
    <3>3. d[k] = cut[k - 1] /\ d[j] = cut[j - 1]
      BY <2>1, <2>3
    <3> QED
      BY <3>1, <3>2, <3>3
  <2>4. CASE k > 2 /\ j <= 2
    <3>1. d[k] = cut[k - 1] /\ k - 1 \in 2..(Len(q) + 1) /\ cut[k - 1] \in Nat
      BY <2>1, <2>4, <1>c
    <3>2. cut[k - 1] - cut[2] >= (k - 1) - 2
      <4>1. CASE k = 3
        BY <4>1, <1>c, <1>2
      <4>2. CASE k > 3
        <5>1. 2 \in 1..(Len(q) + 1) /\ k - 1 \in 1..(Len(q) + 1) /\ 2 < k - 1
          BY <3>1, <4>2, <1>1
        <5> QED
          BY <5>1, <1>c
      <4> QED
        BY <4>1, <4>2, <2>4
    <3>3. d[j] = IF j = 1 THEN from ELSE from + mid
      BY <2>1, <2>4
    <3> QED
      <4>1. cut[k - 1] >= from + n + k - 3
        BY <3>1, <3>2, <2>1, <1>c, <1>2
      <4>2. CASE j = 1
        BY <4>1, <4>2, <3>1, <3>3, <2>1, <1>c, <1>2
      <4>3. CASE j = 2
        <5>1. d[j] = from + mid /\ d[k] = cut[k - 1]
          BY <4>3, <3>1, <3>3
        <5>2. mid \in Nat /\ mid + 1 <= n /\ from \in Nat /\ n \in Nat /\ k \in Nat /\ cut[k - 1] \in Nat
          BY <3>1, <2>1, <1>c, <1>2, <1>3
        <5> HIDE DEF d
        <5> QED
          BY <4>1, <4>3, <5>1, <5>2
      <4> QED
        BY <4>2, <4>3, <2>1, <2>4
  <2> QED
    BY <2>1, <2>2, <2>3, <2>4
<1> HIDE DEF d
<1>14. Cuts(d, from, r, to)
  BY <1>10, <1>11, <1>12, <1>13 DEF Cuts
<1> QED
  BY <1>6, <1>8, <1>14

(* The chunks of a batch cut it from its start to its end.                 *)
LEMMA CutsChunked ==
  ASSUME NEW T, NEW q \in Seq(T), q # <<>>
  PROVE  /\ Chunked(q) \in Seq(Seq(T)) /\ Len(Chunked(q)) \in Nat
         /\ \E d : Cuts(d, 0, Chunked(q), Len(q))
<1> DEFINE l == Len(q)
           n == IF ObjectsLimit > 1 THEN ObjectsLimit ELSE 1
           m == (l + n - 1) \div n
           at(k) == IF (k - 1) * n < l THEN (k - 1) * n ELSE l
<1>1. l \in Nat /\ l >= 1 /\ n \in Nat /\ n >= 1
  BY CallBoundsAssumption
<1>e. Chunked(q) = [k \in 1..m |-> SubSeq(q, (k - 1) * n + 1, IF k * n < l THEN k * n ELSE l)]
  BY DEF Chunked
<1>l. l = Len(q)
  OBVIOUS
<1> HIDE DEF l, n
<1>2. m \in Int /\ m * n <= l + n - 1 /\ m * n + n > l + n - 1
  BY <1>1, Z3
<1> HIDE DEF m
<1>3. m >= 1
  <2> SUFFICES ASSUME m <= 0 PROVE FALSE
    BY <1>2
  <2>1. m * n <= 0
    BY <1>1, <1>2, Z3
  <2> QED
    BY <2>1, <1>1, <1>2
<1>4. \A i \in Nat : i * n \in Nat /\ i * n >= i
  BY <1>1, Z3
<1>5. \A i, j \in Nat : i <= j => (j - i) * n = j * n - i * n
  BY <1>1, Z3
<1>6. ASSUME NEW k \in 1..m PROVE (k - 1) * n < l /\ (k - 1) * n \in Nat /\ k * n = (k - 1) * n + n
  <2>1. k \in Nat /\ m \in Nat /\ m - k \in Nat /\ k - 1 \in Nat
    BY <1>2, <1>6
  <2>2. (m - k) * n = m * n - k * n /\ (m - k) * n \in Nat /\ (k - 1) * n \in Nat
    <3>1. k <= m
      BY <1>2, <1>6
    <3>2. (m - k) * n = m * n - k * n
      BY <2>1, <3>1, <1>5
    <3>3. (m - k) * n \in Nat /\ (k - 1) * n \in Nat
      BY <2>1, <1>4
    <3> QED
      BY <3>2, <3>3
  <2>3. k * n = (k - 1) * n + n
    BY <2>1, <1>1, Z3
  <2>4. k * n \in Nat /\ m * n \in Nat
    BY <2>1, <1>4
  <2> QED
    BY <2>2, <2>3, <2>4, <1>1, <1>2
<1>7. at(m + 1) = l
  <2>1. (m + 1) - 1 = m /\ m \in Nat
    BY <1>2, <1>3
  <2>2. m * n \in Nat /\ m * n >= l
    BY <2>1, <1>1, <1>2, <1>4
  <2> QED
    BY <2>1, <2>2, <1>1
<1>8. ASSUME NEW k \in 1..m PROVE at(k) = (k - 1) * n /\ at(k + 1) = IF k * n < l THEN k * n ELSE l
  <2>1. (k + 1) - 1 = k
    OBVIOUS
  <2> QED
    BY <2>1, <1>6, <1>8
<1> HIDE DEF at
<1>9. ASSUME NEW k \in 1..m PROVE at(k + 1) \in Nat /\ at(k + 1) >= at(k) + 1 /\ at(k + 1) <= l /\ at(k) \in Nat
  BY <1>1, <1>6, <1>8, <1>9
<1>10. \A k \in 1..m : Chunked(q)[k] \in Seq(T) /\ Len(Chunked(q)[k]) = at(k + 1) - at(k)
  <2> SUFFICES ASSUME NEW k \in 1..m
               PROVE  Chunked(q)[k] \in Seq(T) /\ Len(Chunked(q)[k]) = at(k + 1) - at(k)
    OBVIOUS
  <2>1. Chunked(q)[k] = SubSeq(q, at(k) + 1, at(k + 1))
    BY <1>e, <1>8
  <2>2. at(k) + 1 \in 1..l /\ at(k + 1) \in 1..l /\ at(k) + 1 <= at(k + 1)
    BY <1>1, <1>9
  <2>3. \A i \in (at(k) + 1)..at(k + 1) : q[i] \in T
    BY <2>2, <1>1, <1>l
  <2>4. at(k) + 1 \in Int /\ at(k + 1) \in Int /\ at(k + 1) - (at(k) + 1) + 1 = at(k + 1) - at(k)
    BY <1>9
  <2>5. /\ SubSeq(q, at(k) + 1, at(k + 1)) \in Seq(T)
        /\ Len(SubSeq(q, at(k) + 1, at(k + 1))) = at(k + 1) - (at(k) + 1) + 1
    BY <2>2, <2>3, <2>4, SubSeqProperties
  <2> QED
    BY <2>1, <2>4, <2>5
<1>11. Chunked(q) \in Seq(Seq(T)) /\ Len(Chunked(q)) = m /\ m \in Nat
  BY <1>e, <1>2, <1>3, <1>10
<1>12. ASSUME NEW j \in 1..(m + 1), NEW k \in 1..(m + 1), j < k
       PROVE  at(k) - at(j) >= k - j
  <2>1. j \in 1..m /\ k - 1 \in 1..m /\ (k - 1) + 1 = k
    BY <1>2, <1>12
  <2>2. at(k) >= at(k - 1) + 1 /\ at(k) \in Nat /\ at(k - 1) \in Nat /\ at(j) \in Nat
    BY <2>1, <1>9
  <2>3. at(k - 1) = ((k - 1) - 1) * n /\ at(j) = (j - 1) * n
    BY <2>1, <1>8
  <2>4. /\ (k - 1) - 1 \in Nat /\ j - 1 \in Nat /\ j - 1 <= (k - 1) - 1
        /\ ((k - 1) - 1) - (j - 1) \in Nat /\ ((k - 1) - 1) - (j - 1) = (k - 1) - j
    BY <2>1, <1>12
  <2>5. at(k - 1) - at(j) >= (k - 1) - j
    <3>1. (((k - 1) - 1) - (j - 1)) * n = at(k - 1) - at(j)
      BY <2>3, <2>4, <1>5
    <3>2. (((k - 1) - 1) - (j - 1)) * n >= ((k - 1) - 1) - (j - 1)
      BY <2>4, <1>4
    <3> QED
      BY <3>1, <3>2, <2>4
  <2> QED
    BY <2>2, <2>5, <2>1
<1> DEFINE d == [k \in 1..(m + 1) |-> at(k)]
<1>13. Cuts(d, 0, Chunked(q), Len(q))
  <2>1. \A k \in 1..(m + 1) : at(k) \in Nat
    <3>1. m + 1 \in Nat /\ \A k \in 1..(m + 1) : k = m + 1 \/ k \in 1..m
      BY <1>2, <1>3
    <3> QED
      BY <3>1, <1>1, <1>7, <1>9
  <2>2. d \in [1..(Len(Chunked(q)) + 1) -> Nat] /\ \A k \in 1..(m + 1) : d[k] = at(k)
    BY <2>1, <1>11
  <2>3. d[1] = 0 /\ d[Len(Chunked(q)) + 1] = Len(q)
    <3>1. at(1) = 0
      <4>1. 1 \in 1..m /\ (1 - 1) * n = 0
        BY <1>2, <1>3, <1>1
      <4> QED
        BY <4>1, <1>8
    <3>2. 1 \in 1..(m + 1) /\ m + 1 \in 1..(m + 1)
      BY <1>2, <1>3
    <3> QED
      BY <3>1, <3>2, <2>2, <1>11, <1>7, <1>l
  <2>4. ASSUME NEW k \in 1..Len(Chunked(q)) PROVE d[k + 1] = d[k] + Len(Chunked(q)[k])
    <3>1. k \in 1..m /\ k \in 1..(m + 1) /\ k + 1 \in 1..(m + 1)
      BY <2>4, <1>11
    <3> QED
      BY <3>1, <2>2, <1>9, <1>10
  <2>5. ASSUME NEW j \in 1..(Len(Chunked(q)) + 1), NEW k \in 1..(Len(Chunked(q)) + 1), j < k
        PROVE  d[k] - d[j] >= k - j
    BY <2>2, <2>5, <1>11, <1>12
  <2> HIDE DEF d
  <2> QED
    BY <2>2, <2>3, <2>4, <2>5 DEF Cuts
<1> QED
  BY <1>11, <1>13

-----------------------------------------------------------------------------
(* What is left of a run: the parts are what comes after what was sent,    *)
(* and what was requested is paid for by what was sent, the parts to come  *)
(* and the answers that were lost.                                         *)
WithinBudget(c) ==
  /\ {"pc", "parts", "sent", "batch", "fates", "requests", "faults"} \subseteq DOMAIN c
  /\ c.pc \in {"over", "send"} /\ c.requests \in Nat /\ c.faults \in Nat
  /\ c.batch \in Seq(Range(c.batch))
  /\ c.requests <= 2 * Len(c.batch) + c.faults
PartsLeft(c) ==
  /\ c.sent \in Seq(Range(c.batch))
  /\ c.parts \in Seq(Seq(Range(c.batch))) /\ c.parts # <<>>
  /\ \E cut : Cuts(cut, Len(c.sent), c.parts, Len(c.batch))
  /\ c.requests <= 2 * Len(c.sent) + Len(c.parts) + c.faults
RunOK(c) == WithinBudget(c) /\ (c.pc = "send" => PartsLeft(c))

RequestsInv == task \in Tasks /\ RunOK(call)

(* The items that are sent are a sequence.                                 *)
LEMMA BatchIsSeq ==
  ASSUME task \in Tasks
  PROVE  Batch \in Seq(Range(Batch)) /\ Len(Batch) \in Nat
<1> DEFINE S == {i \in DOMAIN task.items : task.kind = "create" => Lacking(i)}
<1>1. task.items \in Seq([key : DOMAIN task.there, size : Nat, refused : BOOLEAN])
  BY TasksAssumption
<1>2. Len(task.items) \in Nat /\ DOMAIN task.items = 1..Len(task.items)
  BY <1>1
<1>3. IsFiniteSet(1..Len(task.items))
  <2>1. 1 \in Int /\ Len(task.items) \in Int
    BY <1>2
  <2> QED
    BY <2>1, FS_Interval
<1>4. IsFiniteSet(S)
  BY <1>2, <1>3, FS_Subset
<1>5. Cardinality(S) \in Nat
  BY <1>4, FS_CardinalityType
<1> HIDE DEF S
<1>6. Batch = [n \in 1..Cardinality(S) |-> CHOOSE i \in S : Cardinality({j \in S : j <= i}) = n]
  BY DEF Batch, Numbered, S
<1>7. PICK f : f = [n \in 1..Cardinality(S) |-> CHOOSE i \in S : Cardinality({j \in S : j <= i}) = n]
  OBVIOUS
<1>8. DOMAIN f = 1..Cardinality(S) /\ \A n \in DOMAIN f : f[n] \in Range(f)
  BY <1>7 DEF Range
<1>9. f \in Seq(Range(f)) /\ Len(f) \in Nat
  <2>1. \A n \in 1..Cardinality(S) : (CHOOSE i \in S : Cardinality({j \in S : j <= i}) = n) \in Range(f)
    BY <1>7, <1>8
  <2>2. [n \in 1..Cardinality(S) |-> CHOOSE i \in S : Cardinality({j \in S : j <= i}) = n]
          \in [1..Cardinality(S) -> Range(f)]
    BY <2>1, Zenon
  <2>3. f \in [1..Cardinality(S) -> Range(f)]
    BY <2>2, <1>7
  <2> QED
    BY <2>3, <1>5
<1> QED
  BY <1>6, <1>7, <1>9

(* What is paid for by items and parts is paid for by the items.           *)
LEMMA Affordable ==
  ASSUME NEW items \in Nat, NEW parts \in Nat, NEW all \in Nat, NEW faults \in Nat, NEW n \in Nat,
         all >= items + parts, n <= 2 * items + parts + faults
  PROVE  n <= 2 * all + faults /\ (parts >= 1 => n + 1 <= 2 * all + faults)
OBVIOUS

(* One more part pays for one more request.                                *)
LEMMA OneMore ==
  ASSUME NEW s \in Nat, NEW p \in Nat, NEW f \in Nat, NEW r \in Nat, r <= 2 * s + p + f,
         NEW t, NEW q, NEW g, NEW n, t = s, q = p + 1, g = f, n \in Nat, n <= r + 1
  PROVE  n <= 2 * t + q + g
OBVIOUS

(* Sums of naturals are naturals.                                          *)
LEMMA SumIsNat == \A a, b \in Nat : a + b \in Nat
OBVIOUS

(* A bound on a sum is one on the same sum by other names.                 *)
LEMMA SumGrows ==
  ASSUME NEW a, NEW b, NEW x, NEW y, NEW z, x = a, y = b, a \in Nat, b \in Nat, z \in Nat, z >= a + b
  PROVE  x \in Nat /\ y \in Nat /\ z \in Nat /\ z >= x + y
OBVIOUS

(* A run that was abandoned has asked no more than it may.                 *)
LEMMA AbandonedOK ==
  ASSUME NEW c, RunOK(c), c.pc = "send", NEW d,
         d.batch = c.batch, d.faults = c.faults, d.requests \in {c.requests, c.requests + 1},
         DOMAIN d = DOMAIN c
  PROVE  /\ WithinBudget(Abandoned(d)) /\ Abandoned(d).pc = "over"
         /\ Abandoned(d).faults = c.faults
<1>1. PICK cut : Cuts(cut, Len(c.sent), c.parts, Len(c.batch))
  BY DEF RunOK, PartsLeft
<1>2. /\ Len(c.sent) \in Nat /\ Len(c.batch) \in Nat /\ Len(c.parts) \in Nat /\ Len(c.parts) >= 1
      /\ c.requests \in Nat /\ c.faults \in Nat
      /\ c.requests <= 2 * Len(c.sent) + Len(c.parts) + c.faults
  BY DEF RunOK, WithinBudget, PartsLeft
<1>3. Len(c.batch) >= Len(c.sent) + Len(c.parts)
  BY <1>1, CutsMeasure DEF RunOK, PartsLeft
<1>4. d.requests \in Nat /\ d.requests <= 2 * Len(d.batch) + d.faults
  <2>1. c.requests <= 2 * Len(c.batch) + c.faults /\ c.requests + 1 <= 2 * Len(c.batch) + c.faults
    BY <1>2, <1>3, Affordable
  <2> QED
    BY <2>1, <1>2
<1>5. /\ {"pc", "parts", "sent", "batch", "fates", "requests", "faults"} \subseteq DOMAIN Abandoned(d)
      /\ Abandoned(d).pc = "over" /\ Abandoned(d).requests = d.requests
      /\ Abandoned(d).faults = d.faults /\ Abandoned(d).batch = d.batch
  BY DEF Abandoned, RunOK, WithinBudget
<1> QED
  BY <1>2, <1>4, <1>5 DEF WithinBudget, RunOK

(* A part that was answered was paid for by its first item.                *)
LEMMA AbsorbedOK ==
  ASSUME NEW c, RunOK(c), c.pc = "send", NEW d, NEW fates, NEW r \in {1, 2},
         DOMAIN d = DOMAIN c, d.pc = c.pc, d.batch = c.batch, d.sent = c.sent, d.parts = c.parts,
         d.requests = c.requests + r, d.faults = c.faults + (r - 1)
  PROVE  RunOK(Absorbed(d, fates))
<1> DEFINE R == Range(c.batch)
           e == [d EXCEPT !.parts = Tail(@), !.sent = @ \o Head(d.parts), !.fates = @ \o fates]
<1>1. PICK cut : Cuts(cut, Len(c.sent), c.parts, Len(c.batch))
  BY DEF RunOK, PartsLeft
<1>2. /\ c.sent \in Seq(R) /\ c.parts \in Seq(Seq(R)) /\ c.parts # <<>> /\ c.batch \in Seq(R)
      /\ c.requests \in Nat /\ c.faults \in Nat
      /\ c.requests <= 2 * Len(c.sent) + Len(c.parts) + c.faults
  BY DEF RunOK, WithinBudget, PartsLeft
<1>d. {"pc", "parts", "sent", "batch", "fates", "requests", "faults"} \subseteq DOMAIN d
  BY DEF RunOK, WithinBudget
<1>3. Head(c.parts) \in Seq(R) /\ Len(Head(c.parts)) >= 1 /\ Len(Head(c.parts)) \in Nat
  BY <1>1, <1>2, CutsMeasure
<1> HIDE DEF R
<1>4. /\ Tail(c.parts) \in Seq(Seq(R)) /\ Len(Tail(c.parts)) = Len(c.parts) - 1
      /\ Len(Tail(c.parts)) \in Nat
      /\ Len(c.parts) \in Nat /\ Len(c.sent) \in Nat /\ Len(c.batch) \in Nat
  <2>1. Len(c.parts) \in Nat /\ Len(c.parts) >= 1
    BY <1>2
  <2>2. Len(c.sent) \in Nat /\ Len(c.batch) \in Nat
    BY <1>2
  <2>3. Tail(c.parts) \in Seq(Seq(R)) /\ Len(Tail(c.parts)) = Len(c.parts) - 1
    BY <1>2
  <2> QED
    BY <2>1, <2>2, <2>3
<1>5. c.sent \o Head(c.parts) \in Seq(R) /\ Len(c.sent \o Head(c.parts)) = Len(c.sent) + Len(Head(c.parts))
  BY <1>2, <1>3, ConcatProperties
<1>6. \E f : Cuts(f, Len(c.sent) + Len(Head(c.parts)), Tail(c.parts), Len(c.batch))
  BY <1>1, <1>2, CutsTail
<1>7. Len(c.batch) >= Len(c.sent) + Len(Head(c.parts)) + Len(Tail(c.parts))
  BY <1>6, <1>4, CutsMeasure
<1>8. /\ {"pc", "parts", "sent", "batch", "fates", "requests", "faults"} \subseteq DOMAIN e
      /\ e.pc = c.pc /\ e.batch = c.batch /\ e.sent = c.sent \o Head(c.parts)
      /\ e.parts = Tail(c.parts) /\ e.requests = c.requests + r /\ e.faults = c.faults + (r - 1)
  BY <1>d
<1>9. e.requests <= 2 * Len(e.sent) + Len(e.parts) + e.faults
  BY <1>2, <1>3, <1>4, <1>5, <1>8
<1>10. e.requests \in Nat /\ e.faults \in Nat
  BY <1>2, <1>8
<1>a. Absorbed(d, fates) = IF e.parts = <<>> THEN Returned(e) ELSE e
  BY DEF Absorbed
<1> HIDE DEF e
<1>11. e.requests <= 2 * Len(e.batch) + e.faults
  <2>1. Len(e.sent) \in Nat /\ Len(e.parts) \in Nat /\ Len(e.batch) \in Nat
        /\ Len(e.batch) >= Len(e.sent) + Len(e.parts)
    <3>1. Len(e.sent) = Len(c.sent) + Len(Head(c.parts))
      BY <1>5, <1>8
    <3>2. Len(e.parts) = Len(Tail(c.parts)) /\ Len(e.batch) = Len(c.batch)
      BY <1>8
    <3>3. Len(Head(c.parts)) \in Nat /\ Len(Tail(c.parts)) \in Nat /\ Len(c.sent) \in Nat /\ Len(c.batch) \in Nat
      BY <1>3, <1>4
    <3>4. Len(c.sent) + Len(Head(c.parts)) \in Nat
      BY <3>3, SumIsNat
    <3> QED
      BY <3>1, <3>2, <3>3, <3>4, <1>7, SumGrows
  <2> QED
    BY <2>1, <1>9, <1>10, Affordable
<1>12. e.batch \in Seq(Range(e.batch))
  BY <1>2, <1>8 DEF R
<1>13. WithinBudget(e)
  BY <1>8, <1>10, <1>11, <1>12 DEF WithinBudget
<1>14. CASE e.parts = <<>>
  <2>1. /\ {"pc", "parts", "sent", "batch", "fates", "requests", "faults"} \subseteq DOMAIN Returned(e)
        /\ Returned(e).pc = "over" /\ Returned(e).requests = e.requests
        /\ Returned(e).faults = e.faults /\ Returned(e).batch = e.batch
    BY <1>8 DEF Returned
  <2>2. RunOK(Returned(e))
    BY <2>1, <1>13 DEF WithinBudget, RunOK
  <2> QED
    BY <1>14, <1>a, <2>2
<1>15. CASE e.parts # <<>>
  <2>1. Len(e.sent) = Len(c.sent) + Len(Head(c.parts))
    BY <1>5, <1>8
  <2>2. \E f : Cuts(f, Len(e.sent), e.parts, Len(e.batch))
    BY <1>6, <1>8, <2>1
  <2>3. e.sent \in Seq(Range(e.batch)) /\ e.parts \in Seq(Seq(Range(e.batch)))
    BY <1>4, <1>5, <1>8 DEF R
  <2>4. PartsLeft(e)
    BY <1>9, <1>15, <2>2, <2>3 DEF PartsLeft
  <2> QED
    BY <1>13, <1>15, <1>a, <2>4 DEF RunOK
<1> QED
  BY <1>14, <1>15

(* A part of two items or more is halved, and neither half is empty.       *)
LEMMA HalvedOK ==
  ASSUME NEW c, RunOK(c), c.pc = "send", Len(Head(c.parts)) > 1, NEW d,
         DOMAIN d = DOMAIN c, d.pc = c.pc, d.batch = c.batch, d.sent = c.sent, d.parts = c.parts,
         d.faults = c.faults, d.requests \in {c.requests, c.requests + 1}
  PROVE  RunOK([d EXCEPT !.parts = Halved(Head(c.parts)) \o Tail(@)])
<1> DEFINE R == Range(c.batch)
           q == Halved(Head(c.parts)) \o Tail(c.parts)
           e == [d EXCEPT !.parts = Halved(Head(c.parts)) \o Tail(@)]
<1>1. PICK cut : Cuts(cut, Len(c.sent), c.parts, Len(c.batch))
  BY DEF RunOK, PartsLeft
<1>2. /\ c.sent \in Seq(R) /\ c.parts \in Seq(Seq(R)) /\ c.parts # <<>> /\ c.batch \in Seq(R)
      /\ c.requests \in Nat /\ c.faults \in Nat
      /\ c.requests <= 2 * Len(c.sent) + Len(c.parts) + c.faults
  BY DEF RunOK, WithinBudget, PartsLeft
<1> HIDE DEF R
<1>3. Len(Head(c.parts)) >= 2 /\ Len(c.parts) \in Nat /\ Len(c.sent) \in Nat /\ Len(c.batch) \in Nat
  <2>1. Head(c.parts) \in Seq(R)
    BY <1>2
  <2> QED
    BY <2>1, <1>2
<1>4. q \in Seq(Seq(R)) /\ Len(q) = Len(c.parts) + 1 /\ \E f : Cuts(f, Len(c.sent), q, Len(c.batch))
  BY <1>1, <1>2, <1>3, CutsHalved
<1>5. Len(c.batch) >= Len(c.sent) + Len(q)
  BY <1>4, CutsMeasure
<1>d. {"pc", "parts", "sent", "batch", "fates", "requests", "faults"} \subseteq DOMAIN d
  BY DEF RunOK, WithinBudget
<1>6. /\ {"pc", "parts", "sent", "batch", "fates", "requests", "faults"} \subseteq DOMAIN e
      /\ e.pc = "send" /\ e.batch = c.batch /\ e.sent = c.sent
      /\ e.parts = q /\ e.requests = d.requests /\ e.faults = c.faults
  BY <1>d
<1> HIDE DEF e, q
<1>7. e.requests <= 2 * Len(e.sent) + Len(e.parts) + e.faults
  <2>1. Len(e.sent) = Len(c.sent) /\ Len(e.parts) = Len(c.parts) + 1
    BY <1>4, <1>6
  <2>2. e.requests <= c.requests + 1 /\ e.requests \in Nat
    BY <1>2, <1>6
  <2>3. e.faults = c.faults /\ c.requests \in Nat /\ c.faults \in Nat
    BY <1>2, <1>6
  <2>4. c.requests <= 2 * Len(c.sent) + Len(c.parts) + c.faults
    BY <1>2
  <2> QED
    BY <1>3, <2>1, <2>2, <2>3, <2>4, OneMore
<1>8. e.requests \in Nat /\ e.faults \in Nat
  BY <1>2, <1>6
<1>9. e.requests <= 2 * Len(e.batch) + e.faults
  <2>1. Len(e.sent) \in Nat /\ Len(e.parts) \in Nat /\ Len(e.batch) \in Nat
        /\ Len(e.batch) >= Len(e.sent) + Len(e.parts)
    <3>1. Len(e.sent) = Len(c.sent) /\ Len(e.parts) = Len(c.parts) + 1 /\ Len(e.batch) = Len(c.batch)
      BY <1>4, <1>6
    <3>2. Len(q) \in Nat /\ Len(e.parts) = Len(q)
      BY <3>1, <1>3, <1>4
    <3> QED
      BY <3>1, <3>2, <1>3, <1>5, SumGrows
  <2> QED
    BY <2>1, <1>7, <1>8, Affordable
<1>10. WithinBudget(e)
  BY <1>2, <1>6, <1>8, <1>9 DEF WithinBudget, R
<1>11. e.parts # <<>>
  BY <1>3, <1>4, <1>6
<1>12. PartsLeft(e)
  BY <1>2, <1>4, <1>6, <1>7, <1>11 DEF PartsLeft, R
<1> QED
  BY <1>10, <1>12 DEF RunOK, e

(* Before its first run, nothing is requested.                             *)
LEMMA RequestsInitially == CallsInit => RequestsInv
<1> SUFFICES ASSUME CallsInit PROVE RequestsInv
  OBVIOUS
<1>1. task \in Tasks /\ call = AtRest
  BY DEF CallsInit
<1>2. AtRest.batch = <<>> /\ AtRest.requests = 0 /\ AtRest.faults = 0 /\ AtRest.pc = "over"
      /\ {"pc", "parts", "sent", "batch", "fates", "requests", "faults"} \subseteq DOMAIN AtRest
  BY DEF AtRest
<1>3. \A T : <<>> \in Seq(T) /\ Len(<<>>) = 0
  OBVIOUS
<1> QED
  BY <1>1, <1>2, <1>3 DEF RequestsInv, RunOK, WithinBudget

(* A run begins with nothing asked, and with its items in parts.           *)
LEMMA StartsOK ==
  ASSUME RequestsInv, CallStarts
  PROVE  RunOK(call')
<1> DEFINE begun == [AtRest EXCEPT !.runs = call.runs + 1, !.faults = call.faults, !.batch = Batch,
                                   !.known = Len(task.items) - Len(Batch), !.repeated = call.repeated]
           R == Range(Batch)
<1>1. Batch \in Seq(R) /\ Len(Batch) \in Nat
  BY BatchIsSeq DEF RequestsInv
<1>2. call.faults \in Nat
  BY DEF RequestsInv, RunOK, WithinBudget
<1>3. /\ {"pc", "parts", "sent", "batch", "fates", "requests", "faults", "result", "skipped"} \subseteq DOMAIN begun
      /\ begun.pc = "over" /\ begun.batch = Batch /\ begun.faults = call.faults
      /\ begun.requests = 0 /\ begun.sent = <<>>
  BY DEF AtRest
<1>4. call' = IF Batch = <<>> THEN [begun EXCEPT !.result = "ok", !.skipped = begun.known]
              ELSE [begun EXCEPT !.pc = "send", !.parts = Chunked(Batch)]
  BY DEF CallStarts
<1> HIDE DEF begun
<1>5. /\ {"pc", "parts", "sent", "batch", "fates", "requests", "faults"} \subseteq DOMAIN call'
      /\ call'.batch = Batch /\ call'.faults = call.faults /\ call'.requests = 0
      /\ call'.sent = <<>>
  BY <1>3, <1>4
<1>6. WithinBudget(call')
  <2>1. call'.pc \in {"over", "send"}
    BY <1>3, <1>4
  <2>2. 0 <= 2 * Len(Batch) + call.faults
    BY <1>1, <1>2
  <2> QED
    BY <1>1, <1>2, <1>5, <2>1, <2>2 DEF WithinBudget
<1>7. ASSUME call'.pc = "send" PROVE PartsLeft(call')
  <2>1. Batch # <<>> /\ call'.parts = Chunked(Batch)
    BY <1>3, <1>4, <1>7
  <2>2. /\ Chunked(Batch) \in Seq(Seq(R)) /\ Len(Chunked(Batch)) \in Nat
        /\ \E d : Cuts(d, 0, Chunked(Batch), Len(Batch))
    BY <1>1, <2>1, CutsChunked
  <2>3. Chunked(Batch) # <<>>
    <3>1. PICK d : Cuts(d, 0, Chunked(Batch), Len(Batch))
      BY <2>2
    <3>2. d[1] = 0 /\ d[Len(Chunked(Batch)) + 1] = Len(Batch)
      BY <3>1 DEF Cuts
    <3>3. Len(Batch) # 0
      BY <1>1, <2>1
    <3> QED
      BY <3>2, <3>3
  <2>4. Len(call'.sent) = 0 /\ call'.sent \in Seq(Range(call'.batch))
    BY <1>5
  <2>5. \E d : Cuts(d, Len(call'.sent), call'.parts, Len(call'.batch))
    BY <1>5, <2>1, <2>2, <2>4
  <2>6. call'.requests <= 2 * Len(call'.sent) + Len(call'.parts) + call'.faults
    <3>1. 0 <= 2 * 0 + Len(Chunked(Batch)) + call.faults
      BY <2>2, <1>2
    <3> QED
      BY <3>1, <1>5, <2>1, <2>4
  <2> QED
    BY <1>5, <2>1, <2>2, <2>3, <2>4, <2>5, <2>6 DEF PartsLeft
<1> QED
  BY <1>6, <1>7 DEF RunOK

(* Every step of a call about many objects keeps what is left to ask in    *)
(* step with what was asked.                                               *)
LEMMA RequestsStep == RequestsInv /\ [CallsNext]_callVars => RequestsInv'
<1> SUFFICES ASSUME RequestsInv, [CallsNext]_callVars PROVE RequestsInv'
  OBVIOUS
<1>d. /\ {"pc", "parts", "sent", "batch", "fates", "requests", "faults"} \subseteq DOMAIN call
      /\ RunOK(call) /\ task \in Tasks /\ call.requests \in Nat /\ call.faults \in Nat
  BY DEF RequestsInv, RunOK, WithinBudget
<1>1. CASE CallStarts
  BY <1>1, <1>d, StartsOK DEF CallStarts, RequestsInv
<1>s. /\ DOMAIN Sent(call) = DOMAIN call /\ Sent(call).pc = call.pc /\ Sent(call).batch = call.batch
      /\ Sent(call).sent = call.sent /\ Sent(call).parts = call.parts
      /\ Sent(call).faults = call.faults /\ Sent(call).requests = call.requests + 1
  BY <1>d DEF Sent
<1>2. CASE PartSplit
  <2>1. PICK c \in {call, Sent(call)} :
          call' = IF Len(This) <= 1 THEN Abandoned(c) ELSE [c EXCEPT !.parts = Halved(This) \o Tail(@)]
    BY <1>2 DEF PartSplit
  <2>2. /\ DOMAIN c = DOMAIN call /\ c.pc = call.pc /\ c.batch = call.batch /\ c.sent = call.sent
        /\ c.parts = call.parts /\ c.faults = call.faults
        /\ c.requests \in {call.requests, call.requests + 1}
    BY <1>s
  <2>3. call.pc = "send" /\ task' = task
    BY <1>2 DEF PartSplit, Sending
  <2>4. CASE Len(This) <= 1
    <3>1. call' = Abandoned(c)
      BY <2>1, <2>4
    <3>2. WithinBudget(Abandoned(c)) /\ Abandoned(c).pc = "over"
      BY <1>d, <2>2, <2>3, AbandonedOK
    <3> QED
      BY <1>d, <2>3, <3>1, <3>2 DEF RequestsInv, RunOK
  <2>5. CASE ~(Len(This) <= 1)
    <3>1. call' = [c EXCEPT !.parts = Halved(Head(call.parts)) \o Tail(@)]
      BY <2>1, <2>5 DEF This
    <3>2. Len(Head(call.parts)) > 1
      <4>1. \E cut : Cuts(cut, Len(call.sent), call.parts, Len(call.batch))
        BY <1>d, <2>3 DEF RunOK, PartsLeft
      <4>2. Head(call.parts) \in Seq(Range(call.batch))
        BY <4>1, <1>d, <2>3, CutsMeasure DEF RunOK, PartsLeft
      <4> QED
        BY <4>2, <2>5 DEF This
    <3>3. RunOK([c EXCEPT !.parts = Halved(Head(call.parts)) \o Tail(@)])
      BY <1>d, <2>2, <2>3, <3>2, HalvedOK
    <3> QED
      BY <1>d, <2>3, <3>1, <3>3 DEF RequestsInv
  <2> QED
    BY <2>4, <2>5
<1>3. CASE PartAnswered
  <2>1. PICK fates : call' = Absorbed(Sent(call), fates)
    BY <1>3 DEF PartAnswered
  <2>2. call.pc = "send" /\ task' = task /\ call.faults = call.faults + (1 - 1)
    BY <1>3, <1>d DEF PartAnswered, Sending
  <2>3. RunOK(Absorbed(Sent(call), fates))
    BY <1>d, <1>s, <2>2, AbsorbedOK
  <2> QED
    BY <1>d, <2>1, <2>2, <2>3 DEF RequestsInv
<1>4. CASE PartRepeated
  <2> DEFINE c == [call EXCEPT !.faults = @ + 1, !.requests = @ + 2, !.repeated = TRUE]
  <2>1. PICK fates : call' = Absorbed(c, fates)
    BY <1>4 DEF PartRepeated
  <2>2. call.pc = "send" /\ task' = task
    BY <1>4 DEF PartRepeated, Sending
  <2>3. /\ DOMAIN c = DOMAIN call /\ c.pc = call.pc /\ c.batch = call.batch /\ c.sent = call.sent
        /\ c.parts = call.parts /\ c.faults = call.faults + (2 - 1) /\ c.requests = call.requests + 2
    BY <1>d
  <2> HIDE DEF c
  <2>4. RunOK(Absorbed(c, fates))
    BY <1>d, <2>2, <2>3, AbsorbedOK
  <2> QED
    BY <1>d, <2>1, <2>2, <2>4 DEF RequestsInv
<1>5. ASSUME NEW n \in 0..Len(task.items), PartFails(n) PROVE RequestsInv'
  <2> DEFINE c == Abandoned(Sent(call))
  <2>1. call' = [c EXCEPT !.faults = @ + 1, !.calm = FALSE] /\ task' = task /\ call.pc = "send"
    BY <1>5 DEF PartFails, Sending
  <2>2. WithinBudget(c) /\ c.pc = "over" /\ c.faults = call.faults
    BY <1>d, <1>s, <2>1, AbandonedOK
  <2> HIDE DEF c
  <2>3. /\ {"pc", "parts", "sent", "batch", "fates", "requests", "faults"} \subseteq DOMAIN c
        /\ c.requests \in Nat /\ c.faults \in Nat /\ c.requests <= 2 * Len(c.batch) + c.faults
        /\ c.batch \in Seq(Range(c.batch)) /\ Len(c.batch) \in Nat
    BY <2>2 DEF WithinBudget
  <2>4. /\ {"pc", "parts", "sent", "batch", "fates", "requests", "faults"} \subseteq DOMAIN call'
        /\ call'.pc = "over" /\ call'.requests = c.requests /\ call'.faults = c.faults + 1
        /\ call'.batch = c.batch
    BY <2>1, <2>2, <2>3
  <2>5. c.requests <= 2 * Len(c.batch) + (c.faults + 1)
    BY <2>3
  <2>6. WithinBudget(call')
    BY <2>3, <2>4, <2>5 DEF WithinBudget
  <2> QED
    BY <1>d, <2>1, <2>4, <2>6 DEF RequestsInv, RunOK
<1>6. CASE UNCHANGED callVars
  BY <1>6 DEF callVars, RequestsInv
<1> QED
  BY <1>1, <1>2, <1>3, <1>4, <1>5, <1>6 DEF CallsNext

-----------------------------------------------------------------------------
(* Searches for a service.                                                 *)

(* What a search has asked by then: for EWS by what it has followed and    *)
(* gone past, for DAV and JMAP by how far it has come.                     *)
EwsPaid(s) ==
  /\ s.next \in 1..3 /\ s.addresses \in 0..MaxAddresses /\ s.hops \in 0..1
  /\ s.pc \in {"supplied", "v2", "v1", "hop", "over"}
  /\ s.pc \in {"supplied", "v2"} => s.asked = 0
  /\ s.pc \in {"v1", "hop"} => s.asked <= 1 + 2 * s.addresses + (s.next - 1) + s.hops
  /\ s.pc = "hop" => s.next <= 2
  /\ s.asked <= 1 + 2 * (MaxAddresses + 1) + 1
DavBefore(s) ==
  (IF s.known THEN (IF s.via = "url" THEN 7 ELSE 4) ELSE (IF s.via = "url" THEN 0 ELSE 1))
    + (IF s.pc \in {"home", "whose"} THEN 1 ELSE IF s.pc = "list" /\ s.via = "principal" THEN 2 ELSE 0)
DavPaid(s) ==
  /\ s.via \in {"url", "principal"} /\ s.known \in BOOLEAN
  /\ s.pc \in (IF s.via = "url" THEN {"list", "whose", "over"} ELSE {"props", "home", "list", "over"})
  /\ s.pc # "over" => s.asked <= DavBefore(s)
  /\ s.asked <= 9
JmapPaid(s) ==
  /\ s.pc \in {"session", "known", "resolve", "over"}
  /\ s.pc = "session" => s.asked = 0
  /\ s.pc = "known" => s.asked <= 1
  /\ s.pc = "resolve" => s.asked <= 2
  /\ s.asked <= 3

SeekFields == {"pc", "asked", "faults", "result", "domain", "next", "addresses", "hops",
               "place", "account", "via", "known"}
SeekPaid(s) ==
  /\ SeekFields \subseteq DOMAIN s /\ s.asked \in Nat
  /\ web.kind \in {"ews", "dav", "jmap"}
  /\ web.kind = "ews" => EwsPaid(s)
  /\ web.kind = "dav" => DavPaid(s)
  /\ web.kind = "jmap" => JmapPaid(s)

(* A search begins with nothing asked.                                     *)
LEMMA SeekInitially == SeekInit => SeekPaid(seek)
<1> SUFFICES ASSUME SeekInit PROVE SeekPaid(seek)
  OBVIOUS
<1>1. /\ SeekFields \subseteq DOMAIN seek /\ seek.asked = 0 /\ seek.next = 1 /\ seek.addresses = 0
      /\ seek.hops = 0 /\ seek.via = "url" /\ seek.known = FALSE
      /\ seek.pc = CASE web.kind = "ews" -> "supplied" [] web.kind = "dav" -> "list" [] OTHER -> "session"
  BY DEF SeekInit, SeekFields
<1>0. web.kind \in {"ews", "dav", "jmap"}
  BY DEF SeekInit, EwsWebs, DavWebs, JmapWebs
<1>2. CASE web.kind = "ews"
  BY <1>1, <1>2, SeekAssumption DEF SeekPaid, EwsPaid
<1>3. CASE web.kind = "dav"
  <2>1. seek.pc = "list" /\ DavBefore(seek) = 0
    BY <1>1, <1>3 DEF DavBefore
  <2>2. seek.known \in BOOLEAN
    BY <1>1, Zenon
  <2>3. seek.asked <= DavBefore(seek) /\ seek.asked <= 9
    BY <1>1, <2>1
  <2>4. seek.via \in {"url", "principal"} /\ seek.pc \in (IF seek.via = "url" THEN {"list", "whose", "over"} ELSE {"props", "home", "list", "over"})
    BY <1>1, <2>1
  <2>5. DavPaid(seek)
    BY <2>2, <2>3, <2>4 DEF DavPaid
  <2> QED
    BY <1>1, <1>3, <2>5 DEF SeekPaid
<1>4. CASE web.kind = "jmap"
  BY <1>1, <1>4 DEF SeekPaid, JmapPaid
<1> QED
  BY <1>0, <1>2, <1>3, <1>4

(* The steps of one kind each.  `to' is the search once it has asked: the  *)
(* others change neither what is paid for nor what was asked.              *)
Asks(to) ==
  /\ SeekFields \subseteq DOMAIN to /\ to.asked = seek.asked + 1
  /\ UNCHANGED web
  /\ to.pc = seek.pc /\ to.next = seek.next /\ to.addresses = seek.addresses /\ to.hops = seek.hops
  /\ to.via = seek.via /\ to.known = seek.known

(* Asking once is one more request, whether it is answered or not.         *)
LEMMA AskedOnceAsks ==
  ASSUME SeekPaid(seek), UNCHANGED web
  PROVE  Asks(AskedOnce(seek)) /\ Asks([AskedOnce(seek) EXCEPT !.faults = @ + 1])
BY DEF Asks, AskedOnce, SeekFields, SeekPaid

(* What is found ends the search and asks nothing.                         *)
LEMMA FieldsStay ==
  ASSUME NEW to, SeekFields \subseteq DOMAIN to
  PROVE  /\ \A r : SeekFields \subseteq DOMAIN Over(to, r) /\ Over(to, r).pc = "over" /\ Over(to, r).asked = to.asked
                   /\ Over(to, r).next = to.next /\ Over(to, r).addresses = to.addresses
                   /\ Over(to, r).hops = to.hops /\ Over(to, r).via = to.via /\ Over(to, r).known = to.known
         /\ SeekFields \subseteq DOMAIN Skip(to) /\ Skip(to).pc = "v1" /\ Skip(to).next = to.next + 1
         /\ Skip(to).asked = to.asked /\ Skip(to).addresses = to.addresses /\ Skip(to).hops = to.hops
BY DEF Over, Skip, SeekFields

-----------------------------------------------------------------------------
(* EWS: what is asked is followed, or gone past. *)
LEMMA EwsAsks ==
  ASSUME SeekPaid(seek), web.kind = "ews", NEW to, Asks(to), seek.pc \in {"v2", "v1", "hop"},
         seek.next <= 2
  PROVE  /\ \A r : EwsPaid(Over(to, r)) /\ SeekFields \subseteq DOMAIN Over(to, r) /\ Over(to, r).asked \in Nat
         /\ seek.pc \in {"v1", "hop"} =>
              EwsPaid(Skip(to)) /\ SeekFields \subseteq DOMAIN Skip(to) /\ Skip(to).asked \in Nat
<1>1. /\ SeekFields \subseteq DOMAIN to /\ to.asked = seek.asked + 1
      /\ to.pc = seek.pc /\ to.next = seek.next /\ to.addresses = seek.addresses /\ to.hops = seek.hops
  BY DEF Asks
<1>2. /\ seek.asked \in Nat /\ seek.next \in 1..2 /\ seek.addresses \in 0..MaxAddresses /\ seek.hops \in 0..1
      /\ MaxAddresses \in Nat
  BY SeekAssumption DEF SeekPaid, EwsPaid
<1>3. seek.asked + 1 <= 1 + 2 * seek.addresses + seek.next + seek.hops
  BY <1>2 DEF SeekPaid, EwsPaid
<1>4. seek.asked + 1 <= 1 + 2 * (MaxAddresses + 1) + 1
  BY <1>2, <1>3
<1>5. ASSUME NEW r PROVE EwsPaid(Over(to, r)) /\ SeekFields \subseteq DOMAIN Over(to, r) /\ Over(to, r).asked \in Nat
  BY <1>1, <1>2, <1>4, FieldsStay DEF EwsPaid
<1>6. ASSUME seek.pc \in {"v1", "hop"}
      PROVE  EwsPaid(Skip(to)) /\ SeekFields \subseteq DOMAIN Skip(to) /\ Skip(to).asked \in Nat
  <2>1. /\ SeekFields \subseteq DOMAIN Skip(to) /\ Skip(to).pc = "v1" /\ Skip(to).next = seek.next + 1
        /\ Skip(to).asked = seek.asked + 1 /\ Skip(to).addresses = seek.addresses /\ Skip(to).hops = seek.hops
    BY <1>1, FieldsStay
  <2>2. seek.asked + 1 <= 1 + 2 * seek.addresses + ((seek.next + 1) - 1) + seek.hops
    BY <1>2, <1>3
  <2> QED
    BY <1>2, <1>4, <2>1, <2>2 DEF EwsPaid
<1> QED
  BY <1>5, <1>6

(* Each step of EWS discovery goes to a later candidate, domain or hop, by *)
(* at most one request.                                                    *)
LEMMA EwsStep ==
  ASSUME SeekPaid(seek), web.kind = "ews", SeekNext
  PROVE  EwsPaid(seek') /\ SeekFields \subseteq DOMAIN seek' /\ seek'.asked \in Nat
<1>0. /\ SeekFields \subseteq DOMAIN seek /\ seek.asked \in Nat /\ EwsPaid(seek)
      /\ seek.next \in 1..3 /\ seek.addresses \in 0..MaxAddresses /\ seek.hops \in 0..1
      /\ seek.pc \in {"supplied", "v2", "v1", "hop", "over"} /\ MaxAddresses \in Nat
  BY SeekAssumption DEF SeekPaid, EwsPaid
<1>a. UNCHANGED web /\ Asks(AskedOnce(seek)) /\ Asks([AskedOnce(seek) EXCEPT !.faults = @ + 1])
  <2>1. UNCHANGED web
    BY DEF SeekNext, SuppliedUrl, AutodiscoverV2, AutodiscoverV1, FollowUrl, NoCandidateLeft, ListUrl,
           ResolvePrincipal, FindPrincipal, FindHome, ListHome, DiscoverSession, DiscoverKnown,
           ResolveViaPrincipal, SeekFails
  <2> QED
    BY <2>1, AskedOnceAsks
<1>v. ASSUME NEW to, Asks(to), seek.pc = "v2"
      PROVE  /\ EwsPaid([to EXCEPT !.pc = "v1"]) /\ SeekFields \subseteq DOMAIN [to EXCEPT !.pc = "v1"]
             /\ [to EXCEPT !.pc = "v1"].asked \in Nat
  <2>1. seek.asked = 0 /\ to.asked = 1 /\ to.next = seek.next /\ to.addresses = seek.addresses /\ to.hops = seek.hops
        /\ SeekFields \subseteq DOMAIN to
    BY <1>0, <1>v DEF EwsPaid, Asks
  <2>2. /\ SeekFields \subseteq DOMAIN [to EXCEPT !.pc = "v1"] /\ [to EXCEPT !.pc = "v1"].pc = "v1"
        /\ [to EXCEPT !.pc = "v1"].asked = 1 /\ [to EXCEPT !.pc = "v1"].next = seek.next
        /\ [to EXCEPT !.pc = "v1"].addresses = seek.addresses /\ [to EXCEPT !.pc = "v1"].hops = seek.hops
    BY <2>1 DEF SeekFields
  <2>3. 1 <= 1 + 2 * seek.addresses + (seek.next - 1) + seek.hops /\ 1 <= 1 + 2 * (MaxAddresses + 1) + 1
    BY <1>0
  <2> QED
    BY <1>0, <2>2, <2>3 DEF EwsPaid
<1>1. CASE SuppliedUrl
  <2>1. seek.pc = "supplied" /\ seek.asked = 0
    BY <1>0, <1>1 DEF SuppliedUrl, SeekAt, EwsPaid
  <2>2. CASE web.supplied = "full"
    <3>1. PICK r : seek' = Over(seek, r)
      BY <1>1, <2>2 DEF SuppliedUrl
    <3>2. /\ SeekFields \subseteq DOMAIN seek' /\ seek'.pc = "over" /\ seek'.asked = 0 /\ seek'.next = seek.next
          /\ seek'.addresses = seek.addresses /\ seek'.hops = seek.hops
      BY <1>0, <2>1, <3>1, FieldsStay
    <3> QED
      BY <1>0, <3>2 DEF EwsPaid
  <2>3. CASE web.supplied # "full"
    <3>1. seek' = [seek EXCEPT !.pc = "v2"]
      BY <1>1, <2>3 DEF SuppliedUrl
    <3>2. /\ SeekFields \subseteq DOMAIN seek' /\ seek'.pc = "v2" /\ seek'.asked = 0 /\ seek'.next = seek.next
          /\ seek'.addresses = seek.addresses /\ seek'.hops = seek.hops
      BY <1>0, <2>1, <3>1 DEF SeekFields
    <3> QED
      BY <1>0, <3>2 DEF EwsPaid
  <2> QED
    BY <2>2, <2>3
<1>2. CASE AutodiscoverV2
  <2>1. seek.pc = "v2"
    BY <1>2 DEF AutodiscoverV2, SeekAt
  <2>2. CASE web.v2
    <3>1. PICK r : seek' = Over(AskedOnce(seek), r)
      BY <1>2, <2>2 DEF AutodiscoverV2
    <3>2. /\ SeekFields \subseteq DOMAIN seek' /\ seek'.pc = "over" /\ seek'.asked = 1 /\ seek'.next = seek.next
          /\ seek'.addresses = seek.addresses /\ seek'.hops = seek.hops
      BY <1>0, <1>a, <2>1, <3>1, FieldsStay DEF Asks, EwsPaid
    <3>3. 1 <= 1 + 2 * (MaxAddresses + 1) + 1
      BY <1>0
    <3> QED
      BY <1>0, <3>2, <3>3 DEF EwsPaid
  <2>3. CASE ~web.v2
    <3>1. seek' = [AskedOnce(seek) EXCEPT !.pc = "v1"]
      BY <1>2, <2>3 DEF AutodiscoverV2
    <3> QED
      BY <1>a, <1>v, <2>1, <3>1
  <2> QED
    BY <2>2, <2>3
<1>3. CASE AutodiscoverV1
  <2> DEFINE to == AskedOnce(seek)
  <2>1. seek.pc = "v1" /\ seek.next <= 2
    BY <1>3 DEF AutodiscoverV1, SeekAt
  <2>2. Asks(to)
    BY <1>a
  <2>3. /\ SeekFields \subseteq DOMAIN to /\ to.asked = seek.asked + 1 /\ to.next = seek.next
        /\ to.addresses = seek.addresses /\ to.hops = seek.hops /\ to.pc = "v1"
    BY <2>1, <2>2 DEF Asks
  <2>4. seek.asked + 1 <= 1 + 2 * seek.addresses + (seek.next - 1) + seek.hops + 1
        /\ seek.asked + 1 <= 1 + 2 * (MaxAddresses + 1) + 1 /\ seek.next \in 1..2
    BY <1>0, <2>1 DEF EwsPaid
  <2>5. \/ \E r : seek' = Over(to, r)
        \/ seek' = Skip(to)
        \/ seek.addresses < MaxAddresses
             /\ seek' = [to EXCEPT !.addresses = @ + 1, !.domain = Candidate.to, !.next = 1]
        \/ seek.hops < 1 /\ seek' = [to EXCEPT !.hops = @ + 1, !.pc = "hop"]
    <3>1. seek' = CASE Outcome(Candidate) = "EwsUrl" -> Over(to, [kind |-> "url", of |-> "v1"])
                    [] Outcome(Candidate) = "redirectAddr" -> Follow(to)
                    [] Outcome(Candidate) = "redirectUrl" ->
                         IF seek.hops >= 1 THEN Over(to, Failure("loop"))
                         ELSE [to EXCEPT !.hops = @ + 1, !.pc = "hop"]
                    [] OTHER -> Skip(to)
      BY <1>3 DEF AutodiscoverV1
    <3> HIDE DEF to
    <3>2. Follow(to) = Over(to, Failure("loop"))
          \/ (seek.addresses < MaxAddresses
                /\ Follow(to) = [to EXCEPT !.addresses = @ + 1, !.domain = Candidate.to, !.next = 1])
      BY <1>0 DEF Follow
    <3>3. CASE Outcome(Candidate) = "EwsUrl"
      BY <3>1, <3>3
    <3>4. CASE Outcome(Candidate) = "redirectAddr"
      BY <3>1, <3>2, <3>4
    <3>5. CASE Outcome(Candidate) = "redirectUrl"
      BY <1>0, <3>1, <3>5
    <3>6. CASE Outcome(Candidate) \notin {"EwsUrl", "redirectAddr", "redirectUrl"}
      BY <3>1, <3>6
    <3> QED
      BY <3>3, <3>4, <3>5, <3>6
  <2> HIDE DEF to
  <2>6. CASE (\E r : seek' = Over(to, r)) \/ seek' = Skip(to)
    BY <2>1, <2>2, <2>6, EwsAsks
  <2>7. CASE seek.addresses < MaxAddresses
             /\ seek' = [to EXCEPT !.addresses = @ + 1, !.domain = Candidate.to, !.next = 1]
    <3>1. /\ SeekFields \subseteq DOMAIN seek' /\ seek'.pc = "v1" /\ seek'.asked = seek.asked + 1
          /\ seek'.addresses = seek.addresses + 1 /\ seek'.next = 1 /\ seek'.hops = seek.hops
      BY <2>3, <2>7 DEF SeekFields
    <3>2. seek.asked + 1 <= 1 + 2 * (seek.addresses + 1) + (1 - 1) + seek.hops
      BY <1>0, <2>4
    <3> QED
      BY <1>0, <2>4, <2>7, <3>1, <3>2 DEF EwsPaid
  <2>8. CASE seek.hops < 1 /\ seek' = [to EXCEPT !.hops = @ + 1, !.pc = "hop"]
    <3>1. /\ SeekFields \subseteq DOMAIN seek' /\ seek'.pc = "hop" /\ seek'.asked = seek.asked + 1
          /\ seek'.addresses = seek.addresses /\ seek'.next = seek.next /\ seek'.hops = seek.hops + 1
      BY <2>3, <2>8 DEF SeekFields
    <3>2. seek.asked + 1 <= 1 + 2 * seek.addresses + (seek.next - 1) + (seek.hops + 1)
      BY <1>0, <2>4
    <3> QED
      BY <1>0, <2>4, <2>8, <3>1, <3>2 DEF EwsPaid
  <2> QED
    BY <2>5, <2>6, <2>7, <2>8
<1>4. CASE FollowUrl
  <2>1. seek.pc = "hop" /\ seek.next <= 2
    BY <1>0, <1>4 DEF FollowUrl, SeekAt, EwsPaid
  <2>2. (\E r : seek' = Over(AskedOnce(seek), r)) \/ seek' = Skip(AskedOnce(seek))
    BY <1>4 DEF FollowUrl
  <2> QED
    BY <1>a, <2>1, <2>2, EwsAsks
<1>5. CASE NoCandidateLeft
  <2>1. PICK r : seek' = Over(seek, r)
    BY <1>5 DEF NoCandidateLeft
  <2>2. /\ SeekFields \subseteq DOMAIN seek' /\ seek'.pc = "over" /\ seek'.asked = seek.asked /\ seek'.next = seek.next
        /\ seek'.addresses = seek.addresses /\ seek'.hops = seek.hops
    BY <1>0, <2>1, FieldsStay
  <2> QED
    BY <1>0, <2>2 DEF EwsPaid
<1>6. CASE SeekFails
  <2> DEFINE to == [AskedOnce(seek) EXCEPT !.faults = @ + 1]
  <2>1. \/ seek.pc = "v2" /\ seek' = [to EXCEPT !.pc = "v1"]
        \/ seek.pc = "v1" /\ seek.next <= 2 /\ seek' = Skip(to)
        \/ seek.pc = "hop" /\ seek' = Skip(to)
    BY <1>0, <1>6 DEF SeekFails, SeekAt
  <2>2. Asks(to)
    BY <1>a
  <2> HIDE DEF to
  <2>3. seek.pc = "hop" => seek.next <= 2
    BY <1>0 DEF EwsPaid
  <2> QED
    BY <1>v, <2>1, <2>2, <2>3, EwsAsks
<1> QED
  BY <1>0, <1>1, <1>2, <1>3, <1>4, <1>5, <1>6
  DEF SeekNext, SeekAt, ListUrl, ResolvePrincipal, FindPrincipal, FindHome, ListHome, DiscoverSession,
      DiscoverKnown, ResolveViaPrincipal

-----------------------------------------------------------------------------
(* DAV: each place is asked at most thrice, and there are four. *)
LEMMA NotHereGoesOn ==
  ASSUME SeekPaid(seek), web.kind = "dav", NEW to, Asks(to), seek.pc \in {"list", "props", "home"}
  PROVE  /\ DavPaid(NotHere(to)) /\ SeekFields \subseteq DOMAIN NotHere(to) /\ NotHere(to).asked \in Nat
<1>1. /\ SeekFields \subseteq DOMAIN to /\ to.asked = seek.asked + 1 /\ to.pc = seek.pc
      /\ to.via = seek.via /\ to.known = seek.known
  BY DEF Asks
<1>2. /\ seek.asked \in Nat /\ seek.via \in {"url", "principal"} /\ seek.known \in BOOLEAN
      /\ seek.via = "url" => seek.pc = "list"
      /\ seek.asked <= DavBefore(seek)
  BY DEF SeekPaid, DavPaid
<1>o. ASSUME NEW r PROVE DavPaid(Over(to, r)) /\ SeekFields \subseteq DOMAIN Over(to, r) /\ Over(to, r).asked \in Nat
  <2>1. DavBefore(seek) <= 8
    BY <1>2 DEF DavBefore
  <2>2. seek.asked + 1 <= 9
    BY <1>2, <2>1 DEF DavBefore
  <2> QED
    BY <1>1, <1>2, <2>2, FieldsStay DEF DavPaid
<1>3. CASE ~seek.known /\ seek.via = "url"
  <2>1. seek.asked + 1 <= 1
    BY <1>2, <1>3 DEF DavBefore
  <2>2. CASE web.files
    BY <1>1, <1>3, <1>o, <2>2 DEF NotHere
  <2>3. CASE ~web.files
    <3>1. NotHere(to) = [to EXCEPT !.via = "principal", !.pc = "props"]
      BY <1>1, <1>3, <2>3 DEF NotHere
    <3>2. PICK n : n = NotHere(to)
      OBVIOUS
    <3>3. /\ SeekFields \subseteq DOMAIN n /\ n.via = "principal" /\ n.pc = "props"
          /\ n.asked = seek.asked + 1 /\ n.known = seek.known
      BY <1>1, <3>1, <3>2 DEF SeekFields
    <3>4. DavBefore(n) = 1
      BY <1>2, <1>3, <3>3 DEF DavBefore
    <3> QED
      BY <1>2, <2>1, <3>2, <3>3, <3>4 DEF DavPaid
  <2> QED
    BY <2>2, <2>3
<1>4. CASE ~seek.known /\ seek.via = "principal"
  <2>1. seek.asked + 1 <= 4
    BY <1>2, <1>4 DEF DavBefore
  <2>2. NotHere(to) = [to EXCEPT !.known = TRUE, !.place = WellKnown(UserUrl), !.pc = "props"]
    BY <1>1, <1>4 DEF NotHere
  <2>3. PICK n : n = NotHere(to)
    OBVIOUS
  <2>4. /\ SeekFields \subseteq DOMAIN n /\ n.via = "principal" /\ n.pc = "props"
        /\ n.asked = seek.asked + 1 /\ n.known = TRUE
    BY <1>1, <1>4, <2>2, <2>3 DEF SeekFields
  <2>5. DavBefore(n) = 4
    BY <2>4 DEF DavBefore
  <2>6. n.known \in BOOLEAN
    BY <2>4, Zenon
  <2>7. n.asked <= DavBefore(n) /\ n.asked <= 9 /\ n.asked \in Nat
    BY <1>2, <2>1, <2>4, <2>5
  <2>8. n.via \in {"url", "principal"} /\ n.pc \in (IF n.via = "url" THEN {"list", "whose", "over"} ELSE {"props", "home", "list", "over"})
    BY <2>4
  <2> QED
    BY <2>3, <2>4, <2>6, <2>7, <2>8 DEF DavPaid
<1>5. CASE seek.known /\ seek.via = "principal"
  <2>1. seek.asked + 1 <= 7
    BY <1>2, <1>5 DEF DavBefore
  <2>2. NotHere(to) = [to EXCEPT !.via = "url", !.place = WellKnown(UserUrl), !.pc = "list"]
    BY <1>1, <1>5 DEF NotHere
  <2>3. PICK n : n = NotHere(to)
    OBVIOUS
  <2>4. /\ SeekFields \subseteq DOMAIN n /\ n.via = "url" /\ n.pc = "list"
        /\ n.asked = seek.asked + 1 /\ n.known = seek.known
    BY <1>1, <2>2, <2>3 DEF SeekFields
  <2>5. DavBefore(n) = 7
    BY <1>5, <2>4 DEF DavBefore
  <2> QED
    BY <1>2, <2>1, <2>3, <2>4, <2>5 DEF DavPaid
<1>6. CASE seek.known /\ seek.via = "url"
  <2>1. \E r : NotHere(to) = Over(to, r)
    BY <1>1, <1>6 DEF NotHere
  <2> QED
    BY <1>o, <2>1
<1> QED
  BY <1>2, <1>3, <1>4, <1>5, <1>6

(* Each step of DAV discovery goes on to a later place, by at most one     *)
(* request.                                                                *)
LEMMA DavStep ==
  ASSUME SeekPaid(seek), web.kind = "dav", SeekNext
  PROVE  DavPaid(seek') /\ SeekFields \subseteq DOMAIN seek' /\ seek'.asked \in Nat
<1>0. /\ SeekFields \subseteq DOMAIN seek /\ seek.asked \in Nat
      /\ seek.via \in {"url", "principal"} /\ seek.known \in BOOLEAN
      /\ seek.via = "url" => seek.pc \in {"list", "whose", "over"}
      /\ seek.via = "principal" => seek.pc \in {"props", "home", "list", "over"}
      /\ seek.pc # "over" => seek.asked <= DavBefore(seek)
  BY DEF SeekPaid, DavPaid
<1>a. UNCHANGED web /\ Asks(AskedOnce(seek)) /\ Asks([AskedOnce(seek) EXCEPT !.faults = @ + 1])
  <2>1. UNCHANGED web
    BY DEF SeekNext, SuppliedUrl, AutodiscoverV2, AutodiscoverV1, FollowUrl, NoCandidateLeft, ListUrl,
           ResolvePrincipal, FindPrincipal, FindHome, ListHome, DiscoverSession, DiscoverKnown,
           ResolveViaPrincipal, SeekFails
  <2> QED
    BY <2>1, AskedOnceAsks
<1>o. ASSUME NEW to, Asks(to) \/ to = seek, seek.pc # "over", NEW r
      PROVE  DavPaid(Over(to, r)) /\ SeekFields \subseteq DOMAIN Over(to, r) /\ Over(to, r).asked \in Nat
  <2>1. /\ SeekFields \subseteq DOMAIN to /\ to.asked \in {seek.asked, seek.asked + 1}
        /\ to.via = seek.via /\ to.known = seek.known
    BY <1>0, <1>o DEF Asks
  <2>2. DavBefore(seek) \in Nat /\ DavBefore(seek) <= 8
    BY <1>0 DEF DavBefore
  <2>3. seek.asked + 1 <= 9 /\ seek.asked <= 9
    BY <1>0, <1>o, <2>2
  <2> QED
    BY <1>0, <2>1, <2>3, FieldsStay DEF DavPaid
<1>1. CASE ListUrl
  <2>1. seek.pc = "list" /\ seek.via = "url"
    BY <1>1 DEF ListUrl, SeekAt
  <2>2. CASE Listing(seek.place) = "wanted"
    <3>1. seek' = [AskedOnce(seek) EXCEPT !.pc = "whose"]
      BY <1>1, <2>2 DEF ListUrl
    <3>2. /\ SeekFields \subseteq DOMAIN seek' /\ seek'.pc = "whose" /\ seek'.via = "url"
          /\ seek'.known = seek.known /\ seek'.asked = seek.asked + 1
      BY <1>a, <2>1, <3>1 DEF Asks, SeekFields
    <3>3. DavBefore(seek') = DavBefore(seek) + 1 /\ DavBefore(seek) \in {0, 7}
      BY <1>0, <2>1, <3>2 DEF DavBefore
    <3>4. seek.asked + 1 <= DavBefore(seek) + 1 /\ seek.asked + 1 <= 9
      BY <1>0, <2>1, <3>3
    <3> QED
      BY <1>0, <3>2, <3>3, <3>4 DEF DavPaid
  <2>3. CASE Listing(seek.place) # "wanted"
    <3>1. seek' = NotHere(AskedOnce(seek))
      BY <1>1, <2>3 DEF ListUrl
    <3> QED
      BY <1>a, <2>1, <3>1, NotHereGoesOn
  <2> QED
    BY <2>2, <2>3
<1>2. CASE ResolvePrincipal
  <2>1. seek.pc = "whose"
    BY <1>2 DEF ResolvePrincipal, SeekAt
  <2>2. PICK to : (to = seek \/ to = AskedOnce(seek)) /\ \E r : seek' = Over(to, r)
    BY <1>2 DEF ResolvePrincipal, Found
  <2> QED
    BY <1>a, <1>o, <2>1, <2>2
<1>t. ASSUME NEW to, Asks(to), seek.pc \in {"props", "home"}, NEW p, NEW b,
             seek' = [to EXCEPT !.place = p, !.account = b, !.pc = "list"]
      PROVE  DavPaid(seek') /\ SeekFields \subseteq DOMAIN seek' /\ seek'.asked \in Nat
  <2>1. /\ SeekFields \subseteq DOMAIN seek' /\ seek'.pc = "list" /\ seek'.via = "principal"
        /\ seek'.known = seek.known /\ seek'.asked = seek.asked + 1
    BY <1>0, <1>t DEF Asks, SeekFields
  <2>2. /\ DavBefore(seek') = (IF seek.known THEN 6 ELSE 3)
        /\ DavBefore(seek) <= (IF seek.known THEN 5 ELSE 2)
        /\ DavBefore(seek) \in Nat
    BY <1>0, <1>t, <2>1 DEF DavBefore
  <2>3. seek.asked + 1 <= (IF seek.known THEN 6 ELSE 3)
    BY <1>0, <1>t, <2>2
  <2> QED
    BY <1>0, <2>1, <2>2, <2>3 DEF DavPaid
<1>3. CASE FindPrincipal
  <2> DEFINE to == AskedOnce(seek)
  <2>1. seek.pc = "props" /\ seek.via = "principal"
    BY <1>0, <1>3 DEF FindPrincipal, SeekAt
  <2>2. Asks(to)
    BY <1>a
  <2>3. \/ \E p, b : seek' = [to EXCEPT !.place = p, !.account = b, !.pc = "list"]
        \/ \E p : seek' = [to EXCEPT !.place = p, !.pc = "home"]
        \/ seek' = NotHere(to)
    <3>1. seek' = CASE Props(seek.place) = "home" -> ToHome(to, FinalUrl(seek.place), FinalUrl(seek.place))
                    [] Props(seek.place) = "principal" ->
                         [to EXCEPT !.place = Resolved(FinalUrl(seek.place), "principal"), !.pc = "home"]
                    [] Props(seek.place) = "nothing" -> [to EXCEPT !.place = FinalUrl(seek.place), !.pc = "home"]
                    [] OTHER -> NotHere(to)
      BY <1>3 DEF FindPrincipal
    <3> HIDE DEF to
    <3>2. CASE Props(seek.place) = "home"
      BY <3>1, <3>2 DEF ToHome
    <3>3. CASE Props(seek.place) = "principal"
      BY <3>1, <3>3
    <3>4. CASE Props(seek.place) = "nothing"
      BY <3>1, <3>4
    <3>5. CASE Props(seek.place) \notin {"home", "principal", "nothing"}
      BY <3>1, <3>5
    <3> QED
      BY <3>2, <3>3, <3>4, <3>5
  <2> HIDE DEF to
  <2>4. ASSUME NEW p, seek' = [to EXCEPT !.place = p, !.pc = "home"]
        PROVE  DavPaid(seek') /\ SeekFields \subseteq DOMAIN seek' /\ seek'.asked \in Nat
    <3>1. /\ SeekFields \subseteq DOMAIN seek' /\ seek'.pc = "home" /\ seek'.via = "principal"
          /\ seek'.known = seek.known /\ seek'.asked = seek.asked + 1
      BY <2>1, <2>2, <2>4 DEF Asks, SeekFields
    <3>2. DavBefore(seek') = DavBefore(seek) + 1 /\ DavBefore(seek) \in {1, 4}
      BY <1>0, <2>1, <3>1 DEF DavBefore
    <3>3. seek.asked + 1 <= DavBefore(seek) + 1 /\ seek.asked + 1 <= 9
      BY <1>0, <2>1, <3>2
    <3> QED
      BY <1>0, <3>1, <3>2, <3>3 DEF DavPaid
  <2>5. ASSUME NEW p, NEW b, seek' = [to EXCEPT !.place = p, !.account = b, !.pc = "list"]
        PROVE  DavPaid(seek') /\ SeekFields \subseteq DOMAIN seek' /\ seek'.asked \in Nat
    BY <1>t, <2>1, <2>2, <2>5
  <2>6. ASSUME seek' = NotHere(to)
        PROVE  DavPaid(seek') /\ SeekFields \subseteq DOMAIN seek' /\ seek'.asked \in Nat
    BY <2>1, <2>2, <2>6, NotHereGoesOn
  <2> QED
    BY <2>3, <2>4, <2>5, <2>6
<1>4. CASE FindHome
  <2>1. seek.pc = "home"
    BY <1>4 DEF FindHome, SeekAt
  <2>2. \/ \E p, b : seek' = [AskedOnce(seek) EXCEPT !.place = p, !.account = b, !.pc = "list"]
        \/ seek' = NotHere(AskedOnce(seek))
    BY <1>4 DEF FindHome, ToHome
  <2>3. ASSUME NEW p, NEW b, seek' = [AskedOnce(seek) EXCEPT !.place = p, !.account = b, !.pc = "list"]
        PROVE  DavPaid(seek') /\ SeekFields \subseteq DOMAIN seek' /\ seek'.asked \in Nat
    BY <1>a, <1>t, <2>1, <2>3
  <2>4. ASSUME seek' = NotHere(AskedOnce(seek))
        PROVE  DavPaid(seek') /\ SeekFields \subseteq DOMAIN seek' /\ seek'.asked \in Nat
    BY <1>a, <2>1, <2>4, NotHereGoesOn
  <2> QED
    BY <2>2, <2>3, <2>4
<1>5. CASE ListHome
  <2>1. seek.pc = "list"
    BY <1>5 DEF ListHome, SeekAt
  <2>2. (\E r : seek' = Over(AskedOnce(seek), r)) \/ seek' = NotHere(AskedOnce(seek))
    <3>1. seek' = CASE Listing(seek.place) = "wanted" -> Found(AskedOnce(seek), seek.account, seek.place)
                    [] Listing(seek.place) = "other" -> NotHere(AskedOnce(seek))
                    [] OTHER -> Over(AskedOnce(seek), Failure("error"))
      BY <1>5 DEF ListHome
    <3>2. CASE Listing(seek.place) = "wanted"
      BY <3>1, <3>2 DEF Found
    <3>3. CASE Listing(seek.place) = "other"
      BY <3>1, <3>3
    <3>4. CASE Listing(seek.place) \notin {"wanted", "other"}
      BY <3>1, <3>4
    <3> QED
      BY <3>2, <3>3, <3>4
  <2> QED
    BY <1>a, <1>o, <2>1, <2>2, NotHereGoesOn
<1>6. CASE SeekFails
  <2> DEFINE to == [AskedOnce(seek) EXCEPT !.faults = @ + 1]
  <2>1. \/ seek.pc \in {"props", "home", "list"} /\ seek' = NotHere(to)
        \/ seek.pc # "over" /\ \E r : seek' = Over(to, r)
    BY <1>0, <1>6 DEF SeekFails, SeekAt, Found
  <2>2. Asks(to)
    BY <1>a
  <2> HIDE DEF to
  <2> QED
    BY <1>o, <2>1, <2>2, NotHereGoesOn
<1> QED
  BY <1>0, <1>1, <1>2, <1>3, <1>4, <1>5, <1>6
  DEF SeekNext, SeekAt, SuppliedUrl, AutodiscoverV2, AutodiscoverV1, FollowUrl, NoCandidateLeft,
      DiscoverSession, DiscoverKnown, ResolveViaPrincipal

-----------------------------------------------------------------------------
(* JMAP: one request at each of its stages. *)
LEMMA JmapStep ==
  ASSUME SeekPaid(seek), web.kind = "jmap", SeekNext
  PROVE  JmapPaid(seek') /\ SeekFields \subseteq DOMAIN seek' /\ seek'.asked \in Nat
<1>0. /\ SeekFields \subseteq DOMAIN seek /\ seek.asked \in Nat /\ JmapPaid(seek)
      /\ seek.pc \in {"session", "known", "resolve", "over"}
  BY DEF SeekPaid, JmapPaid
<1>a. UNCHANGED web /\ Asks(AskedOnce(seek)) /\ Asks([AskedOnce(seek) EXCEPT !.faults = @ + 1])
  <2>1. UNCHANGED web
    BY DEF SeekNext, SuppliedUrl, AutodiscoverV2, AutodiscoverV1, FollowUrl, NoCandidateLeft, ListUrl,
           ResolvePrincipal, FindPrincipal, FindHome, ListHome, DiscoverSession, DiscoverKnown,
           ResolveViaPrincipal, SeekFails
  <2> QED
    BY <2>1, AskedOnceAsks
<1>b. seek.pc # "over" => seek.asked + 1 <= 3
  BY <1>0 DEF JmapPaid
<1>1. ASSUME NEW to, Asks(to), seek.pc # "over",
             \/ \E r : seek' = Over(to, r)
             \/ seek.pc = "session" /\ seek' = [to EXCEPT !.pc = "known"]
             \/ seek.pc \in {"session", "known"} /\ seek' = [to EXCEPT !.pc = "resolve"]
      PROVE  JmapPaid(seek') /\ SeekFields \subseteq DOMAIN seek' /\ seek'.asked \in Nat
  <2>0. SeekFields \subseteq DOMAIN to /\ to.asked = seek.asked + 1
    BY <1>1 DEF Asks
  <2>1. CASE \E r : seek' = Over(to, r)
    <3>1. SeekFields \subseteq DOMAIN seek' /\ seek'.pc = "over" /\ seek'.asked = seek.asked + 1
      BY <2>0, <2>1, FieldsStay
    <3> QED
      BY <1>0, <1>1, <1>b, <3>1 DEF JmapPaid
  <2>2. CASE seek.pc = "session" /\ seek' = [to EXCEPT !.pc = "known"]
    <3>1. SeekFields \subseteq DOMAIN seek' /\ seek'.pc = "known" /\ seek'.asked = 1
      BY <1>0, <2>0, <2>2 DEF SeekFields, JmapPaid
    <3> QED
      BY <3>1 DEF JmapPaid
  <2>3. CASE seek.pc \in {"session", "known"} /\ seek' = [to EXCEPT !.pc = "resolve"]
    <3>1. SeekFields \subseteq DOMAIN seek' /\ seek'.pc = "resolve" /\ seek'.asked = seek.asked + 1
      BY <1>0, <2>0, <2>3 DEF SeekFields
    <3>2. seek.asked + 1 <= 2
      BY <1>0, <2>3 DEF JmapPaid
    <3> QED
      BY <1>0, <3>1, <3>2 DEF JmapPaid
  <2> QED
    BY <1>1, <2>1, <2>2, <2>3
<1>c. \A to : (\E r : ToAccount(to) = Over(to, r)) \/ ToAccount(to) = [to EXCEPT !.pc = "resolve"]
  BY DEF ToAccount
<1>2. CASE DiscoverSession
  <2>1. /\ seek.pc = "session"
        /\ \/ seek' = ToAccount(AskedOnce(seek))
           \/ \E r : seek' = Over(AskedOnce(seek), r)
           \/ seek' = [AskedOnce(seek) EXCEPT !.pc = "known"]
    <3>1. seek' = CASE web.direct = "session" -> ToAccount(AskedOnce(seek))
                    [] web.direct = "auth" -> Over(AskedOnce(seek), Failure("auth"))
                    [] OTHER -> [AskedOnce(seek) EXCEPT !.pc = "known"]
      BY <1>2 DEF DiscoverSession
    <3>2. CASE web.direct = "session"
      BY <1>2, <3>1, <3>2 DEF DiscoverSession, SeekAt
    <3>3. CASE web.direct = "auth"
      BY <1>2, <3>1, <3>3 DEF DiscoverSession, SeekAt
    <3>4. CASE web.direct \notin {"session", "auth"}
      BY <1>2, <3>1, <3>4 DEF DiscoverSession, SeekAt
    <3> QED
      BY <3>2, <3>3, <3>4
  <2> QED
    BY <1>1, <1>a, <1>c, <2>1
<1>3. CASE DiscoverKnown
  <2>1. /\ seek.pc = "known"
        /\ \/ seek' = ToAccount(AskedOnce(seek))
           \/ \E r : seek' = Over(AskedOnce(seek), r)
    <3>1. seek' = CASE web.known = "session" -> ToAccount(AskedOnce(seek))
                    [] web.known = "auth" -> Over(AskedOnce(seek), Failure("auth"))
                    [] OTHER -> Over(AskedOnce(seek), Failure("connect"))
      BY <1>3 DEF DiscoverKnown
    <3>2. CASE web.known = "session"
      BY <1>3, <3>1, <3>2 DEF DiscoverKnown, SeekAt
    <3>3. CASE web.known # "session"
      BY <1>3, <3>1, <3>3 DEF DiscoverKnown, SeekAt
    <3> QED
      BY <3>2, <3>3
  <2> QED
    BY <1>1, <1>a, <1>c, <2>1
<1>4. CASE ResolveViaPrincipal
  <2>1. seek.pc = "resolve" /\ \E r : seek' = Over(AskedOnce(seek), r)
    BY <1>4 DEF ResolveViaPrincipal, SeekAt
  <2> QED
    BY <1>1, <1>a, <2>1
<1>5. CASE SeekFails
  <2> DEFINE to == [AskedOnce(seek) EXCEPT !.faults = @ + 1]
  <2>1. /\ seek.pc # "over"
        /\ \/ \E r : seek' = Over(to, r)
           \/ seek.pc = "session" /\ seek' = [to EXCEPT !.pc = "known"]
    BY <1>0, <1>5 DEF SeekFails, SeekAt
  <2>2. Asks(to)
    BY <1>a
  <2> HIDE DEF to
  <2> QED
    BY <1>1, <2>1, <2>2
<1> QED
  BY <1>0, <1>2, <1>3, <1>4, <1>5
  DEF SeekNext, SeekAt, SuppliedUrl, AutodiscoverV2, AutodiscoverV1, FollowUrl, NoCandidateLeft,
      ListUrl, ResolvePrincipal, FindPrincipal, FindHome, ListHome

(* Every step of a search is of its kind.                                  *)
LEMMA SeekStep == SeekPaid(seek) /\ [SeekNext]_seekVars => SeekPaid(seek)'
<1> SUFFICES ASSUME SeekPaid(seek), [SeekNext]_seekVars PROVE SeekPaid(seek)'
  OBVIOUS
<1>1. CASE UNCHANGED seekVars
  BY <1>1 DEF seekVars, SeekPaid, EwsPaid, DavPaid, DavBefore, JmapPaid
<1>2. CASE SeekNext
  <2>1. UNCHANGED web
    BY <1>2 DEF SeekNext, SuppliedUrl, AutodiscoverV2, AutodiscoverV1, FollowUrl, NoCandidateLeft, ListUrl,
           ResolvePrincipal, FindPrincipal, FindHome, ListHome, DiscoverSession, DiscoverKnown,
           ResolveViaPrincipal, SeekFails
  <2>2. CASE web.kind = "ews"
    BY <1>2, <2>1, <2>2, EwsStep DEF SeekPaid
  <2>3. CASE web.kind = "dav"
    BY <1>2, <2>1, <2>3, DavStep DEF SeekPaid
  <2>4. CASE web.kind = "jmap"
    BY <1>2, <2>1, <2>4, JmapStep DEF SeekPaid
  <2> QED
    BY <2>2, <2>3, <2>4 DEF SeekPaid
<1> QED
  BY <1>1, <1>2

-----------------------------------------------------------------------------
(* Searches find what was meant.  As long as no request failed: EWS has    *)
(* gone past candidates that say nothing, and DAV is at the place that its *)
(* last answer named, or the next one that is worth asking.                *)
Passed(d, i) == Outcome(web.answers[d][i]) \notin {"EwsUrl", "redirectAddr"}
EwsLooked(s) ==
  /\ s.pc \in {"supplied", "v2"} => s.next = 1
  /\ s.pc \in {"v1", "hop"} => \A i \in 1..(s.next - 1) : Passed(s.domain, i)
  /\ s.pc = "hop" => Passed(s.domain, s.next)
  /\ s.pc = "over" =>
       \/ s.result.kind = "loop" \/ (s.result.kind = "url" /\ s.result.of # "supplied")
       \/ web.supplied = "full" \/ \A i \in 1..2 : Passed(s.domain, i)
DavSought(s) ==
  /\ s.pc = "list" /\ s.via = "url" => ~s.known /\ s.place = UserUrl
  /\ s.pc = "props" => IF s.known THEN s.place = WellKnown(UserUrl) /\ Props(UserUrl) = "error"
                       ELSE s.place = UserUrl
  /\ s.pc = "home" => s.place = UrlOf(web.host, "principal") /\ web.root = "principal"
  /\ s.pc = "list" /\ s.via = "principal" => s.place = UrlOf(web.host, "home")
  /\ s.pc = "over" => s.result.kind = "home"
AccountOf(i) ==
  \/ Account(i, WantedName) \in web.accounts
  \/ \A p \in web.principals : p.name = WantedName => \E a \in p.accounts : a.id = i
SeekMeant(s) ==
  /\ s.faults \in Nat
  /\ web.kind = "dav" => web \in DavWebs
  /\ web.kind = "jmap" => web \in JmapWebs
  /\ s.pc = "over" /\ s.result.kind = "home" => s.result.at = FinalUrl(s.result.home)
  /\ web.kind = "ews" /\ s.faults = 0 => EwsLooked(s)
  /\ web.kind = "dav" /\ InOrder /\ s.faults = 0 => DavSought(s)
  /\ web.kind = "jmap" /\ s.pc = "over" /\ s.result.kind = "account" => AccountOf(s.result.id)

(* A search begins at the first place.                                     *)
LEMMA SeekMeantInitially == SeekInit => SeekMeant(seek)
<1> SUFFICES ASSUME SeekInit PROVE SeekMeant(seek)
  OBVIOUS
<1>1. /\ seek.faults = 0 /\ seek.next = 1 /\ seek.via = "url" /\ seek.known = FALSE /\ seek.place = UserUrl
      /\ seek.pc = CASE web.kind = "ews" -> "supplied" [] web.kind = "dav" -> "list" [] OTHER -> "session"
  BY DEF SeekInit
<1>2. web \in EwsWebs \union DavWebs \union JmapWebs
  BY DEF SeekInit
<1>3. /\ web \in EwsWebs => web.kind = "ews"
      /\ web \in DavWebs => web.kind = "dav"
      /\ web \in JmapWebs => web.kind = "jmap"
  BY DEF EwsWebs, DavWebs, JmapWebs
<1>4. /\ seek.pc # "over"
      /\ web.kind = "ews" => seek.pc = "supplied"
      /\ web.kind = "dav" => seek.pc = "list"
  BY <1>1, <1>2, <1>3
<1> QED
  BY <1>1, <1>2, <1>3, <1>4 DEF SeekMeant, EwsLooked, DavSought

(* What asking, ending and passing over leave as it is.                    *)
LEMMA MeantFields ==
  ASSUME NEW to, SeekFields \subseteq DOMAIN to
  PROVE  /\ \A r : /\ Over(to, r).pc = "over" /\ Over(to, r).result = r
                   /\ Over(to, r).faults = to.faults /\ Over(to, r).domain = to.domain
         /\ Skip(to).pc = "v1" /\ Skip(to).next = to.next + 1 /\ Skip(to).faults = to.faults
         /\ Skip(to).domain = to.domain
         /\ SeekFields \subseteq DOMAIN AskedOnce(to)
         /\ \A f \in SeekFields \ {"asked"} : AskedOnce(to)[f] = to[f]
BY DEF Over, Skip, AskedOnce, SeekFields

(* A step that does not end the search need not have found anything.       *)
LEMMA MeantOnTheWay ==
  ASSUME SeekMeant(seek), NEW s, s.pc # "over", s.faults = seek.faults,
         web.kind = "ews" /\ s.faults = 0 => EwsLooked(s),
         web.kind = "dav" /\ InOrder /\ s.faults = 0 => DavSought(s)
  PROVE  SeekMeant(s)
BY DEF SeekMeant

(* EWS goes past no candidate that names a URL or an address.              *)
LEMMA EwsLooks ==
  ASSUME SeekPaid(seek), SeekMeant(seek), web.kind = "ews",
         SuppliedUrl \/ AutodiscoverV2 \/ AutodiscoverV1 \/ FollowUrl \/ NoCandidateLeft
  PROVE  SeekMeant(seek')
<1> DEFINE to == AskedOnce(seek)
<1>0. /\ SeekFields \subseteq DOMAIN seek /\ seek.next \in 1..3 /\ seek.faults \in Nat
      /\ seek.pc \in {"supplied", "v2", "v1", "hop", "over"} /\ (seek.pc = "hop" => seek.next <= 2)
  BY DEF SeekPaid, EwsPaid, SeekMeant
<1>1. /\ SeekFields \subseteq DOMAIN to /\ to.pc = seek.pc /\ to.faults = seek.faults /\ to.next = seek.next
      /\ to.domain = seek.domain /\ to.hops = seek.hops /\ to.addresses = seek.addresses
  BY <1>0, MeantFields DEF SeekFields
<1>2. seek.faults = 0 => EwsLooked(seek)
  BY DEF SeekMeant
<1>3. ASSUME NEW r, NEW s, SeekFields \subseteq DOMAIN s, s.faults = seek.faults, s.domain = seek.domain,
             seek' = Over(s, r), r.kind # "home",
             seek.faults = 0 => \/ r.kind = "loop" \/ (r.kind = "url" /\ r.of # "supplied")
                                \/ web.supplied = "full" \/ \A i \in 1..2 : Passed(seek.domain, i)
      PROVE  SeekMeant(seek')
  <2>1. seek'.pc = "over" /\ seek'.result = r /\ seek'.faults = seek.faults /\ seek'.domain = seek.domain
    BY <1>3, MeantFields
  <2>2. seek.faults = 0 => EwsLooked(seek')
    BY <1>3, <2>1 DEF EwsLooked
  <2> QED
    BY <1>0, <1>3, <2>1, <2>2 DEF SeekMeant
<1>4. ASSUME seek' = Skip(to), seek.pc \in {"v1", "hop"}, seek.next <= 2,
             seek.faults = 0 => Passed(seek.domain, seek.next)
      PROVE  SeekMeant(seek')
  <2>1. /\ seek'.pc = "v1" /\ seek'.next = seek.next + 1 /\ seek'.faults = seek.faults
        /\ seek'.domain = seek.domain
    BY <1>1, <1>4, MeantFields
  <2>2. ASSUME seek.faults = 0 PROVE EwsLooked(seek')
    <3>1. \A i \in 1..(seek.next - 1) : Passed(seek.domain, i)
      BY <1>2, <1>4, <2>2 DEF EwsLooked
    <3>2. \A i \in 1..(seek'.next - 1) : i \in 1..(seek.next - 1) \/ i = seek.next
      BY <1>0, <2>1
    <3>3. \A i \in 1..(seek'.next - 1) : Passed(seek'.domain, i)
      BY <1>4, <2>1, <2>2, <3>1, <3>2
    <3> QED
      BY <2>1, <3>3 DEF EwsLooked
  <2> QED
    BY <2>1, <2>2, MeantOnTheWay
<1>5. CASE SuppliedUrl
  <2>1. CASE web.supplied = "full"
    <3>1. seek' = Over(seek, [kind |-> "url", of |-> "supplied"])
      BY <1>5, <2>1 DEF SuppliedUrl
    <3> QED
      BY <1>0, <1>3, <2>1, <3>1
  <2>2. CASE web.supplied # "full"
    <3>1. seek' = [seek EXCEPT !.pc = "v2"] /\ seek.pc = "supplied"
      BY <1>5, <2>2 DEF SuppliedUrl, SeekAt
    <3>2. seek'.pc = "v2" /\ seek'.next = seek.next /\ seek'.faults = seek.faults
      BY <1>0, <3>1 DEF SeekFields
    <3> QED
      BY <1>2, <3>1, <3>2, MeantOnTheWay DEF EwsLooked
  <2> QED
    BY <2>1, <2>2
<1>6. CASE AutodiscoverV2
  <2>1. CASE web.v2
    <3>1. seek' = Over(to, [kind |-> "url", of |-> "v2"])
      BY <1>6, <2>1 DEF AutodiscoverV2
    <3> HIDE DEF to
    <3> QED
      BY <1>1, <1>3, <3>1
  <2>2. CASE ~web.v2
    <3>1. seek' = [to EXCEPT !.pc = "v1"] /\ seek.pc = "v2"
      BY <1>6, <2>2 DEF AutodiscoverV2, SeekAt
    <3> HIDE DEF to
    <3>2. seek'.pc = "v1" /\ seek'.next = seek.next /\ seek'.faults = seek.faults
      BY <1>1, <3>1 DEF SeekFields
    <3>3. seek.faults = 0 => \A i \in 1..(seek'.next - 1) : Passed(seek'.domain, i)
      BY <1>2, <3>1, <3>2 DEF EwsLooked
    <3> QED
      BY <3>2, <3>3, MeantOnTheWay DEF EwsLooked
  <2> QED
    BY <2>1, <2>2
<1>7. CASE AutodiscoverV1
  <2>1. seek.pc = "v1" /\ seek.next \in 1..2
    BY <1>0, <1>7 DEF AutodiscoverV1, SeekAt
  <2>2. seek' = CASE Outcome(Candidate) = "EwsUrl" -> Over(to, [kind |-> "url", of |-> "v1"])
                  [] Outcome(Candidate) = "redirectAddr" -> Follow(to)
                  [] Outcome(Candidate) = "redirectUrl" ->
                       IF seek.hops >= 1 THEN Over(to, Failure("loop"))
                       ELSE [to EXCEPT !.hops = @ + 1, !.pc = "hop"]
                  [] OTHER -> Skip(to)
    BY <1>7 DEF AutodiscoverV1
  <2>3. Passed(seek.domain, seek.next) <=> Outcome(Candidate) \notin {"EwsUrl", "redirectAddr"}
    BY DEF Passed, Candidate
  <2> HIDE DEF to
  <2>4. CASE Outcome(Candidate) = "EwsUrl"
    BY <1>1, <1>3, <2>2, <2>4
  <2>5. CASE Outcome(Candidate) = "redirectAddr"
    <3>1. seek' = Follow(to)
      BY <2>2, <2>5
    <3>2. CASE seek.addresses >= MaxAddresses
      BY <1>1, <1>3, <3>1, <3>2 DEF Follow, Failure
    <3>3. CASE ~(seek.addresses >= MaxAddresses)
      <4>1. seek' = [to EXCEPT !.addresses = @ + 1, !.domain = Candidate.to, !.next = 1]
        BY <3>1, <3>3 DEF Follow
      <4>2. seek'.pc = "v1" /\ seek'.next = 1 /\ seek'.faults = seek.faults
        BY <1>1, <2>1, <4>1 DEF SeekFields
      <4> QED
        BY <4>2, MeantOnTheWay DEF EwsLooked
    <3> QED
      BY <3>2, <3>3
  <2>6. CASE Outcome(Candidate) = "redirectUrl"
    <3>1. CASE seek.hops >= 1
      BY <1>1, <1>3, <2>2, <2>6, <3>1 DEF Failure
    <3>2. CASE ~(seek.hops >= 1)
      <4>1. seek' = [to EXCEPT !.hops = @ + 1, !.pc = "hop"]
        BY <2>2, <2>6, <3>2
      <4>2. seek'.pc = "hop" /\ seek'.next = seek.next /\ seek'.faults = seek.faults /\ seek'.domain = seek.domain
        BY <1>1, <2>1, <4>1 DEF SeekFields
      <4> QED
        BY <1>2, <2>1, <2>3, <2>6, <4>2, MeantOnTheWay DEF EwsLooked
    <3> QED
      BY <3>1, <3>2
  <2>7. CASE Outcome(Candidate) \notin {"EwsUrl", "redirectAddr", "redirectUrl"}
    BY <1>4, <2>1, <2>2, <2>3, <2>7
  <2> QED
    BY <2>4, <2>5, <2>6, <2>7
<1>8. CASE FollowUrl
  <2>1. seek.pc = "hop" /\ seek.next <= 2
    BY <1>0, <1>8 DEF FollowUrl, SeekAt
  <2>2. CASE Outcome(web.hop) = "EwsUrl"
    <3>1. seek' = Over(to, [kind |-> "url", of |-> "hop"])
      BY <1>8, <2>2 DEF FollowUrl
    <3> HIDE DEF to
    <3> QED
      BY <1>1, <1>3, <3>1
  <2>3. CASE Outcome(web.hop) # "EwsUrl"
    <3>1. seek' = Skip(to)
      BY <1>8, <2>3 DEF FollowUrl
    <3> HIDE DEF to
    <3> QED
      BY <1>2, <1>4, <2>1, <3>1 DEF EwsLooked
  <2> QED
    BY <2>2, <2>3
<1>9. CASE NoCandidateLeft
  <2>1. seek.pc = "v1" /\ seek.next = 3
    BY <1>0, <1>9 DEF NoCandidateLeft, SeekAt
  <2>2. seek.faults = 0 => \A i \in 1..2 : Passed(seek.domain, i)
    BY <1>2, <2>1 DEF EwsLooked
  <2>3. \E r : seek' = Over(seek, r) /\ r.kind # "home"
    BY <1>9 DEF NoCandidateLeft, Failure
  <2> QED
    BY <1>0, <1>3, <2>2, <2>3
<1> QED
  BY <1>5, <1>6, <1>7, <1>8, <1>9

(* The places that the servers of an account that is in order lead to.     *)
LEMMA PlacesInOrder ==
  ASSUME web \in DavWebs, InOrder
  PROVE  /\ web.root \in {"home", "principal"} /\ (web.root = "principal" => web.principal = "home")
         /\ Props(UserUrl) # "error" =>
              Props(UserUrl) = web.root /\ FinalUrl(UserUrl) = UrlOf(web.host, "root")
         /\ Props(UserUrl) = "error" =>
              /\ Props(WellKnown(UserUrl)) = web.root
              /\ FinalUrl(WellKnown(UserUrl)) = UrlOf(web.host, "root")
         /\ LET p == UrlOf(web.host, "principal") IN Props(p) = web.principal /\ FinalUrl(p) = p
         /\ Listing(UrlOf(web.host, "home")) = "wanted"
<1>0. /\ web.moved \in SUBSET {"root", "known"} /\ web.host \in {"a", "b"} /\ web.homeHost = web.host
      /\ web.homeList = "wanted" /\ (web.host = "a" \/ web.moved # {})
      /\ web.root \in {"home", "principal"} /\ (web.root = "principal" => web.principal = "home")
  BY DEF DavWebs, InOrder
<1>1. \A h, p, i, q : /\ UrlOf(h, p) = UrlOf(i, q) <=> h = i /\ p = q
                      /\ UrlOf(h, p).host = h /\ UrlOf(h, p).path = p
  BY DEF UrlOf
<1>2. /\ FinalUrl(UserUrl) = IF "root" \in web.moved THEN UrlOf(web.host, "root") ELSE UrlOf("a", "root")
      /\ FinalUrl(WellKnown(UserUrl)) = IF "known" \in web.moved THEN UrlOf(web.host, "root") ELSE UrlOf("a", "known")
      /\ FinalUrl(UrlOf(web.host, "principal")) = UrlOf(web.host, "principal")
      /\ FinalUrl(UrlOf(web.host, "home")) = UrlOf(web.host, "home")
  BY <1>0, <1>1 DEF FinalUrl, UserUrl, WellKnown
<1>3. \A p : Props(p) = IF FinalUrl(p) = UrlOf(web.host, "root") THEN web.root
                        ELSE IF FinalUrl(p) = UrlOf(web.host, "principal") THEN web.principal ELSE "error"
  BY DEF Props
<1>4. FinalUrl(UserUrl) = UrlOf(web.host, "root") \/ (web.host = "b" /\ "root" \notin web.moved)
  BY <1>0, <1>2
<1>5. CASE FinalUrl(UserUrl) = UrlOf(web.host, "root")
  <2>1. Props(UserUrl) = web.root
    BY <1>3, <1>5
  <2>2. Props(UrlOf(web.host, "principal")) = web.principal
    BY <1>1, <1>2, <1>3
  <2>3. Listing(UrlOf(web.host, "home")) = "wanted"
    BY <1>0, <1>2 DEF Listing
  <2> QED
    BY <1>0, <1>2, <1>5, <2>1, <2>2, <2>3
<1>6. CASE web.host = "b" /\ "root" \notin web.moved
  <2>1. FinalUrl(WellKnown(UserUrl)) = UrlOf(web.host, "root")
    BY <1>0, <1>2, <1>6
  <2>2. Props(WellKnown(UserUrl)) = web.root
    BY <1>3, <2>1
  <2>3. FinalUrl(UserUrl) = UrlOf("a", "root")
    BY <1>2, <1>6
  <2>4. Props(UserUrl) = "error"
    BY <1>1, <1>3, <1>6, <2>3
  <2>5. Props(UrlOf(web.host, "principal")) = web.principal
    BY <1>1, <1>2, <1>3
  <2>6. Listing(UrlOf(web.host, "home")) = "wanted"
    BY <1>0, <1>2 DEF Listing
  <2> QED
    BY <1>0, <1>2, <2>1, <2>2, <2>4, <2>5, <2>6
<1> QED
  BY <1>4, <1>5, <1>6

(* DAV asks where the account is, and lists it where it found it.          *)
LEMMA DavSeeks ==
  ASSUME SeekPaid(seek), SeekMeant(seek), web.kind = "dav",
         ListUrl \/ ResolvePrincipal \/ FindPrincipal \/ FindHome \/ ListHome
  PROVE  SeekMeant(seek')
<1> DEFINE to == AskedOnce(seek)
           well == InOrder /\ seek.faults = 0
<1>0. /\ SeekFields \subseteq DOMAIN seek /\ seek.faults \in Nat /\ web \in DavWebs
      /\ seek.via \in {"url", "principal"} /\ seek.known \in BOOLEAN
      /\ seek.pc \in (IF seek.via = "url" THEN {"list", "whose", "over"} ELSE {"props", "home", "list", "over"})
  BY DEF SeekPaid, DavPaid, SeekMeant
<1>1. /\ SeekFields \subseteq DOMAIN to /\ to.pc = seek.pc /\ to.faults = seek.faults /\ to.place = seek.place
      /\ to.via = seek.via /\ to.known = seek.known /\ to.account = seek.account
  BY <1>0, MeantFields DEF SeekFields
<1>2. well => DavSought(seek) /\ ~web.files
  BY DEF SeekMeant, InOrder
<1>3. ASSUME NEW s, NEW account, NEW home, SeekFields \subseteq DOMAIN s, s.faults = seek.faults,
             seek' = Found(s, account, home)
      PROVE  SeekMeant(seek')
  <2>1. /\ seek'.pc = "over" /\ seek'.faults = seek.faults /\ seek'.result.kind = "home"
        /\ seek'.result.at = FinalUrl(seek'.result.home)
    BY <1>3, MeantFields DEF Found
  <2> QED
    BY <1>0, <2>1 DEF SeekMeant, DavSought
<1>4. ASSUME NEW r, ~well, seek' = Over(to, r), r.kind \notin {"home", "account"}
      PROVE  SeekMeant(seek')
  <2>1. seek'.pc = "over" /\ seek'.result = r /\ seek'.faults = seek.faults
    BY <1>1, <1>4, MeantFields
  <2> QED
    BY <1>0, <1>4, <2>1 DEF SeekMeant
<1>5. ASSUME seek' = NotHere(to), seek.pc \in {"list", "props", "home"},
             well => /\ ~seek.known
                     /\ IF seek.via = "url" THEN seek.place = UserUrl ELSE Props(UserUrl) = "error"
      PROVE  SeekMeant(seek')
  <2> HIDE DEF to
  <2>1. CASE ~seek.known /\ seek.via = "url" /\ ~web.files
    <3>1. seek' = [to EXCEPT !.via = "principal", !.pc = "props"]
      BY <1>1, <1>5, <2>1 DEF NotHere
    <3>2. seek'.pc = "props" /\ seek'.via = "principal" /\ seek'.faults = seek.faults /\ seek'.known = FALSE
          /\ seek'.place = seek.place
      BY <1>0, <1>1, <2>1, <3>1 DEF SeekFields
    <3> QED
      BY <1>0, <1>5, <2>1, <3>2, MeantOnTheWay DEF DavSought
  <2>2. CASE ~seek.known /\ seek.via = "principal"
    <3>1. seek' = [to EXCEPT !.known = TRUE, !.place = WellKnown(UserUrl), !.pc = "props"]
      BY <1>1, <1>5, <2>2 DEF NotHere
    <3>2. seek'.pc = "props" /\ seek'.faults = seek.faults /\ seek'.known /\ seek'.place = WellKnown(UserUrl)
      BY <1>1, <3>1 DEF SeekFields
    <3> QED
      BY <1>0, <1>5, <2>2, <3>2, MeantOnTheWay DEF DavSought
  <2>3. CASE seek.known /\ seek.via = "principal"
    <3>1. seek' = [to EXCEPT !.via = "url", !.place = WellKnown(UserUrl), !.pc = "list"]
      BY <1>1, <1>5, <2>3 DEF NotHere
    <3>2. seek'.pc = "list" /\ seek'.faults = seek.faults
      BY <1>1, <3>1 DEF SeekFields
    <3> QED
      BY <1>0, <1>5, <2>3, <3>2, MeantOnTheWay
  <2>4. CASE seek.via = "url" /\ (seek.known \/ web.files)
    <3>1. seek' = Over(to, Failure("notFound"))
      BY <1>1, <1>5, <2>4 DEF NotHere
    <3> QED
      BY <1>2, <1>4, <1>5, <2>4, <3>1 DEF Failure
  <2> QED
    BY <1>0, <2>1, <2>2, <2>3, <2>4
<1>6. ASSUME NEW final, NEW account, seek' = ToHome(to, account, final), seek.via = "principal",
             well => final.host = web.host
      PROVE  SeekMeant(seek')
  <2> HIDE DEF to
  <2>1. /\ seek'.pc = "list" /\ seek'.via = "principal" /\ seek'.faults = seek.faults
        /\ seek'.place = UrlOf(final.host, "home")
    BY <1>1, <1>6 DEF ToHome, Resolved, SeekFields
  <2> QED
    BY <1>0, <1>6, <2>1, MeantOnTheWay DEF DavSought
<1>7. CASE ListUrl
  <2>1. seek.pc = "list" /\ seek.via = "url"
    BY <1>7 DEF ListUrl, SeekAt
  <2>2. CASE Listing(seek.place) = "wanted"
    <3>1. seek' = [to EXCEPT !.pc = "whose"]
      BY <1>7, <2>2 DEF ListUrl
    <3> HIDE DEF to
    <3>2. seek'.pc = "whose" /\ seek'.faults = seek.faults
      BY <1>1, <3>1 DEF SeekFields
    <3> QED
      BY <1>0, <3>2, MeantOnTheWay DEF DavSought
  <2>3. CASE Listing(seek.place) # "wanted"
    <3>1. seek' = NotHere(to)
      BY <1>7, <2>3 DEF ListUrl
    <3> QED
      BY <1>2, <1>5, <2>1, <3>1 DEF DavSought
  <2> QED
    BY <2>2, <2>3
<1>8. CASE ResolvePrincipal
  <2>1. PICK s : (s = seek \/ s = to) /\ \E account : seek' = Found(s, account, seek.place)
    BY <1>8 DEF ResolvePrincipal
  <2> HIDE DEF to
  <2> QED
    BY <1>0, <1>1, <1>3, <2>1
<1>9. CASE FindPrincipal
  <2> DEFINE final == FinalUrl(seek.place)
  <2>1. seek.pc = "props" /\ seek.via = "principal"
    BY <1>0, <1>9 DEF FindPrincipal, SeekAt
  <2>2. seek' = CASE Props(seek.place) = "home" -> ToHome(to, final, final)
                  [] Props(seek.place) = "principal" ->
                       [to EXCEPT !.place = Resolved(final, "principal"), !.pc = "home"]
                  [] Props(seek.place) = "nothing" -> [to EXCEPT !.place = final, !.pc = "home"]
                  [] OTHER -> NotHere(to)
    BY <1>9 DEF FindPrincipal
  <2>3. ASSUME well
        PROVE  /\ Props(seek.place) \in {"home", "principal"} =>
                    final.host = web.host /\ Props(seek.place) = web.root
               /\ Props(seek.place) # "nothing"
               /\ Props(seek.place) \notin {"home", "principal"} => ~seek.known /\ Props(UserUrl) = "error"
    <3>1. IF seek.known THEN seek.place = WellKnown(UserUrl) /\ Props(UserUrl) = "error" ELSE seek.place = UserUrl
      BY <1>2, <2>1, <2>3 DEF DavSought
    <3>2. web.root \in {"home", "principal"} /\ UrlOf(web.host, "root").host = web.host
      BY <1>0, <2>3, PlacesInOrder DEF UrlOf
    <3>3. CASE seek.known
      <4>1. Props(seek.place) = web.root /\ final = UrlOf(web.host, "root")
        BY <1>0, <2>3, <3>1, <3>3, PlacesInOrder
      <4> QED
        BY <3>2, <4>1
    <3>4. CASE ~seek.known
      <4>1. seek.place = UserUrl
        BY <3>1, <3>4
      <4>2. Props(UserUrl) = "error" \/ (Props(UserUrl) = web.root /\ FinalUrl(UserUrl) = UrlOf(web.host, "root"))
        BY <1>0, <2>3, PlacesInOrder
      <4> QED
        BY <3>2, <3>4, <4>1, <4>2
    <3> QED
      BY <3>3, <3>4
  <2> HIDE DEF to, well
  <2>4. CASE Props(seek.place) = "home"
    BY <1>6, <2>1, <2>2, <2>3, <2>4
  <2>5. CASE Props(seek.place) = "principal"
    <3>1. seek' = [to EXCEPT !.place = UrlOf(final.host, "principal"), !.pc = "home"]
      BY <2>2, <2>5 DEF Resolved
    <3>2. seek'.pc = "home" /\ seek'.faults = seek.faults /\ seek'.place = UrlOf(final.host, "principal")
      BY <1>1, <3>1 DEF SeekFields
    <3>3. well => DavSought(seek')
      BY <2>3, <2>5, <3>2 DEF DavSought
    <3> QED
      BY <1>0, <3>2, <3>3, MeantOnTheWay DEF well
  <2>6. CASE Props(seek.place) = "nothing"
    <3>1. seek' = [to EXCEPT !.place = final, !.pc = "home"]
      BY <2>2, <2>6
    <3>2. seek'.pc = "home" /\ seek'.faults = seek.faults
      BY <1>1, <3>1 DEF SeekFields
    <3> QED
      BY <1>0, <2>3, <2>6, <3>2, MeantOnTheWay DEF well
  <2>7. CASE Props(seek.place) \notin {"home", "principal", "nothing"}
    BY <1>5, <2>1, <2>2, <2>3, <2>7
  <2> QED
    BY <2>4, <2>5, <2>6, <2>7
<1>10. CASE FindHome
  <2>1. seek.pc = "home" /\ seek.via = "principal"
    BY <1>0, <1>10 DEF FindHome, SeekAt
  <2>2. well => Props(seek.place) = "home" /\ FinalUrl(seek.place).host = web.host
    <3>1. ASSUME well PROVE seek.place = UrlOf(web.host, "principal") /\ web.root = "principal"
      BY <1>2, <2>1, <3>1 DEF DavSought
    <3>2. UrlOf(web.host, "principal").host = web.host
      BY DEF UrlOf
    <3> QED
      BY <1>0, <3>1, <3>2, PlacesInOrder
  <2>3. CASE Props(seek.place) = "home"
    <3>1. seek' = ToHome(to, seek.place, FinalUrl(seek.place))
      BY <1>10, <2>3 DEF FindHome
    <3> QED
      BY <1>6, <2>1, <2>2, <3>1
  <2>4. CASE Props(seek.place) # "home"
    <3>1. seek' = NotHere(to)
      BY <1>10, <2>4 DEF FindHome
    <3> QED
      BY <1>5, <2>1, <2>2, <2>4, <3>1
  <2> QED
    BY <2>3, <2>4
<1>11. CASE ListHome
  <2>1. seek.pc = "list" /\ seek.via = "principal"
    BY <1>11 DEF ListHome, SeekAt
  <2>2. well => Listing(seek.place) = "wanted"
    BY <1>0, <1>2, <2>1, PlacesInOrder DEF DavSought
  <2>3. seek' = CASE Listing(seek.place) = "wanted" -> Found(to, seek.account, seek.place)
                  [] Listing(seek.place) = "other" -> NotHere(to)
                  [] OTHER -> Over(to, Failure("error"))
    BY <1>11 DEF ListHome
  <2> HIDE DEF to, well
  <2>4. CASE Listing(seek.place) = "wanted"
    BY <1>1, <1>3, <2>3, <2>4
  <2>5. CASE Listing(seek.place) = "other"
    BY <1>5, <2>1, <2>2, <2>3, <2>5
  <2>6. CASE Listing(seek.place) \notin {"wanted", "other"}
    BY <1>4, <2>2, <2>3, <2>6 DEF Failure
  <2> QED
    BY <2>4, <2>5, <2>6
<1> QED
  BY <1>7, <1>8, <1>9, <1>10, <1>11

(* JMAP takes the account of that name, or the one the only principal of   *)
(* that name has.                                                          *)
LEMMA JmapMeans ==
  ASSUME SeekPaid(seek), SeekMeant(seek), web.kind = "jmap",
         DiscoverSession \/ DiscoverKnown \/ ResolveViaPrincipal
  PROVE  SeekMeant(seek')
<1> DEFINE to == AskedOnce(seek)
<1>0. SeekFields \subseteq DOMAIN seek /\ seek.faults \in Nat /\ web \in JmapWebs
  BY DEF SeekPaid, SeekMeant
<1>1. SeekFields \subseteq DOMAIN to /\ to.faults = seek.faults
  BY <1>0, MeantFields DEF SeekFields
<1>2. ASSUME NEW r, seek' = Over(to, r), r.kind # "home", r.kind = "account" => AccountOf(r.id)
      PROVE  SeekMeant(seek')
  <2>1. seek'.pc = "over" /\ seek'.result = r /\ seek'.faults = seek.faults
    BY <1>1, <1>2, MeantFields
  <2> QED
    BY <1>0, <1>2, <2>1 DEF SeekMeant
<1>3. ASSUME NEW at, at # "over", seek' = [to EXCEPT !.pc = at]
      PROVE  SeekMeant(seek')
  <2> HIDE DEF to
  <2>1. seek'.pc = at /\ seek'.faults = seek.faults
    BY <1>1, <1>3 DEF SeekFields
  <2> QED
    BY <1>0, <1>3, <2>1, MeantOnTheWay
<1>4. ASSUME seek' = ToAccount(to) PROVE SeekMeant(seek')
  <2> DEFINE named == {a \in web.accounts : a.name = WantedName}
  <2>1. \A a \in named : Account(a.id, WantedName) \in web.accounts
    BY <1>0 DEF JmapWebs, Accounts, Account
  <2>2. CASE web.accounts = {}
    BY <1>2, <1>4, <2>2 DEF ToAccount, Failure
  <2>3. CASE web.accounts # {} /\ named # {}
    <3>1. PICK a \in named : seek' = Over(to, [kind |-> "account", id |-> a.id])
      <4>1. (CHOOSE a \in named : TRUE) \in named
        BY <2>3
      <4> QED
        BY <1>4, <2>3, <4>1 DEF ToAccount
    <3> HIDE DEF to, named
    <3> QED
      BY <1>2, <2>1, <3>1 DEF AccountOf
  <2>4. CASE web.accounts # {} /\ named = {} /\ web.capable
    BY <1>3, <1>4, <2>4 DEF ToAccount
  <2>5. CASE web.accounts # {} /\ named = {} /\ ~web.capable
    BY <1>2, <1>4, <2>5 DEF ToAccount, Failure
  <2> QED
    BY <2>2, <2>3, <2>4, <2>5
<1>5. CASE DiscoverSession
  <2>1. seek' = CASE web.direct = "session" -> ToAccount(to)
                  [] web.direct = "auth" -> Over(to, Failure("auth"))
                  [] OTHER -> [to EXCEPT !.pc = "known"]
    BY <1>5 DEF DiscoverSession
  <2> HIDE DEF to
  <2>2. CASE web.direct = "session"
    BY <1>4, <2>1, <2>2
  <2>3. CASE web.direct = "auth"
    BY <1>2, <2>1, <2>3 DEF Failure
  <2>4. CASE web.direct \notin {"session", "auth"}
    BY <1>3, <2>1, <2>4
  <2> QED
    BY <2>2, <2>3, <2>4
<1>6. CASE DiscoverKnown
  <2>1. seek' = CASE web.known = "session" -> ToAccount(to)
                  [] web.known = "auth" -> Over(to, Failure("auth"))
                  [] OTHER -> Over(to, Failure("connect"))
    BY <1>6 DEF DiscoverKnown
  <2> HIDE DEF to
  <2>2. CASE web.known = "session"
    BY <1>4, <2>1, <2>2
  <2>3. CASE web.known # "session"
    BY <1>2, <2>1, <2>3 DEF Failure
  <2> QED
    BY <2>2, <2>3
<1>7. CASE ResolveViaPrincipal
  <2> DEFINE matches == {p \in web.principals : p.name = WantedName}
  <2>1. seek' = Over(to, CASE Cardinality(matches) = 0 -> Failure("unknown")
                            [] Cardinality(matches) = 1 -> ExtractAccountId(CHOOSE p \in matches : TRUE)
                            [] OTHER -> Failure("ambiguous"))
    BY <1>7 DEF ResolveViaPrincipal
  <2> HIDE DEF to
  <2>2. IsFiniteSet(web.principals) /\ \A p \in web.principals : IsFiniteSet(p.accounts)
    <3>1. web.principals \in Principals
      BY <1>0 DEF JmapWebs
    <3>2. \A x, y : IsFiniteSet({x}) /\ IsFiniteSet({x, y})
      <4> TAKE x, y
      <4>1. IsFiniteSet({x})
        BY FS_Singleton
      <4>2. IsFiniteSet({x} \union {y})
        BY <4>1, FS_AddElement
      <4>3. {x, y} = {x} \union {y}
        OBVIOUS
      <4> QED
        BY <4>1, <4>2, <4>3
    <3>3. IsFiniteSet({})
      BY FS_EmptySet
    <3>4. IsFiniteSet(web.principals)
      <4>1. \A S \in Principals : S = {} \/ (\E x : S = {x}) \/ (\E x, y : S = {x, y})
        BY Zenon DEF Principals
      <4>2. CASE web.principals = {}
        BY <3>3, <4>2
      <4>3. CASE \E x, y : web.principals = {x} \/ web.principals = {x, y}
        <5>1. PICK x, y : web.principals = {x} \/ web.principals = {x, y}
          BY <4>3
        <5>2. IsFiniteSet({x}) /\ IsFiniteSet({x, y})
          BY <3>2
        <5> QED
          BY <5>1, <5>2
      <4> QED
        BY <3>1, <4>1, <4>2, <4>3
    <3>5. ASSUME NEW p \in web.principals PROVE IsFiniteSet(p.accounts)
      <4> DEFINE box == Account(3, "box")  user == Account(4, "user")  users == Account(5, "users")
      <4>1. p \in {Principal("user", {box}), Principal("user", {box, user}), Principal("user", {}),
                   Principal("user", {user}), Principal("users", {users})}
        BY <3>1, <3>5 DEF Principals
      <4>2. \A n, S : Principal(n, S).accounts = S
        BY DEF Principal
      <4>3. IsFiniteSet({box}) /\ IsFiniteSet({user}) /\ IsFiniteSet({users}) /\ IsFiniteSet({box, user})
        BY <3>2
      <4> HIDE DEF box, user, users
      <4>4. p.accounts \in {{box}, {box, user}, {}, {user}, {users}}
        BY <4>1, <4>2
      <4> QED
        BY <3>3, <4>3, <4>4
    <3> QED
      BY <3>4, <3>5
  <2>3. CASE Cardinality(matches) = 0
    BY <1>2, <2>1, <2>3 DEF Failure
  <2>4. CASE Cardinality(matches) = 1
    <3>1. PICK p : matches = {p}
      BY <2>2, <2>4, FS_Subset, FS_Singleton
    <3>2. (CHOOSE q \in matches : TRUE) = p
      BY <3>1
    <3>3. seek' = Over(to, ExtractAccountId(p))
      <4> DEFINE result == CASE Cardinality(matches) = 0 -> Failure("unknown")
                             [] Cardinality(matches) = 1 -> ExtractAccountId(CHOOSE q \in matches : TRUE)
                             [] OTHER -> Failure("ambiguous")
      <4>1. result = ExtractAccountId(CHOOSE q \in matches : TRUE)
        <5> HIDE DEF matches
        <5> QED
          BY <2>4
      <4> QED
        BY <2>1, <3>2, <4>1
    <3>4. ASSUME ExtractAccountId(p).kind = "account"
          PROVE  \E a \in p.accounts : a.id = ExtractAccountId(p).id
      <4> DEFINE named == {a \in p.accounts : a.name = WantedName}
      <4>1. CASE Cardinality(p.accounts) = 1
        <5>1. p.accounts # {}
          BY <4>1, FS_EmptySet
        <5> QED
          BY <4>1, <5>1 DEF ExtractAccountId
      <4>2. CASE Cardinality(p.accounts) # 1 /\ named # {}
        <5>1. (CHOOSE a \in named : TRUE) \in named
          BY <4>2
        <5> QED
          BY <4>2, <5>1 DEF ExtractAccountId
      <4>3. CASE Cardinality(p.accounts) # 1 /\ named = {}
        BY <3>4, <4>3 DEF ExtractAccountId
      <4> QED
        BY <4>1, <4>2, <4>3
    <3>5. ExtractAccountId(p).kind # "home"
      BY DEF ExtractAccountId
    <3>6. ExtractAccountId(p).kind = "account" => AccountOf(ExtractAccountId(p).id)
      BY <3>1, <3>4 DEF AccountOf
    <3> QED
      BY <1>2, <3>3, <3>5, <3>6
  <2>5. CASE Cardinality(matches) \notin {0, 1}
    BY <1>2, <2>1, <2>5 DEF Failure
  <2> QED
    BY <2>3, <2>4, <2>5
<1> QED
  BY <1>5, <1>6, <1>7

(* A request that fails excuses what is overlooked, but not what is found. *)
LEMMA SeekFailsMeant ==
  ASSUME SeekPaid(seek), SeekMeant(seek), SeekFails
  PROVE  SeekMeant(seek')
<1> DEFINE to == [AskedOnce(seek) EXCEPT !.faults = @ + 1]
<1>0. SeekFields \subseteq DOMAIN seek /\ seek.faults \in Nat
  BY DEF SeekPaid, SeekMeant
<1>1. SeekFields \subseteq DOMAIN to /\ to.faults = seek.faults + 1 /\ to.pc = seek.pc
  BY <1>0 DEF SeekFields, AskedOnce
<1>2. ASSUME seek'.faults = seek.faults + 1,
             seek'.pc = "over" => \/ seek'.result.kind \notin {"home", "account"}
                                  \/ seek'.result.kind = "home" /\ seek'.result.at = FinalUrl(seek'.result.home)
      PROVE  SeekMeant(seek')
  BY <1>0, <1>2 DEF SeekMeant
<1>3. \/ seek' = [to EXCEPT !.pc = "v1"] \/ seek' = [to EXCEPT !.pc = "known"]
      \/ seek' = Skip(to) \/ seek' = NotHere(to)
      \/ \E r : seek' = Over(to, r) /\ r.kind \notin {"home", "account"}
      \/ seek' = Found(to, seek.place, seek.place)
  BY DEF SeekFails, Failure
<1> HIDE DEF to
<1>4. ASSUME NEW r, r.kind \notin {"home", "account"}
      PROVE  Over(to, r).faults = seek.faults + 1 /\ Over(to, r).result = r
  BY <1>1, MeantFields
<1>5. CASE seek' = [to EXCEPT !.pc = "v1"] \/ seek' = [to EXCEPT !.pc = "known"]
  <2>1. seek'.faults = seek.faults + 1 /\ seek'.pc # "over"
    BY <1>1, <1>5 DEF SeekFields
  <2> QED
    BY <1>2, <2>1
<1>6. CASE seek' = Skip(to)
  BY <1>1, <1>2, <1>6, MeantFields
<1>7. CASE seek' = NotHere(to)
  <2>1. \/ seek' = Over(to, Failure("notFound"))
        \/ seek' = [to EXCEPT !.via = "principal", !.pc = "props"]
        \/ seek' = [to EXCEPT !.known = TRUE, !.place = WellKnown(UserUrl), !.pc = "props"]
        \/ seek' = [to EXCEPT !.via = "url", !.place = WellKnown(UserUrl), !.pc = "list"]
    BY <1>7 DEF NotHere
  <2>2. CASE seek' = Over(to, Failure("notFound"))
    BY <1>2, <1>4, <2>2 DEF Failure
  <2>3. CASE \/ seek' = [to EXCEPT !.via = "principal", !.pc = "props"]
             \/ seek' = [to EXCEPT !.known = TRUE, !.place = WellKnown(UserUrl), !.pc = "props"]
             \/ seek' = [to EXCEPT !.via = "url", !.place = WellKnown(UserUrl), !.pc = "list"]
    <3>1. seek'.faults = seek.faults + 1 /\ seek'.pc # "over"
      BY <1>1, <2>3 DEF SeekFields
    <3> QED
      BY <1>2, <3>1
  <2> QED
    BY <2>1, <2>2, <2>3
<1>8. CASE \E r : seek' = Over(to, r) /\ r.kind \notin {"home", "account"}
  BY <1>2, <1>4, <1>8
<1>9. CASE seek' = Found(to, seek.place, seek.place)
  <2>1. /\ seek'.faults = seek.faults + 1 /\ seek'.result.kind = "home"
        /\ seek'.result.at = FinalUrl(seek'.result.home)
    BY <1>1, <1>9, MeantFields DEF Found
  <2> QED
    BY <1>2, <2>1
<1> QED
  BY <1>3, <1>5, <1>6, <1>7, <1>8, <1>9

(* Every step of a search leads to what is meant.                          *)
LEMMA SeekMeantStep ==
  SeekPaid(seek) /\ SeekMeant(seek) /\ [SeekNext]_seekVars => SeekMeant(seek)'
<1> SUFFICES ASSUME SeekPaid(seek), SeekMeant(seek), [SeekNext]_seekVars PROVE SeekMeant(seek)'
  OBVIOUS
<1>1. CASE UNCHANGED seekVars
  BY <1>1 DEF seekVars, SeekMeant, EwsLooked, DavSought, AccountOf, Passed, InOrder, FinalUrl, Props, Candidate
<1>2. CASE SeekNext
  <2>1. UNCHANGED web
    BY <1>2 DEF SeekNext, SuppliedUrl, AutodiscoverV2, AutodiscoverV1, FollowUrl, NoCandidateLeft, ListUrl,
           ResolvePrincipal, FindPrincipal, FindHome, ListHome, DiscoverSession, DiscoverKnown,
           ResolveViaPrincipal, SeekFails
  <2>2. /\ web.kind = "ews" => seek.pc \in {"supplied", "v2", "v1", "hop", "over"}
        /\ web.kind = "dav" => seek.pc \in {"list", "whose", "props", "home", "over"}
        /\ web.kind = "jmap" => seek.pc \in {"session", "known", "resolve", "over"}
        /\ web.kind \in {"ews", "dav", "jmap"}
    BY DEF SeekPaid, EwsPaid, DavPaid, JmapPaid
  <2>3. SeekMeant(seek')
    <3>1. CASE SuppliedUrl \/ AutodiscoverV2 \/ AutodiscoverV1 \/ FollowUrl \/ NoCandidateLeft
      <4>1. web.kind = "ews"
        BY <2>2, <3>1 DEF SuppliedUrl, AutodiscoverV2, AutodiscoverV1, FollowUrl, NoCandidateLeft, SeekAt
      <4> QED
        BY <3>1, <4>1, EwsLooks
    <3>2. CASE ListUrl \/ ResolvePrincipal \/ FindPrincipal \/ FindHome \/ ListHome
      <4>1. web.kind = "dav"
        BY <2>2, <3>2 DEF ListUrl, ResolvePrincipal, FindPrincipal, FindHome, ListHome, SeekAt
      <4> QED
        BY <3>2, <4>1, DavSeeks
    <3>3. CASE DiscoverSession \/ DiscoverKnown \/ ResolveViaPrincipal
      <4>1. web.kind = "jmap"
        BY <2>2, <3>3 DEF DiscoverSession, DiscoverKnown, ResolveViaPrincipal, SeekAt
      <4> QED
        BY <3>3, <4>1, JmapMeans
    <3> QED
      BY <1>2, <3>1, <3>2, <3>3, SeekFailsMeant DEF SeekNext
  <2> QED
    BY <2>1, <2>3 DEF SeekMeant, EwsLooked, DavSought, AccountOf, Passed, InOrder, FinalUrl, Props
<1> QED
  BY <1>1, <1>2

(* That is what is asked of it. *)
LEMMA MeansFound == SeekMeant(seek) => FoundAsMeant
<1> SUFFICES ASSUME SeekMeant(seek) PROVE FoundAsMeant
  OBVIOUS
<1>1. NothingOverlooked
  BY DEF SeekMeant, NothingOverlooked, EwsLooked, Passed
<1>2. ListedWhereAsked
  BY DEF SeekMeant, ListedWhereAsked, Ended, FinalUrl
<1>3. ReachableFound
  BY DEF SeekMeant, ReachableFound, Ended, DavSought
<1>4. AccountMeant
  BY DEF SeekMeant, AccountMeant, Ended, AccountOf
<1> QED
  BY <1>1, <1>2, <1>3, <1>4 DEF FoundAsMeant

-----------------------------------------------------------------------------
(* A worker of the IMAP pool.  Between two commands nothing is left        *)
(* unread, the folder that is selected is the one the worker believes in,  *)
(* or none; during a command what is left ends with the line that has its  *)
(* tag, and the FETCH responses before it are from the folder of the job.  *)
Folders == Mailboxes \union {NoMailbox}
Endings == {"ok", "no", "busy", "bye", "bad"}
Responding == [kind : Endings \union {"fetch", "torn"}, tag : Nat, from : Folders]
ConnSound(c) ==
  /\ {"up", "selected", "lines"} \subseteq DOMAIN c
  /\ c.up \in BOOLEAN /\ c.selected \in Folders /\ c.lines \in Seq(Responding)
WorkerSound(w) ==
  /\ {"at", "folder", "drops", "busy"} \subseteq DOMAIN w
  /\ w.at \in {"idle", "run", "select", "fetch"}
  /\ w.drops \in 0..JobRetries /\ w.busy \in 0..JobRetries
  /\ w.folder \in Folders /\ (w.at # "idle" => w.folder \in Mailboxes)
TornSound(r) == {"count", "here"} \subseteq DOMAIN r /\ r.count \in 0..MaxTorn /\ r.here \in BOOLEAN
SessionRecords ==
  /\ ConnSound(conn) /\ WorkerSound(worker) /\ TornSound(torn)
  /\ believed \in Folders /\ tag \in Nat /\ taken \in 0..MaxJobs
EndsJob(e, n) == e.kind \in Endings /\ e.tag = n
SessionInStep ==
  /\ worker.at \in {"idle", "run"} => conn.lines = <<>>
  /\ worker.at # "select" => conn.selected \in {NoMailbox, believed}
  /\ worker.at = "select" =>
       /\ Len(conn.lines) = 1 /\ EndsJob(conn.lines[1], tag)
       /\ conn.selected = IF conn.lines[1].kind = "ok" THEN worker.folder ELSE NoMailbox
  /\ worker.at = "fetch" =>
       /\ believed = worker.folder
       /\ Len(conn.lines) >= 1 /\ EndsJob(conn.lines[Len(conn.lines)], tag)
       /\ \A i \in 1..(Len(conn.lines) - 1) : conn.lines[i].kind = "fetch" /\ conn.lines[i].from = worker.folder
SessionTalk == SessionRecords /\ (torn.here \/ SessionInStep) /\ AnswersMatch

(* A worker begins without a connection.                                   *)
LEMMA SessionTalksInitially == SessionInit \/ NoSession => SessionTalk
<1> SUFFICES ASSUME SessionInit \/ NoSession PROVE SessionTalk
  OBVIOUS
<1>1. SessionStart /\ taken \in 0..MaxJobs
  BY JobBoundsAssumption DEF SessionInit, NoSession
<1>2. ConnSound(conn) /\ conn.lines = <<>> /\ conn.selected = NoMailbox
  BY <1>1 DEF SessionStart, NoConn, ConnSound, Folders
<1>3. WorkerSound(worker) /\ worker.at = "idle"
  BY <1>1, JobBoundsAssumption DEF SessionStart, NoJob, WorkerSound, Folders
<1>4. TornSound(torn)
  BY <1>1, JobBoundsAssumption DEF SessionStart, TornSound
<1>5. believed = NoMailbox /\ tag = 0 /\ AnswersMatch
  BY <1>1 DEF SessionStart, Nothing, AnswersMatch
<1> QED
  BY <1>1, <1>2, <1>3, <1>4, <1>5 DEF SessionTalk, SessionRecords, SessionInStep, Folders

(* The response to a FETCH, whole.                                         *)
LEMMA ResponsesWhole ==
  ASSUME NEW f \in Mailboxes, NEW n \in Nat, NEW e \in Responding,
         NEW r, r = [i \in 1..n |-> Fetched(f)] \o <<e>>
  PROVE  /\ r \in Seq(Responding) /\ Len(r) = n + 1 /\ r[n + 1] = e
         /\ \A i \in 1..n : r[i].kind = "fetch" /\ r[i].from = f
<1> DEFINE s == [i \in 1..n |-> Fetched(f)]
<1>1. Fetched(f) \in Responding /\ Fetched(f).kind = "fetch" /\ Fetched(f).from = f
  BY DEF Fetched, Responding, Folders
<1>2. s \in Seq(Responding) /\ Len(s) = n /\ \A i \in 1..n : s[i] = Fetched(f)
  BY <1>1
<1>3. <<e>> \in Seq(Responding) /\ Len(<<e>>) = 1 /\ <<e>>[1] = e
  OBVIOUS
<1> HIDE DEF s
<1>4. /\ s \o <<e>> \in Seq(Responding) /\ Len(s \o <<e>>) = n + 1
      /\ \A i \in 1..(n + 1) : (s \o <<e>>)[i] = IF i <= n THEN s[i] ELSE <<e>>[i - n]
  BY <1>2, <1>3, ConcatProperties
<1>5. (s \o <<e>>)[n + 1] = e
  BY <1>3, <1>4
<1>6. \A i \in 1..n : (s \o <<e>>)[i] = Fetched(f)
  BY <1>2, <1>4
<1>7. r = s \o <<e>>
  BY DEF s
<1> QED
  BY <1>1, <1>4, <1>5, <1>6, <1>7

(* What is sent is never empty, and a line of it may be one that cannot be *)
(* parsed.                                                                 *)
LEMMA AnsweredSound ==
  ASSUME SessionRecords, NEW r \in Seq(Responding), Answered(r)
  PROVE  /\ ConnSound(conn') /\ TornSound(torn') /\ conn'.selected = conn.selected
         /\ torn'.here \/ (UNCHANGED torn /\ conn'.lines = conn.lines \o r)
<1>1. Unparsed \in Responding
  BY DEF Unparsed, Responding, Folders
<1>2. CASE conn' = [conn EXCEPT !.lines = @ \o r] /\ UNCHANGED torn
  <2>1. conn.lines \o r \in Seq(Responding)
    BY ConcatProperties DEF SessionRecords, ConnSound
  <2> QED
    BY <1>2, <2>1 DEF SessionRecords, ConnSound
<1>3. CASE /\ torn.count < MaxTorn /\ torn' = [count |-> torn.count + 1, here |-> TRUE]
           /\ \E i \in DOMAIN r : conn' = [conn EXCEPT !.lines = @ \o ReplaceAt(r, i, Unparsed)]
  <2>1. PICK i \in DOMAIN r : conn' = [conn EXCEPT !.lines = @ \o ReplaceAt(r, i, Unparsed)]
    BY <1>3
  <2>2. ReplaceAt(r, i, Unparsed) \in Seq(Responding)
    BY <1>1 DEF ReplaceAt
  <2>3. conn.lines \o ReplaceAt(r, i, Unparsed) \in Seq(Responding)
    BY <2>2, ConcatProperties DEF SessionRecords, ConnSound
  <2>4. TornSound(torn') /\ torn'.here
    BY <1>3, JobBoundsAssumption DEF SessionRecords, TornSound
  <2> QED
    BY <2>1, <2>3, <2>4 DEF SessionRecords, ConnSound
<1> QED
  BY <1>2, <1>3 DEF Answered

(* Every step of the worker and of its connection keeps them in step.      *)
LEMMA SessionTalkStep == SessionTalk /\ [SessionNext]_sessionVars => SessionTalk'
<1> SUFFICES ASSUME SessionTalk, [SessionNext]_sessionVars PROVE SessionTalk'
  OBVIOUS
<1> USE MailboxAssumption, JobBoundsAssumption
<1>r. /\ SessionRecords /\ (torn.here \/ SessionInStep) /\ AnswersMatch
      /\ ConnSound(conn) /\ WorkerSound(worker) /\ TornSound(torn)
      /\ believed \in Folders /\ tag \in Nat /\ taken \in 0..MaxJobs
  BY DEF SessionTalk, SessionRecords
<1>e. <<>> \in Seq(Responding)
  OBVIOUS
<1>j. WorkerSound(NoJob) /\ NoJob.at = "idle"
  BY DEF NoJob, WorkerSound, Folders
<1>c. ConnSound(NoConn) /\ NoConn.lines = <<>> /\ NoConn.selected = NoMailbox
  BY <1>e DEF NoConn, ConnSound, Folders
<1>u. \A k \in Endings : /\ Tagged(k) \in Responding /\ Tagged(k).kind = k /\ Tagged(k).tag = tag + 1
  BY <1>r DEF Tagged, Responding, Folders
(* A step that leaves the worker between two commands.                     *)
<1>b. ASSUME ConnSound(conn'), WorkerSound(worker'), TornSound(torn'), believed' \in Folders, tag' \in Nat,
             taken' \in 0..MaxJobs, UNCHANGED filed, worker'.at \in {"idle", "run"},
             torn'.here \/ (conn'.lines = <<>> /\ conn'.selected \in {NoMailbox, believed'})
      PROVE  SessionTalk'
  BY <1>b, <1>r DEF SessionTalk, SessionRecords, SessionInStep, AnswersMatch
<1>1. ASSUME NEW f \in Mailboxes, Take(f) PROVE SessionTalk'
  <2>1. /\ worker.at = "idle" /\ taken < MaxJobs /\ taken' = taken + 1
        /\ worker' = [NoJob EXCEPT !.at = "run", !.folder = f]
        /\ UNCHANGED <<conn, believed, tag, torn, filed>>
    BY <1>1 DEF Take
  <2>2. WorkerSound(worker') /\ worker'.at = "run" /\ taken' \in 0..MaxJobs
    BY <1>r, <1>j, <2>1 DEF NoJob, WorkerSound, Folders
  <2> QED
    BY <1>b, <1>r, <2>1, <2>2 DEF SessionInStep
<1>2. CASE Connect
  <2>1. /\ worker.at = "run" /\ conn' = [NoConn EXCEPT !.up = TRUE] /\ believed' = NoMailbox /\ tag' = 0
        /\ torn' = [torn EXCEPT !.here = FALSE] /\ UNCHANGED <<worker, taken, filed>>
    BY <1>2 DEF Connect
  <2>2. ConnSound(conn') /\ conn'.lines = <<>> /\ conn'.selected = NoMailbox
    BY <1>e, <2>1 DEF NoConn, ConnSound, Folders
  <2>3. TornSound(torn') /\ believed' \in Folders
    BY <1>r, <2>1 DEF TornSound, Folders
  <2> QED
    BY <1>b, <1>r, <2>1, <2>2, <2>3
<1>3. CASE ConnectFails
  <2>1. /\ worker.at = "run" /\ UNCHANGED <<conn, believed, tag, taken, torn, filed>>
        /\ \/ worker' = NoJob
           \/ worker.drops < JobRetries /\ worker' = [worker EXCEPT !.drops = @ + 1]
    BY <1>3 DEF ConnectFails, JobEnds
  <2>2. WorkerSound(worker') /\ worker'.at \in {"idle", "run"}
    BY <1>r, <1>j, <2>1 DEF WorkerSound
  <2> QED
    BY <1>b, <1>r, <2>1, <2>2 DEF SessionInStep
<1>4. CASE SendSelect
  <2>1. /\ worker.at = "run" /\ tag' = tag + 1 /\ worker' = [worker EXCEPT !.at = "select"]
        /\ UNCHANGED <<believed, taken, filed>>
    BY <1>4 DEF SendSelect
  <2>2. /\ WorkerSound(worker') /\ worker'.at = "select" /\ worker'.folder = worker.folder
        /\ worker.folder \in Mailboxes /\ worker.folder \in Folders
    BY <1>r, <2>1 DEF WorkerSound, Folders
  <2>3. PICK k \in Verdicts :
          LET now == IF k = "ok" THEN worker.folder ELSE NoMailbox
          IN  \/ /\ conn' = [conn EXCEPT !.selected = now, !.lines = Append(@, Tagged(k))]
                 /\ UNCHANGED torn
              \/ /\ torn.count < MaxTorn
                 /\ torn' = [count |-> torn.count + 1, here |-> TRUE]
                 /\ \E response \in {<<Unparsed>>, <<Unparsed, Tagged(k)>>} :
                      conn' = [conn EXCEPT !.selected = now, !.lines = @ \o response]
    BY <1>4 DEF SendSelect
  <2> DEFINE now == IF k = "ok" THEN worker.folder ELSE NoMailbox
  <2>4. now \in Folders /\ k \in Endings
    BY <2>2 DEF Folders, Verdicts, Endings
  <2>5. AnswersMatch'
    BY <1>r, <2>1 DEF AnswersMatch
  <2>6. CASE conn' = [conn EXCEPT !.selected = now, !.lines = Append(@, Tagged(k))] /\ UNCHANGED torn
    <3>1. Append(conn.lines, Tagged(k)) \in Seq(Responding)
      BY <1>r, <1>u, <2>4 DEF ConnSound
    <3>2. ConnSound(conn') /\ conn'.selected = now /\ conn'.lines = Append(conn.lines, Tagged(k))
      BY <1>r, <2>4, <2>6, <3>1 DEF ConnSound
    <3>3. ASSUME ~torn.here PROVE SessionInStep'
      <4>1. conn.lines = <<>>
        BY <1>r, <2>1, <3>3 DEF SessionInStep
      <4>2. Len(conn'.lines) = 1 /\ conn'.lines[1] = Tagged(k)
        BY <3>2, <4>1
      <4>3. EndsJob(conn'.lines[1], tag')
        BY <1>u, <2>1, <2>4, <4>2 DEF EndsJob
      <4>4. conn'.lines[1].kind = k
        BY <1>u, <2>4, <4>2
      <4> QED
        BY <2>2, <3>2, <4>2, <4>3, <4>4 DEF SessionInStep
    <3> QED
      BY <1>r, <2>1, <2>2, <2>5, <2>6, <3>2, <3>3 DEF SessionTalk, SessionRecords
  <2>7. CASE /\ torn.count < MaxTorn /\ torn' = [count |-> torn.count + 1, here |-> TRUE]
             /\ \E response \in {<<Unparsed>>, <<Unparsed, Tagged(k)>>} :
                  conn' = [conn EXCEPT !.selected = now, !.lines = @ \o response]
    <3>1. PICK response \in {<<Unparsed>>, <<Unparsed, Tagged(k)>>} :
            conn' = [conn EXCEPT !.selected = now, !.lines = @ \o response]
      BY <2>7
    <3>2. Unparsed \in Responding /\ Tagged(k) \in Responding
      BY <1>u, <2>4 DEF Unparsed, Responding, Folders
    <3>3. response \in Seq(Responding)
      <4>1. (\A x \in Responding : <<x>> \in Seq(Responding)) /\ (\A x, y \in Responding : <<x, y>> \in Seq(Responding))
        OBVIOUS
      <4> QED
        BY <3>1, <3>2, <4>1
    <3>4. conn.lines \o response \in Seq(Responding)
      BY <1>r, <3>3, ConcatProperties DEF ConnSound
    <3>5. ConnSound(conn')
      BY <1>r, <2>4, <3>1, <3>4 DEF ConnSound
    <3>6. TornSound(torn') /\ torn'.here
      BY <1>r, <2>7 DEF TornSound
    <3> QED
      BY <1>r, <2>1, <2>2, <2>5, <3>5, <3>6 DEF SessionTalk, SessionRecords
  <2> QED
    BY <2>3, <2>6, <2>7
<1>5. CASE SendFetch
  <2>1. /\ worker.at = "run" /\ believed = worker.folder /\ tag' = tag + 1
        /\ worker' = [worker EXCEPT !.at = "fetch"] /\ UNCHANGED <<believed, taken, filed>>
    BY <1>5 DEF SendFetch
  <2>2. /\ WorkerSound(worker') /\ worker'.at = "fetch" /\ worker'.folder = worker.folder
        /\ worker.folder \in Mailboxes
    BY <1>r, <2>1 DEF WorkerSound
  <2>3. PICK response : /\ Answered(response)
                        /\ \/ conn.selected = NoMailbox /\ response = <<Tagged("bad")>>
                           \/ /\ conn.selected # NoMailbox
                              /\ \E n \in 0..MaxLines, k \in Verdicts : response = Response(n, k)
    <3>1. CASE conn.selected = NoMailbox
      BY <1>5, <3>1 DEF SendFetch
    <3>2. CASE conn.selected # NoMailbox
      <4>1. PICK n \in 0..MaxLines, k \in Verdicts : Answered(Response(n, k))
        BY <1>5, <3>2 DEF SendFetch
      <4> QED
        BY <3>2, <4>1
    <3> QED
      BY <3>1, <3>2
  <2>4. /\ response \in Seq(Responding) /\ Len(response) >= 1
        /\ response[Len(response)].kind \in Endings /\ response[Len(response)].tag = tag + 1
        /\ \A i \in 1..(Len(response) - 1) : response[i].kind = "fetch" /\ response[i].from = conn.selected
    <3>1. CASE response = <<Tagged("bad")>>
      BY <1>u, <3>1 DEF Endings
    <3>2. CASE conn.selected # NoMailbox /\ \E n \in 0..MaxLines, k \in Verdicts : response = Response(n, k)
      <4>1. PICK n \in 0..MaxLines, k \in Verdicts : response = Response(n, k)
        BY <3>2
      <4>2. conn.selected \in Mailboxes /\ n \in Nat /\ k \in Endings /\ Tagged(k) \in Responding
        BY <1>r, <1>u, <3>2 DEF ConnSound, Folders, Verdicts, Endings
      <4>3. /\ response \in Seq(Responding) /\ Len(response) = n + 1 /\ response[n + 1] = Tagged(k)
            /\ \A i \in 1..n : response[i].kind = "fetch" /\ response[i].from = conn.selected
        BY <4>1, <4>2, ResponsesWhole DEF Response
      <4> QED
        BY <1>u, <4>2, <4>3
    <3> QED
      BY <2>3, <3>1, <3>2
  <2>5. /\ ConnSound(conn') /\ TornSound(torn') /\ conn'.selected = conn.selected
        /\ torn'.here \/ (UNCHANGED torn /\ conn'.lines = conn.lines \o response)
    BY <1>r, <2>3, <2>4, AnsweredSound
  <2>6. ASSUME ~torn'.here PROVE SessionInStep'
    <3>1. SessionInStep /\ conn.lines = <<>> /\ conn.selected \in {NoMailbox, worker.folder}
      BY <1>r, <2>1, <2>5, <2>6 DEF SessionInStep
    <3>2. conn'.lines = response
      BY <2>4, <2>5, <2>6, <3>1
    <3>3. EndsJob(conn'.lines[Len(conn'.lines)], tag')
      BY <2>1, <2>4, <3>2 DEF EndsJob
    <3>4. \A i \in 1..(Len(conn'.lines) - 1) : conn'.lines[i].kind = "fetch" /\ conn'.lines[i].from = worker'.folder
      <4>1. CASE conn.selected = NoMailbox
        <5>1. response = <<Tagged("bad")>>
          BY <2>3, <4>1
        <5>2. Len(conn'.lines) = 1
          BY <5>1, <3>2
        <5> QED
          BY <5>2
      <4>2. CASE conn.selected = worker.folder
        BY <2>2, <2>4, <3>2, <4>2
      <4> QED
        BY <3>1, <4>1, <4>2
    <3> QED
      BY <2>1, <2>2, <2>4, <2>5, <3>1, <3>2, <3>3, <3>4 DEF SessionInStep
  <2>7. AnswersMatch' /\ tag' \in Nat
    BY <1>r, <2>1 DEF AnswersMatch
  <2> QED
    BY <1>r, <2>1, <2>2, <2>5, <2>6, <2>7 DEF SessionTalk, SessionRecords
<1>6. CASE Unsendable
  <2>1. /\ worker.at = "run" /\ worker' = NoJob /\ tag' = tag + 1
        /\ UNCHANGED <<conn, believed, taken, torn, filed>>
    BY <1>6 DEF Unsendable, JobEnds
  <2> QED
    BY <1>b, <1>r, <1>j, <2>1 DEF SessionInStep
(* Reading takes the first line off; if that is no FETCH response, the     *)
(* response has ended.                                                     *)
<1>t. ASSUME NEW kinds, Reads(kinds)
      PROVE  /\ worker.at \in {"select", "fetch"} /\ Head(conn.lines).kind \in kinds
             /\ ConnSound(conn') /\ conn'.lines = Tail(conn.lines) /\ conn'.selected = conn.selected
             /\ Len(conn.lines) \in Nat /\ Len(conn.lines) >= 1 /\ Head(conn.lines) = conn.lines[1]
             /\ Len(conn'.lines) = Len(conn.lines) - 1
             /\ \A i \in 1..(Len(conn.lines) - 1) : conn'.lines[i] = conn.lines[i + 1]
  <2>1. /\ worker.at \in {"select", "fetch"} /\ conn.lines # <<>> /\ Head(conn.lines).kind \in kinds
        /\ conn' = [conn EXCEPT !.lines = Tail(@)]
    BY <1>t DEF Reads
  <2>2. /\ Tail(conn.lines) \in Seq(Responding) /\ Len(conn.lines) \in Nat /\ Len(conn.lines) >= 1
        /\ Len(Tail(conn.lines)) = Len(conn.lines) - 1 /\ Head(conn.lines) = conn.lines[1]
        /\ \A i \in 1..(Len(conn.lines) - 1) : Tail(conn.lines)[i] = conn.lines[i + 1]
    BY <1>r, <2>1 DEF ConnSound
  <2> QED
    BY <1>r, <2>1, <2>2 DEF ConnSound
<1>f. ASSUME SessionInStep, worker.at \in {"select", "fetch"}, Len(conn.lines) \in Nat, Len(conn.lines) >= 1,
             conn.lines[1].kind # "fetch"
      PROVE  Len(conn.lines) = 1 /\ EndsJob(conn.lines[1], tag)
  <2>1. CASE worker.at = "select"
    BY <1>f, <2>1 DEF SessionInStep
  <2>2. CASE worker.at = "fetch"
    <3>1. ~(1 \in 1..(Len(conn.lines) - 1))
      BY <1>f, <2>2 DEF SessionInStep
    <3>2. Len(conn.lines) = 1
      <4>1. Len(conn.lines) \in Nat /\ Len(conn.lines) >= 1
        BY <1>f
      <4>2. \A n \in Nat : n >= 1 /\ ~(1 \in 1..(n - 1)) => n = 1
        OBVIOUS
      <4> QED
        BY <3>1, <4>1, <4>2
    <3> QED
      BY <1>f, <2>2, <3>2 DEF SessionInStep
  <2> QED
    BY <1>f, <2>1, <2>2
<1>7. CASE ReadItem
  <2>1. /\ Reads({"fetch"}) /\ UNCHANGED <<believed, tag, worker, taken, torn>>
        /\ filed' = IF worker.at = "select" THEN filed
                    ELSE [under |-> worker.folder, from |-> Head(conn.lines).from, doubtful |-> torn.here]
    BY <1>7 DEF ReadItem
  <2>2. ASSUME ~torn.here
        PROVE  worker.at = "fetch" /\ Head(conn.lines).from = worker.folder /\ SessionInStep'
    <3>1. SessionInStep /\ conn.lines[1].kind = "fetch"
      BY <1>r, <1>t, <2>1, <2>2
    <3>2. worker.at = "fetch"
      BY <1>t, <2>1, <3>1 DEF SessionInStep, EndsJob, Endings
    <3>3. Len(conn.lines) >= 2
      BY <1>t, <2>1, <3>1, <3>2 DEF SessionInStep, EndsJob, Endings
    <3>4. /\ conn.lines[1].from = worker.folder
          /\ \A i \in 1..(Len(conn'.lines) - 1) : conn'.lines[i].kind = "fetch" /\ conn'.lines[i].from = worker.folder
          /\ conn'.lines[Len(conn'.lines)] = conn.lines[Len(conn.lines)]
      <4>1. /\ Len(conn.lines) \in Nat /\ Len(conn'.lines) = Len(conn.lines) - 1
            /\ \A i \in 1..(Len(conn.lines) - 1) : conn'.lines[i] = conn.lines[i + 1]
        BY <1>t, <2>1
      <4>2. \A i \in 1..(Len(conn.lines) - 1) : conn.lines[i].kind = "fetch" /\ conn.lines[i].from = worker.folder
        BY <3>1, <3>2 DEF SessionInStep
      <4>3. 1 \in 1..(Len(conn.lines) - 1) /\ Len(conn.lines) - 1 \in 1..(Len(conn.lines) - 1)
        BY <3>3, <4>1
      <4>4. conn'.lines[Len(conn.lines) - 1] = conn.lines[(Len(conn.lines) - 1) + 1]
        BY <4>1, <4>3
      <4>5. (Len(conn.lines) - 1) + 1 = Len(conn.lines)
        BY <4>1
      <4>6. ASSUME NEW i \in 1..(Len(conn'.lines) - 1)
            PROVE  conn'.lines[i].kind = "fetch" /\ conn'.lines[i].from = worker.folder
        <5>1. i \in 1..(Len(conn.lines) - 1) /\ i + 1 \in 1..(Len(conn.lines) - 1)
          BY <3>3, <4>1, <4>6
        <5> QED
          BY <4>1, <4>2, <5>1
      <4> QED
        BY <4>1, <4>2, <4>3, <4>4, <4>5, <4>6
    <3>5. EndsJob(conn'.lines[Len(conn'.lines)], tag')
      BY <2>1, <3>1, <3>2, <3>4 DEF SessionInStep, EndsJob
    <3>6. Len(conn'.lines) >= 1 /\ conn'.selected = conn.selected
      BY <1>t, <2>1, <3>3
    <3>7. SessionInStep'
      BY <2>1, <3>1, <3>2, <3>4, <3>5, <3>6 DEF SessionInStep
    <3> QED
      BY <1>t, <2>1, <3>2, <3>4, <3>7
  <2>3. AnswersMatch'
    <3>1. CASE worker.at = "select"
      BY <1>r, <2>1, <3>1 DEF AnswersMatch
    <3>2. CASE worker.at # "select" /\ torn.here
      BY <2>1, <3>2 DEF AnswersMatch
    <3>3. CASE worker.at # "select" /\ ~torn.here
      BY <2>1, <2>2, <3>3 DEF AnswersMatch
    <3> QED
      BY <3>1, <3>2, <3>3
  <2> QED
    BY <1>r, <1>t, <2>1, <2>2, <2>3 DEF SessionTalk, SessionRecords
<1>8. CASE ReadOk
  <2>1. /\ Reads({"ok"}) /\ UNCHANGED <<tag, taken, torn, filed>>
        /\ IF worker.at = "select"
           THEN believed' = worker.folder /\ worker' = [worker EXCEPT !.at = "run"]
           ELSE worker' = NoJob /\ UNCHANGED believed
    BY <1>8 DEF ReadOk, JobEnds
  <2>2. WorkerSound(worker') /\ worker'.at \in {"idle", "run"} /\ believed' \in Folders
    BY <1>r, <1>j, <1>t, <2>1 DEF WorkerSound
  <2>3. ASSUME ~torn.here PROVE conn'.lines = <<>> /\ conn'.selected \in {NoMailbox, believed'}
    <3>1. SessionInStep /\ conn.lines[1].kind = "ok"
      BY <1>r, <1>t, <2>1, <2>3
    <3>2. Len(conn.lines) = 1 /\ conn'.lines = <<>>
      <4>1. Len(conn.lines) = 1 /\ Len(conn'.lines) = 0
        <5>1. /\ worker.at \in {"select", "fetch"} /\ Len(conn.lines) \in Nat /\ Len(conn.lines) >= 1
              /\ Len(conn'.lines) = Len(conn.lines) - 1
          BY <1>t, <2>1
        <5>2. Len(conn.lines) = 1
          BY <1>f, <3>1, <5>1
        <5> QED
          BY <5>1, <5>2
      <4> QED
        BY <1>t, <2>1, <4>1 DEF ConnSound
    <3>3. conn'.selected = conn.selected
      BY <1>t, <2>1
    <3> QED
      BY <1>t, <2>1, <3>1, <3>2, <3>3 DEF SessionInStep
  <2> QED
    BY <1>b, <1>r, <1>t, <2>1, <2>2, <2>3
<1>9. CASE ReadBusy \/ ReadError
  <2>1. PICK kinds : Reads(kinds) /\ (SessionInStep => ~("fetch" \in kinds) /\ ~("ok" \in kinds /\ Mine))
    <3>1. ReadBusy => Reads({"busy"})
      BY DEF ReadBusy
    <3>2. ReadError => Reads({"no", "bad"}) \/ (Reads({"ok", "no", "bad", "busy"}) /\ ~Mine) \/ Reads({"torn"})
      BY DEF ReadError
    <3> QED
      BY <1>9, <3>1, <3>2
  <2>2. /\ UNCHANGED <<believed, tag, taken, torn, filed>>
        /\ \/ worker' = NoJob
           \/ worker.busy < JobRetries /\ worker' = [worker EXCEPT !.at = "run", !.busy = @ + 1]
    BY <1>9 DEF ReadBusy, ReadError, JobEnds
  <2>3. WorkerSound(worker') /\ worker'.at \in {"idle", "run"}
    <3>1. CASE worker' = NoJob
      BY <1>j, <3>1
    <3>2. CASE worker.busy < JobRetries /\ worker' = [worker EXCEPT !.at = "run", !.busy = @ + 1]
      <4>1. worker.at # "idle"
        BY <1>t, <2>1
      <4> QED
        BY <1>r, <3>2, <4>1 DEF WorkerSound
    <3> QED
      BY <2>2, <3>1, <3>2
  <2>4. ASSUME ~torn.here PROVE conn'.lines = <<>> /\ conn'.selected \in {NoMailbox, believed'}
    <3>1. SessionInStep /\ conn.lines[1].kind \in kinds /\ conn.lines[1].kind # "fetch"
      BY <1>r, <1>t, <2>1, <2>4
    <3>2. Len(conn.lines) = 1 /\ EndsJob(conn.lines[1], tag) /\ conn'.lines = <<>>
      <4>1. Len(conn.lines) = 1 /\ EndsJob(conn.lines[1], tag) /\ Len(conn'.lines) = 0
        BY <1>f, <1>t, <2>1, <3>1
      <4> QED
        BY <1>t, <2>1, <4>1 DEF ConnSound
    <3>3. conn.lines[1].kind # "ok" /\ conn'.selected = conn.selected
      BY <1>t, <2>1, <3>1, <3>2 DEF Mine, EndsJob
    <3> QED
      BY <1>t, <2>1, <2>2, <3>1, <3>2, <3>3 DEF SessionInStep
  <2> QED
    BY <1>b, <1>r, <1>t, <2>1, <2>2, <2>3, <2>4
<1>10. CASE ReadBye \/ Broken \/ Panic
  <2>1. /\ conn' = NoConn /\ believed' = NoMailbox /\ UNCHANGED <<tag, taken, torn, filed>>
        /\ \/ worker' = NoJob
           \/ /\ worker.at # "idle" /\ worker.drops < JobRetries
              /\ worker' = [worker EXCEPT !.at = "run", !.drops = @ + 1]
    BY <1>10 DEF ReadBye, Broken, Panic, TransportDrop, GiveUpConn, JobEnds
  <2>2. WorkerSound(worker') /\ worker'.at \in {"idle", "run"}
    <3>1. CASE worker' = NoJob
      BY <1>j, <3>1
    <3>2. CASE /\ worker.at # "idle" /\ worker.drops < JobRetries
               /\ worker' = [worker EXCEPT !.at = "run", !.drops = @ + 1]
      BY <1>r, <3>2 DEF WorkerSound
    <3> QED
      BY <2>1, <3>1, <3>2
  <2>3. believed' \in Folders
    BY <2>1 DEF Folders
  <2> QED
    BY <1>b, <1>r, <1>c, <2>1, <2>2, <2>3
<1>11. CASE UNCHANGED sessionVars
  BY <1>11 DEF sessionVars, SessionTalk, SessionRecords, SessionInStep, AnswersMatch, EndsJob
<1> QED
  BY <1>1, <1>2, <1>3, <1>4, <1>5, <1>6, <1>7, <1>8, <1>9, <1>10, <1>11 DEF SessionNext, Working

-----------------------------------------------------------------------------
(* The parts side by side: the one a behaviour is about keeps its          *)
(* invariant, the others stay as they are.                                 *)
PartsInv ==
  /\ IInv /\ SendsInv
  /\ IF part = "seek" THEN SeekPaid(seek) /\ SeekMeant(seek) ELSE NoSeek
  /\ IF part = "calls" THEN RequestsInv ELSE NoCalls
  /\ IF part = "remote" THEN CallsInv ELSE NoRemote
  /\ IF part = "token" THEN TokenInv ELSE NoToken
  /\ IF part = "session" THEN SessionTalk ELSE NoSession
  /\ IF part = "shell" THEN ShellInv /\ ShellTalk ELSE NoShell
  /\ IF part = "login" THEN LoginInv /\ LinesInv ELSE NoLogin

(* Whichever part a behaviour is about, its invariant holds at first.      *)
LEMMA PartsInitially == MCInit => PartsInv
<1> SUFFICES ASSUME MCInit PROVE PartsInv
  OBVIOUS
<1>1. IF part = "remote" THEN CallsInv ELSE NoRemote
  BY CallsInitially DEF MCInit
<1>2. IF part = "token" THEN TokenInv ELSE NoToken
  BY TokenInitially DEF MCInit
<1>3. IF part = "shell" THEN ShellInv /\ ShellTalk ELSE NoShell
  BY ShellInitially, ShellTalksInitially DEF MCInit
<1>4. IF part = "login" THEN LoginInv /\ LinesInv ELSE NoLogin
  BY LoginInitially, LinesInitially DEF MCInit
<1>5. IInv /\ SendsInv
  BY InitIInv, SendsInitially DEF MCInit
<1>6. IF part = "seek" THEN SeekPaid(seek) /\ SeekMeant(seek) ELSE NoSeek
  BY SeekInitially, SeekMeantInitially DEF MCInit
<1>7. IF part = "calls" THEN RequestsInv ELSE NoCalls
  BY RequestsInitially DEF MCInit
<1>8. IF part = "session" THEN SessionTalk ELSE NoSession
  BY SessionTalksInitially DEF MCInit
<1> QED
  BY <1>1, <1>2, <1>3, <1>4, <1>5, <1>6, <1>7, <1>8 DEF PartsInv

(* Every step keeps the invariant of the part that takes it.               *)
LEMMA PartsStep == PartsInv /\ [MCNext]_MCVars => PartsInv'
<1> SUFFICES ASSUME PartsInv, [MCNext]_MCVars PROVE PartsInv'
  OBVIOUS
<1>1. /\ part' = part
      /\ IF part = "remote" THEN [RemoteNext]_remoteVars ELSE UNCHANGED remoteVars
      /\ IF part = "token" THEN [TokenNext]_tokenVars ELSE UNCHANGED tokenVars
      /\ IF part = "session" THEN [SessionNext]_sessionVars ELSE UNCHANGED sessionVars
      /\ IF part = "shell" THEN [ShellNext]_shellVars ELSE UNCHANGED shellVars
      /\ IF part = "login" THEN [LoginNext]_loginVars ELSE UNCHANGED loginVars
      /\ IF part = "seek" THEN [SeekNext]_seekVars ELSE UNCHANGED seekVars
      /\ IF part = "calls" THEN [CallsNext]_callVars ELSE UNCHANGED callVars
      /\ [Next]_vars
  BY DEF MCNext, MCVars, PartVars
<1>2. (IF part = "remote" THEN CallsInv ELSE NoRemote)'
  <2>1. NoRemote /\ UNCHANGED remoteVars => NoRemote'
    BY DEF NoRemote, remoteVars
  <2> QED
    BY <1>1, <2>1, CallsStep DEF PartsInv
<1>3. (IF part = "token" THEN TokenInv ELSE NoToken)'
  <2>1. NoToken /\ UNCHANGED tokenVars => NoToken'
    BY DEF NoToken, tokenVars
  <2> QED
    BY <1>1, <2>1, TokenStep DEF PartsInv
<1>4. (IF part = "shell" THEN ShellInv /\ ShellTalk ELSE NoShell)'
  <2>1. NoShell /\ UNCHANGED shellVars => NoShell'
    BY DEF NoShell, ShellStart, shellVars
  <2> QED
    BY <1>1, <2>1, ShellStep, ShellTalkStep DEF PartsInv
<1>5. (IF part = "login" THEN LoginInv /\ LinesInv ELSE NoLogin)'
  <2>1. NoLogin /\ UNCHANGED loginVars => NoLogin'
    BY DEF NoLogin, loginVars
  <2> QED
    BY <1>1, <2>1, LoginStep, LinesStep DEF PartsInv
<1>6. (IF part = "seek" THEN SeekPaid(seek) /\ SeekMeant(seek) ELSE NoSeek)'
  <2>1. NoSeek /\ UNCHANGED seekVars => NoSeek'
    BY DEF NoSeek, seekVars
  <2> QED
    BY <1>1, <2>1, SeekStep, SeekMeantStep DEF PartsInv
<1>7. (IF part = "calls" THEN RequestsInv ELSE NoCalls)'
  <2>1. NoCalls /\ UNCHANGED callVars => NoCalls'
    BY DEF NoCalls, callVars
  <2> QED
    BY <1>1, <2>1, RequestsStep DEF PartsInv
<1>8. (IInv /\ SendsInv)'
  <2>1. IInv /\ SendsInv /\ TypeOK
    BY DEF PartsInv, IInv
  <2> QED
    BY <1>1, <2>1, IInvStep, SendsKept
<1>9. (IF part = "session" THEN SessionTalk ELSE NoSession)'
  <2>1. NoSession /\ UNCHANGED sessionVars => NoSession'
    BY DEF NoSession, SessionStart, sessionVars
  <2> QED
    BY <1>1, <2>1, SessionTalkStep DEF PartsInv
<1> QED
  BY <1>2, <1>3, <1>4, <1>5, <1>6, <1>7, <1>8, <1>9 DEF PartsInv

(* No credential goes where it should not: over HTTP to no host but its    *)
(* own, and with a token that has not ended; over ManageSieve and IMAP not *)
(* in the clear unless the user said so, and by a mechanism the server     *)
(* offers at that moment, however often a connection is made again.        *)
THEOREM CredentialsHoldCorrect == MCSpec => []CredentialsHold
<1>1. PartsInv => CredentialsHold
  <2> SUFFICES ASSUME PartsInv PROVE CredentialsHold
    OBVIOUS
  <2>1. CredentialsKept
    <3>1. NoRemote => CredentialsKept
      BY DEF NoRemote, CredentialsKept, Fresh
    <3> QED
      BY <3>1, CallsTrusted DEF PartsInv
  <2>2. NotExposed
    BY DEF PartsInv, ShellInv, NoShell, ShellStart, NotExposed
  <2>3. TokenLasts
    <3>1. NoToken => TokenLasts
      BY DEF NoToken, TokenLasts
    <3> QED
      BY <3>1, TokenMadeUp DEF PartsInv
  <2>4. SecretsCovered
    <3>1. NoLogin => SecretsCovered
      <4>1. [LoginStart EXCEPT !.pc = "over"].sent.by = "none"
        BY DEF LoginStart
      <4> QED
        BY <4>1 DEF NoLogin, SecretsCovered
    <3> QED
      BY <3>1 DEF PartsInv, LoginInv
  <2> QED
    BY <2>1, <2>2, <2>3, <2>4 DEF CredentialsHold
<1> QED
  BY <1>1, PartsInitially, PartsStep, PTL DEF MCSpec

(* What goes over the wire is few requests, whatever the servers answer:   *)
(* for a call its retries, redirects and refused versions, for many        *)
(* objects no more than two for each that is sent, besides those that were *)
(* repeated, and for the search of a service one for each place it may be. *)
THEOREM RequestsBoundedCorrect == MCSpec => []RequestsBounded
<1>1. PartsInv => RequestsBounded
  <2> SUFFICES ASSUME PartsInv PROVE RequestsBounded
    OBVIOUS
  <2>1. SendsBounded
    BY SendsWithin DEF PartsInv, IInv
  <2>2. RoundsBounded
    <3>1. ASSUME NoRemote PROVE RoundsBounded
      <4>1. \A c \in Callers : line[c] = Fresh(0)
        BY <3>1 DEF NoRemote
      <4>2. /\ Fresh(0).sends = 0 /\ Fresh(0).tries = 0 /\ Fresh(0).hops = 0
            /\ Fresh(0).lowered = 0 /\ Fresh(0).raised = 0
        BY DEF Fresh
      <4>3. 0 <= 0 + 0 + 0 + 1 /\ 0 <= TopVersion + 0
        BY RetriesAssumption
      <4> QED
        BY <4>1, <4>2, <4>3 DEF RoundsBounded
    <3> QED
      BY <3>1, RoundsWithin DEF PartsInv
  <2>3. SearchBounded
    BY DEF PartsInv, SeekPaid, EwsPaid, DavPaid, JmapPaid, NoSeek, SearchBounded
  <2>4. RequestsFew
    <3>1. ASSUME NoCalls PROVE RequestsFew
      <4>1. call.requests = 0 /\ call.batch = <<>> /\ call.faults = 0
        BY <3>1 DEF NoCalls, AtRest
      <4> QED
        BY <4>1 DEF RequestsFew
    <3> QED
      BY <3>1 DEF PartsInv, RequestsInv, RunOK, WithinBudget, RequestsFew
  <2> QED
    BY <2>1, <2>2, <2>3, <2>4 DEF RequestsBounded
<1> QED
  BY <1>1, PartsInitially, PartsStep, PTL DEF MCSpec

(* What a server sends is taken as the answer to what it was asked for:    *)
(* whatever breaks off, times out or cannot be read, no FETCH response is  *)
(* filed under another folder and no script under another name, an IMAP    *)
(* connection that replaces a lost one is used as what it is, and the      *)
(* search of a service neither overlooks it nor takes another for it.      *)
THEOREM AnsweredAsMeantCorrect == MCSpec => []AnsweredAsMeant
<1>1. PartsInv => AnsweredAsMeant
  <2> SUFFICES ASSUME PartsInv PROVE AnsweredAsMeant
    OBVIOUS
  <2>1. AnswersMatch
    BY SessionTalksInitially DEF PartsInv, SessionTalk
  <2>2. ScriptsMatch
    BY ShellTalksInitially DEF PartsInv, ShellTalk, ShellMatches
  <2>3. LinesAgree
    <3>1. ASSUME NoLogin PROVE LinesAgree
      <4>1. /\ login.pc = "over" /\ login.lapses = 0 /\ login.faults = 0 /\ ~channel.up
        BY <3>1 DEF NoLogin, LoginStart, NoChannel
      <4> QED
        BY <4>1 DEF LinesAgree, LayersAgree, NamesAgree, LapsesForCause, Running, LoginAt
    <3> QED
      BY <3>1, LinesHold DEF PartsInv
  <2>4. FoundAsMeant
    <3>1. NoSeek => FoundAsMeant
      BY DEF NoSeek, FoundAsMeant, NothingOverlooked, ListedWhereAsked, ReachableFound, AccountMeant, Ended
    <3> QED
      BY <3>1, MeansFound DEF PartsInv
  <2> QED
    BY <2>1, <2>2, <2>3, <2>4 DEF AnsweredAsMeant
<1> QED
  BY <1>1, PartsInitially, PartsStep, PTL DEF MCSpec
=============================================================================
