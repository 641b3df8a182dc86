--------------------------- MODULE LifecycleProofs ----------------------------
(* Theorems about Lifecycle, for any numbers of workers and requests and   *)
(* any batch size.                                                         *)
EXTENDS Lifecycle, SequenceTheorems, TLAPS

------------------------------------------------------------------------------
(* The inductive invariant.                                                *)

Depth == Len(stack)

\* The closer serve pushed as the i-th is still registered, or is running.
Held(i, closer) == Depth >= i \/ closing = closer

Quiet == \A g \in Goroutines : pc[g] = "off"

\* What each boot phase has acquired.
BootOrder ==
    /\ main \in {"config", "database"} => Depth = 0 /\ db = "none"
    /\ main = "modules" => Depth = 1 /\ db = "open"
    /\ main \in {"metrics", "router"} => Depth = 2 /\ db = "open"
    /\ main = "serving" => Depth >= 4 /\ db = "open"
    /\ main \notin {"serving", "unwinding", "exited"} =>
         http = "none" /\ admin = "none" /\ limiter = "none"
    /\ main \notin {"unwinding", "exited"} =>
         closing = "none" /\ ~stopClaiming /\ stopErr = "none"
    /\ main \in {"config", "database"} => built = 0 /\ Quiet
    /\ main = "modules" /\ built < Len(BuildOrder) => Quiet

\* The closer that runs is the one above what is left of the stack.
CloserOrder ==
    /\ closing = "database" => Depth = 0
    /\ closing = "dispatcher" => Depth = 1
    /\ closing = "router" => Depth = 2
    /\ closing = "http_server" => Depth = 3
    /\ closing = "metrics_server" => Depth = 4

\* What is acquired has its closer on the stack, or running.
ResourcesHeld ==
    /\ db = "open" => Held(1, "database")
    /\ db = "closing" => Depth = 0 /\ closing = "database"
    /\ db = "closed" => Depth = 0 /\ closing = "none"
    /\ limiter = "running" => Held(3, "router")
    /\ http \in {"starting", "listening"} => Held(4, "http_server")
    /\ http = "draining" => closing = "http_server"
    /\ admin = "listening" => Held(5, "metrics_server")
    /\ \A q \in Requests :
         request[q] # "none" => http \in {"listening", "draining", "timed_out"}
    /\ \A g \in Goroutines : Running(g) =>
         /\ cfg.notifications
         /\ \/ stopErr = "timeout" \/ Held(2, "dispatcher")
            \/ db = "open" /\ (main = "modules" \/ forced)

\* How Stop ended, and what it is blamed for.
StopAccounted ==
    /\ stopErr = "nil" => AllReturned
    /\ abortWork <=> stopErr # "none"
    /\ stopErr # "none" => Depth <= 1 /\ closing # "dispatcher"
    /\ stopErr = "timeout" => failed
    /\ http = "timed_out" => failed
    /\ "dropped" \in stranded => stopErr = "timeout" \/ forced

\* How serve comes to its end.
ExitAccounted ==
    /\ forced => failed /\ main = "exited"
    /\ main \in {"unwinding", "exited"} => failed \/ signalled
    /\ main = "exited" /\ ~forced => Depth = 0 /\ closing = "none"

LifecycleInv ==
    /\ TypeOK /\ BootOrder /\ CloserOrder /\ ResourcesHeld
    /\ StopAccounted /\ ExitAccounted

------------------------------------------------------------------------------
(* The stack.                                                              *)

Closers == {"database", "dispatcher", "router", "http_server", "metrics_server"}

Prefix(n) == SubSeq(Pushed, 1, n)

\* What serve pushes in all:
LEMMA PushedLen == Len(Pushed) = 5
BY DEF Pushed

\* five closers,
LEMMA PushedSeq == Pushed \in Seq(Closers)
BY DEF Pushed, Closers

\* in this order.
LEMMA PushedAt ==
    /\ Pushed[1] = "database" /\ Pushed[2] = "dispatcher" /\ Pushed[3] = "router"
    /\ Pushed[4] = "http_server" /\ Pushed[5] = "metrics_server"
BY DEF Pushed

\* What is registered is a first part of what serve pushes.
LEMMA Prefixes ==
    ASSUME NEW n \in 0 .. 5
    PROVE  /\ Prefix(n) \in Seq(Closers) /\ Len(Prefix(n)) = n
           /\ \A i \in 1 .. n : Prefix(n)[i] = Pushed[i]
<1>1. Pushed \in [1 .. Len(Pushed) -> Closers]
  BY PushedSeq
<1>2. \A i \in 1 .. n : Pushed[i] \in Closers
  BY <1>1, PushedLen
<1>3. /\ SubSeq(Pushed, 1, n) \in Seq(Closers)
      /\ Len(SubSeq(Pushed, 1, n)) = IF 1 <= n THEN n - 1 + 1 ELSE 0
      /\ \A i \in 1 .. n - 1 + 1 : SubSeq(Pushed, 1, n)[i] = Pushed[1 + i - 1]
  BY <1>2, SubSeqProperties
<1> QED BY <1>3 DEF Prefix

\* It is the only sequence of its length that agrees with Pushed.
LEMMA PrefixIs ==
    ASSUME NEW n \in 0 .. 5, NEW s \in Seq(Closers), Len(s) = n,
           \A i \in 1 .. n : s[i] = Pushed[i]
    PROVE  s = Prefix(n)
<1>1. /\ Prefix(n) \in Seq(Closers) /\ Len(Prefix(n)) = n
      /\ \A i \in 1 .. n : Prefix(n)[i] = Pushed[i]
  BY Prefixes
<1>2. Len(s) = Len(Prefix(n)) /\ \A i \in 1 .. Len(s) : s[i] = Prefix(n)[i]
  BY <1>1
<1> QED BY <1>1, <1>2, SeqEqual

\* Shutdown takes the last closer.
LEMMA PopPrefix ==
    ASSUME NEW m \in 0 .. 4
    PROVE  /\ Prefix(m + 1)[m + 1] = Pushed[m + 1]
           /\ SubSeq(Prefix(m + 1), 1, m) = Prefix(m)
<1> DEFINE p == Prefix(m + 1)
           s == SubSeq(p, 1, m)
<1>0. m + 1 \in 0 .. 5 /\ m \in 0 .. 5
  OBVIOUS
<1>1. /\ p \in Seq(Closers) /\ Len(p) = m + 1
      /\ \A i \in 1 .. m + 1 : p[i] = Pushed[i]
  BY <1>0, Prefixes
<1> HIDE DEF p
<1>2. \A i \in 1 .. m : p[i] \in Closers
  <2>1. p \in [1 .. Len(p) -> Closers]
    BY <1>1
  <2> QED BY <1>1, <2>1
<1>3. /\ s \in Seq(Closers)
      /\ Len(s) = IF 1 <= m THEN m - 1 + 1 ELSE 0
      /\ \A i \in 1 .. m - 1 + 1 : s[i] = p[1 + i - 1]
  BY <1>2, SubSeqProperties
<1> HIDE DEF s
<1>4. Len(s) = m /\ \A i \in 1 .. m : s[i] = Pushed[i]
  BY <1>1, <1>3
<1>5. s = Prefix(m)
  BY <1>0, <1>3, <1>4, PrefixIs
<1> QED BY <1>1, <1>5 DEF s, p

\* serve pushes in the order of Pushed.
LEMMA PushDatabase == <<>> = Prefix(0) /\ <<"database">> = Prefix(1)
<1>1. <<>> \in Seq(Closers) /\ Len(<<>>) = 0
  OBVIOUS
<1>2. <<"database">> \in Seq(Closers) /\ Len(<<"database">>) = 1
  BY DEF Closers
<1>3. <<"database">>[1] = Pushed[1]
  BY PushedAt
<1>4. 0 \in 0 .. 5 /\ 1 \in 0 .. 5 /\ 1 .. 0 = {} /\ 1 .. 1 = {1}
  OBVIOUS
<1>5. \A i \in 1 .. 1 : <<"database">>[i] = Pushed[i]
  BY <1>3, <1>4
<1> QED BY <1>1, <1>2, <1>4, <1>5, PrefixIs

\* One more closer is one longer a prefix.
LEMMA PushOne ==
    ASSUME NEW m \in 0 .. 4, NEW c \in Closers, c = Pushed[m + 1]
    PROVE  Append(Prefix(m), c) = Prefix(m + 1)
<1> DEFINE p == Prefix(m)
           s == Append(p, c)
<1>0. m + 1 \in 0 .. 5 /\ m \in 0 .. 5
  OBVIOUS
<1>1. /\ p \in Seq(Closers) /\ Len(p) = m
      /\ \A i \in 1 .. m : p[i] = Pushed[i]
  BY <1>0, Prefixes
<1> HIDE DEF p
<1>2. /\ s \in Seq(Closers) /\ Len(s) = Len(p) + 1
      /\ \A i \in 1 .. Len(p) : s[i] = p[i]
      /\ s[Len(p) + 1] = c
  BY <1>1, AppendProperties
<1> HIDE DEF s
<1>3. Len(s) = m + 1 /\ \A i \in 1 .. m + 1 : s[i] = Pushed[i]
  BY <1>1, <1>2
<1>4. s = Prefix(m + 1)
  BY <1>0, <1>2, <1>3, PrefixIs
<1> QED BY <1>4 DEF s, p

\* Each boot phase that pushes makes a longer first part of it.
LEMMA PushModulesPrefix == Append(Prefix(1), "dispatcher") = Prefix(2)
<1>1. 1 \in 0 .. 4 /\ 1 + 1 = 2
  OBVIOUS
<1>2. "dispatcher" \in Closers /\ "dispatcher" = Pushed[2]
  BY PushedAt DEF Closers
<1> QED BY <1>1, <1>2, PushOne

\* The servers are pushed last, the metrics server only if there is one.
LEMMA PushServers ==
    /\ Append(Append(Prefix(2), "router"), "http_server") = Prefix(4)
    /\ Append(Prefix(4), "metrics_server") = Prefix(5)
<1>1. /\ 2 \in 0 .. 4 /\ 2 + 1 = 3 /\ 3 \in 0 .. 4 /\ 3 + 1 = 4
      /\ 4 \in 0 .. 4 /\ 4 + 1 = 5
  OBVIOUS
<1>2. /\ "router" \in Closers /\ "http_server" \in Closers
      /\ "metrics_server" \in Closers
  BY DEF Closers
<1>3. Append(Prefix(2), "router") = Prefix(3)
  BY <1>1, <1>2, PushedAt, PushOne
<1>4. Append(Prefix(3), "http_server") = Prefix(4)
  BY <1>1, <1>2, PushedAt, PushOne
<1>5. Append(Prefix(4), "metrics_server") = Prefix(5)
  BY <1>1, <1>2, PushedAt, PushOne
<1> QED BY <1>3, <1>4, <1>5

\* The stack is known by its depth.
LEMMA StackIsPrefix ==
    ASSUME TypeOK
    PROVE  Depth \in 0 .. 5 /\ stack = Prefix(Depth)
<1>1. PICK n \in 0 .. 5 : stack = Prefix(n)
  BY PushedLen DEF TypeOK, StackTyped, Prefix
<1> QED BY <1>1, Prefixes DEF Depth

------------------------------------------------------------------------------
(* Steps.                                                                  *)

\* A goroutine of the dispatcher takes a tick,
LEMMA PollKeeps ==
    ASSUME LifecycleInv, NEW g \in Goroutines, Poll(g)
    PROVE  LifecycleInv'
<1> USE DEF boot, servers, serving, goroutines, dispatcher,
            LifecycleInv, Poll, Alive
<1>0. Depth' = Depth /\ Depth \in 0 .. 5
  BY StackIsPrefix DEF Depth
<1>1. TypeOK'
  BY LifecycleAssumption DEF TypeOK, ServingTyped, DispatcherTyped, StackTyped, InHand
<1>2. BootOrder' /\ CloserOrder' /\ ExitAccounted'
  BY <1>0 DEF BootOrder, CloserOrder, ExitAccounted, Quiet, TypeOK,
     ServingTyped, DispatcherTyped
<1>3. ResourcesHeld'
  BY <1>0 DEF ResourcesHeld, Held, Running, TypeOK, ServingTyped,
     DispatcherTyped, BootOrder, CloserOrder, ExitAccounted
<1>4. StopAccounted'
  BY <1>0 DEF StopAccounted, AllReturned, Running, TypeOK, ServingTyped,
     DispatcherTyped, BootOrder, CloserOrder
<1> QED BY <1>1, <1>2, <1>3, <1>4

\* or sees that claiming has stopped.
LEMMA ReturnKeeps ==
    ASSUME LifecycleInv, NEW g \in Goroutines, Return(g)
    PROVE  LifecycleInv'
<1> USE DEF boot, servers, serving, goroutines, dispatcher,
            LifecycleInv, Return, Alive
<1>0. Depth' = Depth /\ Depth \in 0 .. 5
  BY StackIsPrefix DEF Depth
<1>1. TypeOK'
  BY LifecycleAssumption DEF TypeOK, ServingTyped, DispatcherTyped, StackTyped, InHand
<1>2. BootOrder' /\ CloserOrder' /\ ExitAccounted'
  BY <1>0 DEF BootOrder, CloserOrder, ExitAccounted, Quiet, TypeOK,
     ServingTyped, DispatcherTyped
<1>3. ResourcesHeld'
  BY <1>0 DEF ResourcesHeld, Held, Running, TypeOK, ServingTyped,
     DispatcherTyped, BootOrder, CloserOrder, ExitAccounted
<1>4. StopAccounted'
  BY <1>0 DEF StopAccounted, AllReturned, Running, TypeOK, ServingTyped,
     DispatcherTyped, BootOrder, CloserOrder
<1> QED BY <1>1, <1>2, <1>3, <1>4

\* While a goroutine of the dispatcher has work, only a timed-out drain breaks
\* its context or its pool.
LEMMA BrokenByTimeout ==
    ASSUME LifecycleInv, NEW g \in Goroutines, Running(g), Broken
    PROVE  stopErr = "timeout"
<1>1. CASE abortWork
  BY <1>1 DEF LifecycleInv, StopAccounted, AllReturned, TypeOK, DispatcherTyped
<1>2. CASE db \in {"closing", "closed"}
  <2>1. Depth = 0 /\ closing # "dispatcher"
    BY <1>2 DEF LifecycleInv, ResourcesHeld
  <2> QED BY <1>2, <2>1 DEF LifecycleInv, ResourcesHeld, Held
<1> QED BY <1>1, <1>2 DEF Broken

\* A statement that fails drops a row only after the drain has timed out.
LEMMA FailureCause ==
    ASSUME LifecycleInv, NEW g \in Goroutines, Running(g)
    PROVE  /\ StatementFails \subseteq {"unsaved", "dropped"}
           /\ "dropped" \in StatementFails => stopErr = "timeout"
BY BrokenByTimeout DEF StatementFails

\* It claims, and has a batch in hand or not,
LEMMA ClaimKeeps ==
    ASSUME LifecycleInv, NEW g \in Goroutines, Claim(g)
    PROVE  LifecycleInv'
<1> USE DEF boot, servers, serving, goroutines, dispatcher,
            LifecycleInv, Claim, Alive
<1>0. Depth' = Depth /\ Depth \in 0 .. 5
  BY StackIsPrefix DEF Depth
<1>a. /\ stranded' \subseteq {"unsaved", "dropped"}
      /\ "dropped" \in stranded' => "dropped" \in stranded \/ stopErr = "timeout"
  <2>1. Running(g)
    BY DEF Running
  <2> QED BY <2>1, FailureCause DEF TypeOK, DispatcherTyped
<1>1. TypeOK'
  <2>1. ServingTyped' /\ StackTyped'
    BY DEF TypeOK, ServingTyped, StackTyped
  <2>2. DispatcherTyped'
    BY <1>a, LifecycleAssumption DEF TypeOK, DispatcherTyped, InHand
  <2> QED BY <2>1, <2>2 DEF TypeOK
<1>2. BootOrder' /\ CloserOrder' /\ ExitAccounted'
  BY <1>0 DEF BootOrder, CloserOrder, ExitAccounted, Quiet, TypeOK,
     ServingTyped, DispatcherTyped
<1>3. ResourcesHeld'
  BY <1>0 DEF ResourcesHeld, Held, Running, TypeOK, ServingTyped,
     DispatcherTyped, BootOrder, CloserOrder, ExitAccounted
<1>4. StopAccounted'
  BY <1>0, <1>a DEF StopAccounted, AllReturned, Running, TypeOK, DispatcherTyped
<1> QED BY <1>1, <1>2, <1>3, <1>4

\* and is done with a row of it, whatever became of the row's Save.
LEMMA RowDoneKeeps ==
    ASSUME LifecycleInv, NEW g \in Goroutines, Alive, InHand(g),
           NEW causes \in SUBSET {"unsaved", "dropped"},
           "dropped" \in causes => stopErr = "timeout",
           RowDone(g, causes)
    PROVE  LifecycleInv'
<1> USE DEF boot, servers, serving, goroutines, dispatcher,
            LifecycleInv, RowDone, Alive, AfterRow
<1>0. Depth' = Depth /\ Depth \in 0 .. 5
  BY StackIsPrefix DEF Depth
<1>a. left[g] \in 1 .. BatchSize
  BY LifecycleAssumption DEF TypeOK, DispatcherTyped
<1>b. /\ pc'[g] = "deliver" <=> left[g] > 1
      /\ pc'[g] \in {"deliver", "claim", "select"}
      /\ \A h \in Goroutines : h # g => pc'[h] = pc[h] /\ left'[h] = left[h]
      /\ left'[g] = IF left[g] > 1 THEN left[g] - 1 ELSE 0
  BY <1>a DEF TypeOK, DispatcherTyped
<1>c. stranded' = stranded \cup causes
  OBVIOUS
<1>1. TypeOK'
  <2>1. ServingTyped' /\ StackTyped'
    BY DEF TypeOK, ServingTyped, StackTyped
  <2>2. DispatcherTyped'
    <3>1. \A h \in Goroutines : (left[h] > 0 <=> InHand(h))'
      BY <1>a, <1>b, LifecycleAssumption DEF TypeOK, DispatcherTyped, InHand
    <3>2. left' \in [Goroutines -> 0 .. BatchSize]
      BY <1>a, LifecycleAssumption DEF TypeOK, DispatcherTyped
    <3>3. pc' \in [Goroutines -> {"off", "select", "claim", "deliver", "save",
                                  "returned"}]
      BY DEF TypeOK, DispatcherTyped
    <3>4. stranded' \subseteq {"unsaved", "dropped"}
      BY <1>c DEF TypeOK, DispatcherTyped
    <3> QED BY <3>1, <3>2, <3>3, <3>4 DEF TypeOK, DispatcherTyped
  <2> QED BY <2>1, <2>2 DEF TypeOK
<1>2. BootOrder' /\ CloserOrder' /\ ExitAccounted'
  <2>1. ~Quiet
    BY DEF Quiet, InHand
  <2> QED BY <1>0, <2>1 DEF BootOrder, CloserOrder, ExitAccounted
<1>3. ResourcesHeld'
  <2>1. \A h \in Goroutines : Running(h)' => Running(h)
    BY <1>b DEF Running, InHand
  <2> QED BY <1>0, <2>1 DEF ResourcesHeld, Held
<1>4. StopAccounted'
  <2>1. Running(g)
    BY DEF Running, InHand
  <2> QED BY <1>0, <1>c, <2>1 DEF StopAccounted, AllReturned
<1> QED BY <1>1, <1>2, <1>3, <1>4

\* A row is delivered and its Save begins, or cannot,
LEMMA DeliverKeeps ==
    ASSUME LifecycleInv, NEW g \in Goroutines, Deliver(g)
    PROVE  LifecycleInv'
<1> USE DEF Deliver, LifecycleInv
<1>a. Running(g) /\ InHand(g) /\ Alive
  BY DEF Running, InHand
<1>b. CASE Broken /\ RowDone(g, {"dropped"})
  BY <1>a, <1>b, BrokenByTimeout, RowDoneKeeps
<1>c. CASE ~Broken
  <2> USE DEF boot, servers, serving, goroutines, dispatcher, Alive
  <2>0. Depth' = Depth /\ Depth \in 0 .. 5
    BY <1>c, StackIsPrefix DEF Depth
  <2>1. /\ pc' = [pc EXCEPT ![g] = "save"]
        /\ UNCHANGED <<serving, left, full, stopClaiming, abortWork, stopErr,
                       stranded>>
    BY <1>c
  <2>2. TypeOK'
    BY <2>1, <1>a DEF TypeOK, ServingTyped, DispatcherTyped, StackTyped, InHand
  <2>3. BootOrder' /\ CloserOrder' /\ ExitAccounted'
    BY <2>0, <2>1, <1>a DEF BootOrder, CloserOrder, ExitAccounted, Quiet, InHand,
       TypeOK, DispatcherTyped
  <2>4. ResourcesHeld'
    BY <2>0, <2>1, <1>a DEF ResourcesHeld, Held, Running, TypeOK, DispatcherTyped
  <2>5. StopAccounted'
    BY <2>0, <2>1, <1>a DEF StopAccounted, AllReturned, Running, TypeOK,
       DispatcherTyped
  <2> QED BY <2>2, <2>3, <2>4, <2>5
<1> QED BY <1>b, <1>c

\* and the Save succeeds or fails.
LEMMA SaveKeeps ==
    ASSUME LifecycleInv, NEW g \in Goroutines, Save(g)
    PROVE  LifecycleInv'
<1>a. Running(g) /\ InHand(g) /\ Alive
  BY DEF Running, InHand, Save
<1>b. CASE RowDone(g, {})
  BY <1>a, <1>b, RowDoneKeeps
<1>c. CASE RowDone(g, StatementFails)
  BY <1>a, <1>c, FailureCause, RowDoneKeeps
<1> QED BY <1>b, <1>c DEF Save

\* A request comes in while the API listens,
LEMMA AcceptKeeps ==
    ASSUME LifecycleInv, NEW q \in Requests, Accept(q)
    PROVE  LifecycleInv'
<1> USE DEF boot, servers, serving, goroutines, dispatcher,
            LifecycleInv, Accept, Alive
<1>0. Depth' = Depth /\ Depth \in 0 .. 5
  BY StackIsPrefix DEF Depth
<1>1. TypeOK'
  BY LifecycleAssumption DEF TypeOK, ServingTyped, DispatcherTyped, StackTyped, InHand
<1>2. BootOrder' /\ CloserOrder' /\ ExitAccounted'
  BY <1>0 DEF BootOrder, CloserOrder, ExitAccounted, Quiet, TypeOK,
     ServingTyped, DispatcherTyped
<1>3. ResourcesHeld'
  BY <1>0 DEF ResourcesHeld, Held, Running, TypeOK, ServingTyped,
     DispatcherTyped, BootOrder, CloserOrder, ExitAccounted
<1>4. StopAccounted'
  BY <1>0 DEF StopAccounted, AllReturned, Running, TypeOK, ServingTyped,
     DispatcherTyped, BootOrder, CloserOrder
<1> QED BY <1>1, <1>2, <1>3, <1>4

\* issues a statement,
LEMMA QueryKeeps ==
    ASSUME LifecycleInv, NEW q \in Requests, Query(q)
    PROVE  LifecycleInv'
<1> USE DEF boot, servers, serving, goroutines, dispatcher,
            LifecycleInv, Query, Alive
<1>0. Depth' = Depth /\ Depth \in 0 .. 5
  BY StackIsPrefix DEF Depth
<1>1. TypeOK'
  BY LifecycleAssumption DEF TypeOK, ServingTyped, DispatcherTyped, StackTyped, InHand
<1>2. BootOrder' /\ CloserOrder' /\ ExitAccounted'
  BY <1>0 DEF BootOrder, CloserOrder, ExitAccounted, Quiet, TypeOK,
     ServingTyped, DispatcherTyped
<1>3. ResourcesHeld'
  BY <1>0 DEF ResourcesHeld, Held, Running, TypeOK, ServingTyped,
     DispatcherTyped, BootOrder, CloserOrder, ExitAccounted
<1>4. StopAccounted'
  BY <1>0 DEF StopAccounted, AllReturned, Running, TypeOK, ServingTyped,
     DispatcherTyped, BootOrder, CloserOrder
<1> QED BY <1>1, <1>2, <1>3, <1>4

\* gets its result,
LEMMA QueryReturnsKeeps ==
    ASSUME LifecycleInv, NEW q \in Requests, QueryReturns(q)
    PROVE  LifecycleInv'
<1> USE DEF boot, servers, serving, goroutines, dispatcher,
            LifecycleInv, QueryReturns, Alive
<1>0. Depth' = Depth /\ Depth \in 0 .. 5
  BY StackIsPrefix DEF Depth
<1>1. TypeOK'
  BY LifecycleAssumption DEF TypeOK, ServingTyped, DispatcherTyped, StackTyped, InHand
<1>2. BootOrder' /\ CloserOrder' /\ ExitAccounted'
  BY <1>0 DEF BootOrder, CloserOrder, ExitAccounted, Quiet, TypeOK,
     ServingTyped, DispatcherTyped
<1>3. ResourcesHeld'
  BY <1>0 DEF ResourcesHeld, Held, Running, TypeOK, ServingTyped,
     DispatcherTyped, BootOrder, CloserOrder, ExitAccounted
<1>4. StopAccounted'
  BY <1>0 DEF StopAccounted, AllReturned, Running, TypeOK, ServingTyped,
     DispatcherTyped, BootOrder, CloserOrder
<1> QED BY <1>1, <1>2, <1>3, <1>4

\* and is answered.
LEMMA AnswerKeeps ==
    ASSUME LifecycleInv, NEW q \in Requests, Answer(q)
    PROVE  LifecycleInv'
<1> USE DEF boot, servers, serving, goroutines, dispatcher,
            LifecycleInv, Answer, Alive
<1>0. Depth' = Depth /\ Depth \in 0 .. 5
  BY StackIsPrefix DEF Depth
<1>1. TypeOK'
  BY LifecycleAssumption DEF TypeOK, ServingTyped, DispatcherTyped, StackTyped, InHand
<1>2. BootOrder' /\ CloserOrder' /\ ExitAccounted'
  BY <1>0 DEF BootOrder, CloserOrder, ExitAccounted, Quiet, TypeOK,
     ServingTyped, DispatcherTyped
<1>3. ResourcesHeld'
  BY <1>0 DEF ResourcesHeld, Held, Running, TypeOK, ServingTyped,
     DispatcherTyped, BootOrder, CloserOrder, ExitAccounted
<1>4. StopAccounted'
  BY <1>0 DEF StopAccounted, AllReturned, Running, TypeOK, ServingTyped,
     DispatcherTyped, BootOrder, CloserOrder
<1> QED BY <1>1, <1>2, <1>3, <1>4

\* The first signal.
LEMMA SignalKeeps ==
    ASSUME LifecycleInv, Signal
    PROVE  LifecycleInv'
<1> USE DEF boot, servers, serving, goroutines, dispatcher,
            LifecycleInv, Signal, Alive
<1>0. Depth' = Depth /\ Depth \in 0 .. 5
  BY StackIsPrefix DEF Depth
<1>1. TypeOK'
  BY LifecycleAssumption DEF TypeOK, ServingTyped, DispatcherTyped, StackTyped, InHand
<1>2. BootOrder' /\ CloserOrder' /\ ExitAccounted'
  BY <1>0 DEF BootOrder, CloserOrder, ExitAccounted, Quiet, TypeOK,
     ServingTyped, DispatcherTyped
<1>3. ResourcesHeld'
  BY <1>0 DEF ResourcesHeld, Held, Running, TypeOK, ServingTyped,
     DispatcherTyped, BootOrder, CloserOrder, ExitAccounted
<1>4. StopAccounted'
  BY <1>0 DEF StopAccounted, AllReturned, Running, TypeOK, ServingTyped,
     DispatcherTyped, BootOrder, CloserOrder
<1> QED BY <1>1, <1>2, <1>3, <1>4

\* The API listener comes up.
LEMMA ListenKeeps ==
    ASSUME LifecycleInv, Listen
    PROVE  LifecycleInv'
<1> USE DEF boot, servers, serving, goroutines, dispatcher,
            LifecycleInv, Listen
<1>0. Depth' = Depth /\ Depth \in 0 .. 5
  BY StackIsPrefix DEF Depth
<1>1. TypeOK'
  BY LifecycleAssumption DEF TypeOK, ServingTyped, DispatcherTyped, StackTyped, InHand
<1>2. BootOrder' /\ CloserOrder' /\ ExitAccounted'
  BY <1>0 DEF BootOrder, CloserOrder, ExitAccounted, Quiet, TypeOK,
     ServingTyped, DispatcherTyped
<1>3. ResourcesHeld'
  BY <1>0 DEF ResourcesHeld, Held, Running, TypeOK, ServingTyped,
     DispatcherTyped, BootOrder, CloserOrder, ExitAccounted
<1>4. StopAccounted'
  BY <1>0 DEF StopAccounted, AllReturned, Running, TypeOK, ServingTyped,
     DispatcherTyped, BootOrder, CloserOrder
<1> QED BY <1>1, <1>2, <1>3, <1>4

\* The metrics listener fails.
LEMMA AdminFailsKeeps ==
    ASSUME LifecycleInv, AdminFails
    PROVE  LifecycleInv'
<1> USE DEF boot, servers, serving, goroutines, dispatcher,
            LifecycleInv, AdminFails, Alive
<1>0. Depth' = Depth /\ Depth \in 0 .. 5
  BY StackIsPrefix DEF Depth
<1>1. TypeOK'
  BY LifecycleAssumption DEF TypeOK, ServingTyped, DispatcherTyped, StackTyped, InHand
<1>2. BootOrder' /\ CloserOrder' /\ ExitAccounted'
  BY <1>0 DEF BootOrder, CloserOrder, ExitAccounted, Quiet, TypeOK,
     ServingTyped, DispatcherTyped
<1>3. ResourcesHeld'
  BY <1>0 DEF ResourcesHeld, Held, Running, TypeOK, ServingTyped,
     DispatcherTyped, BootOrder, CloserOrder, ExitAccounted
<1>4. StopAccounted'
  BY <1>0 DEF StopAccounted, AllReturned, Running, TypeOK, ServingTyped,
     DispatcherTyped, BootOrder, CloserOrder
<1> QED BY <1>1, <1>2, <1>3, <1>4

\* Serve returns on a signal.
LEMMA ServeReturnsKeeps ==
    ASSUME LifecycleInv, ServeReturns
    PROVE  LifecycleInv'
<1> USE DEF boot, servers, serving, goroutines, dispatcher,
            LifecycleInv, ServeReturns
<1>0. Depth' = Depth /\ Depth \in 0 .. 5
  BY StackIsPrefix DEF Depth
<1>1. TypeOK'
  BY LifecycleAssumption DEF TypeOK, ServingTyped, DispatcherTyped, StackTyped, InHand
<1>2. BootOrder' /\ CloserOrder' /\ ExitAccounted'
  BY <1>0 DEF BootOrder, CloserOrder, ExitAccounted, Quiet, TypeOK,
     ServingTyped, DispatcherTyped
<1>3. ResourcesHeld'
  BY <1>0 DEF ResourcesHeld, Held, Running, TypeOK, ServingTyped,
     DispatcherTyped, BootOrder, CloserOrder, ExitAccounted
<1>4. StopAccounted'
  BY <1>0 DEF StopAccounted, AllReturned, Running, TypeOK, ServingTyped,
     DispatcherTyped, BootOrder, CloserOrder
<1> QED BY <1>1, <1>2, <1>3, <1>4

\* A later phase fails; the dispatcher is not running yet, or has its closer.
LEMMA UnwindKeeps ==
    ASSUME LifecycleInv, Unwind, main \notin {"config", "database", "exited"},
           main = "modules" => Quiet
    PROVE  LifecycleInv'
<1> USE DEF boot, servers, serving, goroutines, dispatcher,
            LifecycleInv, Unwind
<1>0. Depth' = Depth /\ Depth \in 0 .. 5
  BY StackIsPrefix DEF Depth
<1>1. TypeOK'
  BY LifecycleAssumption DEF TypeOK, ServingTyped, DispatcherTyped, StackTyped, InHand
<1>2. BootOrder' /\ CloserOrder' /\ ExitAccounted'
  BY <1>0 DEF BootOrder, CloserOrder, ExitAccounted, Quiet, TypeOK,
     ServingTyped, DispatcherTyped
<1>3. ResourcesHeld'
  <2>1. \A g \in Goroutines : Running(g) => main # "modules" /\ ~forced
    BY DEF Quiet, Running, ExitAccounted
  <2> QED BY <1>0, <2>1 DEF ResourcesHeld, Held, Running
<1>4. StopAccounted'
  BY <1>0 DEF StopAccounted, AllReturned, Running, TypeOK, ServingTyped,
     DispatcherTyped, BootOrder, CloserOrder
<1> QED BY <1>1, <1>2, <1>3, <1>4

\* The API server stops listening,
LEMMA HttpShutdownKeeps ==
    ASSUME LifecycleInv, HttpShutdown
    PROVE  LifecycleInv'
<1> USE DEF boot, servers, serving, goroutines, dispatcher,
            LifecycleInv, HttpShutdown, Alive
<1>0. Depth' = Depth /\ Depth \in 0 .. 5
  BY StackIsPrefix DEF Depth
<1>1. TypeOK'
  BY LifecycleAssumption DEF TypeOK, ServingTyped, DispatcherTyped, StackTyped, InHand
<1>2. BootOrder' /\ CloserOrder' /\ ExitAccounted'
  BY <1>0 DEF BootOrder, CloserOrder, ExitAccounted, Quiet, TypeOK,
     ServingTyped, DispatcherTyped
<1>3. ResourcesHeld'
  BY <1>0 DEF ResourcesHeld, Held, Running, TypeOK, ServingTyped,
     DispatcherTyped, BootOrder, CloserOrder, ExitAccounted
<1>4. StopAccounted'
  BY <1>0 DEF StopAccounted, AllReturned, Running, TypeOK, ServingTyped,
     DispatcherTyped, BootOrder, CloserOrder
<1> QED BY <1>1, <1>2, <1>3, <1>4

\* drains,
LEMMA HttpDrainedKeeps ==
    ASSUME LifecycleInv, HttpDrained
    PROVE  LifecycleInv'
<1> USE DEF boot, servers, serving, goroutines, dispatcher,
            LifecycleInv, HttpDrained, Alive
<1>0. Depth' = Depth /\ Depth \in 0 .. 5
  BY StackIsPrefix DEF Depth
<1>1. TypeOK'
  BY LifecycleAssumption DEF TypeOK, ServingTyped, DispatcherTyped, StackTyped, InHand
<1>2. BootOrder' /\ CloserOrder' /\ ExitAccounted'
  BY <1>0 DEF BootOrder, CloserOrder, ExitAccounted, Quiet, TypeOK,
     ServingTyped, DispatcherTyped
<1>3. ResourcesHeld'
  BY <1>0 DEF ResourcesHeld, Held, Running, TypeOK, ServingTyped,
     DispatcherTyped, BootOrder, CloserOrder, ExitAccounted
<1>4. StopAccounted'
  BY <1>0 DEF StopAccounted, AllReturned, Running, TypeOK, ServingTyped,
     DispatcherTyped, BootOrder, CloserOrder
<1> QED BY <1>1, <1>2, <1>3, <1>4

\* or gives up on the requests that are left.
LEMMA HttpTimeoutKeeps ==
    ASSUME LifecycleInv, HttpTimeout
    PROVE  LifecycleInv'
<1> USE DEF boot, servers, serving, goroutines, dispatcher,
            LifecycleInv, HttpTimeout, Alive, TeardownFails
<1>0. Depth' = Depth /\ Depth \in 0 .. 5
  BY StackIsPrefix DEF Depth
<1>1. TypeOK'
  BY LifecycleAssumption DEF TypeOK, ServingTyped, DispatcherTyped, StackTyped, InHand
<1>2. BootOrder' /\ CloserOrder' /\ ExitAccounted'
  BY <1>0 DEF BootOrder, CloserOrder, ExitAccounted, Quiet, TypeOK,
     ServingTyped, DispatcherTyped
<1>3. ResourcesHeld'
  BY <1>0 DEF ResourcesHeld, Held, Running, TypeOK, ServingTyped,
     DispatcherTyped, BootOrder, CloserOrder, ExitAccounted
<1>4. StopAccounted'
  BY <1>0 DEF StopAccounted, AllReturned, Running, TypeOK, ServingTyped,
     DispatcherTyped, BootOrder, CloserOrder
<1> QED BY <1>1, <1>2, <1>3, <1>4

\* The other closers.
LEMMA CloseAdminKeeps ==
    ASSUME LifecycleInv, CloseAdmin
    PROVE  LifecycleInv'
<1> USE DEF boot, servers, serving, goroutines, dispatcher,
            LifecycleInv, CloseAdmin, Alive, TeardownFails
<1>0. Depth' = Depth /\ Depth \in 0 .. 5
  BY StackIsPrefix DEF Depth
<1>1. TypeOK'
  <2>1. failed' \in BOOLEAN
    BY DEF TypeOK, ServingTyped
  <2> QED BY <2>1 DEF TypeOK, ServingTyped, DispatcherTyped, StackTyped, InHand
<1>2. BootOrder' /\ CloserOrder' /\ ExitAccounted'
  BY <1>0 DEF BootOrder, CloserOrder, ExitAccounted, Quiet, TypeOK,
     ServingTyped, DispatcherTyped
<1>3. ResourcesHeld'
  BY <1>0 DEF ResourcesHeld, Held, Running, TypeOK, ServingTyped,
     DispatcherTyped, BootOrder, CloserOrder, ExitAccounted
<1>4. StopAccounted'
  BY <1>0 DEF StopAccounted, AllReturned, Running, TypeOK, ServingTyped,
     DispatcherTyped, BootOrder, CloserOrder
<1> QED BY <1>1, <1>2, <1>3, <1>4

\* The router has only its limiter to stop.
LEMMA CloseRouterKeeps ==
    ASSUME LifecycleInv, CloseRouter
    PROVE  LifecycleInv'
<1> USE DEF boot, servers, serving, goroutines, dispatcher,
            LifecycleInv, CloseRouter, Alive
<1>0. Depth' = Depth /\ Depth \in 0 .. 5
  BY StackIsPrefix DEF Depth
<1>1. TypeOK'
  BY LifecycleAssumption DEF TypeOK, ServingTyped, DispatcherTyped, StackTyped, InHand
<1>2. BootOrder' /\ CloserOrder' /\ ExitAccounted'
  BY <1>0 DEF BootOrder, CloserOrder, ExitAccounted, Quiet, TypeOK,
     ServingTyped, DispatcherTyped
<1>3. ResourcesHeld'
  BY <1>0 DEF ResourcesHeld, Held, Running, TypeOK, ServingTyped,
     DispatcherTyped, BootOrder, CloserOrder, ExitAccounted
<1>4. StopAccounted'
  BY <1>0 DEF StopAccounted, AllReturned, Running, TypeOK, ServingTyped,
     DispatcherTyped, BootOrder, CloserOrder
<1> QED BY <1>1, <1>2, <1>3, <1>4

\* Without notifications there is no dispatcher to stop.
LEMMA CloseDisabledKeeps ==
    ASSUME LifecycleInv, CloseDisabled
    PROVE  LifecycleInv'
<1> USE DEF boot, servers, serving, goroutines, dispatcher,
            LifecycleInv, CloseDisabled, Alive
<1>0. Depth' = Depth /\ Depth \in 0 .. 5
  BY StackIsPrefix DEF Depth
<1>1. TypeOK'
  BY LifecycleAssumption DEF TypeOK, ServingTyped, DispatcherTyped, StackTyped, InHand
<1>2. BootOrder' /\ CloserOrder' /\ ExitAccounted'
  BY <1>0 DEF BootOrder, CloserOrder, ExitAccounted, Quiet, TypeOK,
     ServingTyped, DispatcherTyped
<1>3. ResourcesHeld'
  BY <1>0 DEF ResourcesHeld, Held, Running, TypeOK, ServingTyped,
     DispatcherTyped, BootOrder, CloserOrder, ExitAccounted
<1>4. StopAccounted'
  BY <1>0 DEF StopAccounted, AllReturned, Running, TypeOK, ServingTyped,
     DispatcherTyped, BootOrder, CloserOrder
<1> QED BY <1>1, <1>2, <1>3, <1>4

\* The pool begins to close when it is the last closer,
LEMMA CloseDatabaseKeeps ==
    ASSUME LifecycleInv, CloseDatabase
    PROVE  LifecycleInv'
<1> USE DEF boot, servers, serving, goroutines, dispatcher,
            LifecycleInv, CloseDatabase, Alive, TeardownFails
<1>0. Depth' = Depth /\ Depth \in 0 .. 5
  BY StackIsPrefix DEF Depth
<1>1. TypeOK'
  <2>1. failed' \in BOOLEAN
    BY DEF TypeOK, ServingTyped
  <2> QED BY <2>1 DEF TypeOK, ServingTyped, DispatcherTyped, StackTyped, InHand
<1>2. BootOrder' /\ CloserOrder' /\ ExitAccounted'
  BY <1>0 DEF BootOrder, CloserOrder, ExitAccounted, Quiet, TypeOK,
     ServingTyped, DispatcherTyped
<1>3. ResourcesHeld'
  BY <1>0 DEF ResourcesHeld, Held, Running, TypeOK, ServingTyped,
     DispatcherTyped, BootOrder, CloserOrder, ExitAccounted
<1>4. StopAccounted'
  BY <1>0 DEF StopAccounted, AllReturned, Running, TypeOK, ServingTyped,
     DispatcherTyped, BootOrder, CloserOrder
<1> QED BY <1>1, <1>2, <1>3, <1>4

\* and is closed when its connections are back.
LEMMA PoolDrainedKeeps ==
    ASSUME LifecycleInv, PoolDrained
    PROVE  LifecycleInv'
<1> USE DEF boot, servers, serving, goroutines, dispatcher,
            LifecycleInv, PoolDrained, Alive
<1>0. Depth' = Depth /\ Depth \in 0 .. 5
  BY StackIsPrefix DEF Depth
<1>1. TypeOK'
  <2>1. failed' \in BOOLEAN
    BY DEF TypeOK, ServingTyped
  <2> QED BY <2>1 DEF TypeOK, ServingTyped, DispatcherTyped, StackTyped, InHand
<1>2. BootOrder' /\ CloserOrder' /\ ExitAccounted'
  BY <1>0 DEF BootOrder, CloserOrder, ExitAccounted, Quiet, TypeOK,
     ServingTyped, DispatcherTyped
<1>3. ResourcesHeld'
  BY <1>0 DEF ResourcesHeld, Held, Running, TypeOK, ServingTyped,
     DispatcherTyped, BootOrder, CloserOrder, ExitAccounted
<1>4. StopAccounted'
  BY <1>0 DEF StopAccounted, AllReturned, Running, TypeOK, ServingTyped,
     DispatcherTyped, BootOrder, CloserOrder
<1> QED BY <1>1, <1>2, <1>3, <1>4

\* Stop cancels the claim context,
LEMMA StopBeginKeeps ==
    ASSUME LifecycleInv, StopBegin
    PROVE  LifecycleInv'
<1> USE DEF boot, servers, serving, goroutines, dispatcher,
            LifecycleInv, StopBegin, Alive
<1>0. Depth' = Depth /\ Depth \in 0 .. 5
  BY StackIsPrefix DEF Depth
<1>1. TypeOK'
  BY LifecycleAssumption DEF TypeOK, ServingTyped, DispatcherTyped, StackTyped, InHand
<1>2. BootOrder' /\ CloserOrder' /\ ExitAccounted'
  BY <1>0 DEF BootOrder, CloserOrder, ExitAccounted, Quiet, TypeOK,
     ServingTyped, DispatcherTyped
<1>3. ResourcesHeld'
  BY <1>0 DEF ResourcesHeld, Held, Running, TypeOK, ServingTyped,
     DispatcherTyped, BootOrder, CloserOrder, ExitAccounted
<1>4. StopAccounted'
  BY <1>0 DEF StopAccounted, AllReturned, Running, TypeOK, ServingTyped,
     DispatcherTyped, BootOrder, CloserOrder
<1> QED BY <1>1, <1>2, <1>3, <1>4

\* waits for the goroutines,
LEMMA StopDrainedKeeps ==
    ASSUME LifecycleInv, StopDrained
    PROVE  LifecycleInv'
<1> USE DEF boot, servers, serving, goroutines, dispatcher,
            LifecycleInv, StopDrained, StopEnds, AllReturned, Alive
<1>0. Depth' = Depth /\ Depth \in 0 .. 5
  BY StackIsPrefix DEF Depth
<1>1. TypeOK'
  BY LifecycleAssumption DEF TypeOK, ServingTyped, DispatcherTyped, StackTyped, InHand
<1>2. BootOrder' /\ CloserOrder' /\ ExitAccounted'
  BY <1>0 DEF BootOrder, CloserOrder, ExitAccounted, Quiet, TypeOK,
     ServingTyped, DispatcherTyped
<1>3. ResourcesHeld'
  BY <1>0 DEF ResourcesHeld, Held, Running, TypeOK, ServingTyped,
     DispatcherTyped, BootOrder, CloserOrder, ExitAccounted
<1>4. StopAccounted'
  BY <1>0 DEF StopAccounted, AllReturned, Running, TypeOK, ServingTyped,
     DispatcherTyped, BootOrder, CloserOrder
<1> QED BY <1>1, <1>2, <1>3, <1>4

\* or stops waiting.
LEMMA StopTimeoutKeeps ==
    ASSUME LifecycleInv, StopTimeout
    PROVE  LifecycleInv'
<1> USE DEF boot, servers, serving, goroutines, dispatcher,
            LifecycleInv, StopTimeout, StopEnds, Alive, TeardownFails
<1>0. Depth' = Depth /\ Depth \in 0 .. 5
  BY StackIsPrefix DEF Depth
<1>1. TypeOK'
  BY LifecycleAssumption DEF TypeOK, ServingTyped, DispatcherTyped, StackTyped, InHand
<1>2. BootOrder' /\ CloserOrder' /\ ExitAccounted'
  BY <1>0 DEF BootOrder, CloserOrder, ExitAccounted, Quiet, TypeOK,
     ServingTyped, DispatcherTyped
<1>3. ResourcesHeld'
  BY <1>0 DEF ResourcesHeld, Held, Running, TypeOK, ServingTyped,
     DispatcherTyped, BootOrder, CloserOrder, ExitAccounted
<1>4. StopAccounted'
  BY <1>0 DEF StopAccounted, AllReturned, Running, TypeOK, ServingTyped,
     DispatcherTyped, BootOrder, CloserOrder
<1> QED BY <1>1, <1>2, <1>3, <1>4

\* serve gives up before anything was acquired.
LEMMA GiveUpKeeps ==
    ASSUME LifecycleInv, GiveUp, main \in {"config", "database"}
    PROVE  LifecycleInv'
<1> USE DEF boot, servers, serving, goroutines, dispatcher,
            LifecycleInv, GiveUp, Die
<1>0. Depth' = Depth /\ Depth \in 0 .. 5
  BY StackIsPrefix DEF Depth
<1>1. TypeOK'
  BY LifecycleAssumption DEF TypeOK, ServingTyped, DispatcherTyped, StackTyped, InHand
<1>2. BootOrder' /\ CloserOrder' /\ ExitAccounted'
  BY <1>0 DEF BootOrder, CloserOrder, ExitAccounted, Quiet, TypeOK,
     ServingTyped, DispatcherTyped
<1>3. ResourcesHeld'
  BY <1>0 DEF ResourcesHeld, Held, Running, TypeOK, ServingTyped,
     DispatcherTyped, BootOrder, CloserOrder, ExitAccounted
<1>4. StopAccounted'
  <2>1. \A g \in Goroutines : pc[g] = "off" /\ ~(left[g] > 0)
    BY DEF BootOrder, Quiet, TypeOK, DispatcherTyped, InHand
  <2>2. stranded' = stranded
    BY <2>1 DEF InHand
  <2> QED BY <1>0, <2>2 DEF StopAccounted, AllReturned, Running
<1> QED BY <1>1, <1>2, <1>3, <1>4

\* serve returns when the stack is empty: a row in hand then is one Stop did not
\* wait for.
LEMMA ExitKeeps ==
    ASSUME LifecycleInv, Exit
    PROVE  LifecycleInv'
<1> USE DEF boot, servers, serving, goroutines, dispatcher,
            LifecycleInv, Exit, Die
<1>0. Depth' = Depth /\ Depth \in 0 .. 5
  BY StackIsPrefix DEF Depth
<1>a. Depth = 0
  BY DEF Depth
<1>b. stranded' \subseteq {"unsaved", "dropped"}
  BY DEF TypeOK, DispatcherTyped
<1>1. TypeOK'
  <2>1. ServingTyped' /\ StackTyped'
    BY DEF TypeOK, ServingTyped, StackTyped
  <2>2. DispatcherTyped'
    BY <1>b DEF TypeOK, DispatcherTyped, InHand
  <2> QED BY <2>1, <2>2 DEF TypeOK
<1>2. BootOrder' /\ CloserOrder' /\ ExitAccounted'
  BY <1>0, <1>a DEF BootOrder, CloserOrder, ExitAccounted
<1>3. ResourcesHeld'
  BY <1>0 DEF ResourcesHeld, Held, Running, TypeOK, ServingTyped,
     DispatcherTyped, BootOrder, CloserOrder, ExitAccounted
<1>4. StopAccounted'
  <2>1. ASSUME NEW g \in Goroutines, InHand(g)
        PROVE  stopErr = "timeout"
    <3>1. Running(g)
      BY <2>1 DEF Running, InHand
    <3> QED BY <1>0, <1>a, <3>1 DEF ResourcesHeld, Held, ExitAccounted
  <2> QED BY <1>0, <2>1 DEF StopAccounted, AllReturned, Running
<1> QED BY <1>1, <1>2, <1>3, <1>4

\* A second signal ends the process.
LEMMA ForceExitKeeps ==
    ASSUME LifecycleInv, ForceExit
    PROVE  LifecycleInv'
<1> USE DEF boot, servers, serving, goroutines, dispatcher,
            LifecycleInv, ForceExit, Die, Alive
<1>0. Depth' = Depth /\ Depth \in 0 .. 5
  BY StackIsPrefix DEF Depth
<1>1. TypeOK'
  BY LifecycleAssumption DEF TypeOK, ServingTyped, DispatcherTyped, StackTyped, InHand
<1>2. BootOrder' /\ CloserOrder' /\ ExitAccounted'
  BY <1>0 DEF BootOrder, CloserOrder, ExitAccounted, Quiet, TypeOK,
     ServingTyped, DispatcherTyped
<1>3. ResourcesHeld'
  BY <1>0 DEF ResourcesHeld, Held, Running, TypeOK, ServingTyped,
     DispatcherTyped, BootOrder, CloserOrder, ExitAccounted
<1>4. StopAccounted'
  BY <1>0 DEF StopAccounted, AllReturned, Running, TypeOK, ServingTyped,
     DispatcherTyped, BootOrder, CloserOrder
<1> QED BY <1>1, <1>2, <1>3, <1>4

\* Nothing moves, nothing breaks.
LEMMA StutterKeeps ==
    ASSUME LifecycleInv, UNCHANGED vars
    PROVE  LifecycleInv'
<1> USE DEF boot, servers, serving, goroutines, dispatcher,
            LifecycleInv, vars
<1>0. Depth' = Depth /\ Depth \in 0 .. 5
  BY StackIsPrefix DEF Depth
<1>1. TypeOK'
  BY LifecycleAssumption DEF TypeOK, ServingTyped, DispatcherTyped, StackTyped, InHand
<1>2. BootOrder' /\ CloserOrder' /\ ExitAccounted'
  BY <1>0 DEF BootOrder, CloserOrder, ExitAccounted, Quiet, TypeOK,
     ServingTyped, DispatcherTyped
<1>3. ResourcesHeld'
  BY <1>0 DEF ResourcesHeld, Held, Running, TypeOK, ServingTyped,
     DispatcherTyped, BootOrder, CloserOrder, ExitAccounted
<1>4. StopAccounted'
  BY <1>0 DEF StopAccounted, AllReturned, Running, TypeOK, ServingTyped,
     DispatcherTyped, BootOrder, CloserOrder
<1> QED BY <1>1, <1>2, <1>3, <1>4

------------------------------------------------------------------------------
(* Steps that push or pop.                                                 *)

\* The order of BuildApp: the dispatcher is started last.
LEMMA BuildOrderIs ==
    /\ Len(BuildOrder) = 5
    /\ BuildOrder[1] = "notification_config" /\ BuildOrder[2] = "notifier"
    /\ BuildOrder[3] = "identity" /\ BuildOrder[4] = "user"
    /\ BuildOrder[5] = "notification"
BY DEF BuildOrder

\* A stack of known depth is well formed.
LEMMA StackTypedIs ==
    ASSUME NEW n \in 0 .. 5, stack' = Prefix(n)
    PROVE  StackTyped' /\ Depth' = n
<1>1. Depth' = n
  BY Prefixes DEF Depth
<1> QED BY <1>1, PushedLen DEF StackTyped, Prefix

\* A step of BuildApp that starts nothing: the goroutines are off until the
\* last one has succeeded.
LEMMA ConstructedKeeps ==
    ASSUME LifecycleInv, NEW step, Building(step), Constructed,
           step = "notification" => ~cfg.notifications
    PROVE  LifecycleInv'
<1> USE DEF boot, servers, dispatcher, goroutines, LifecycleInv, Constructed, Building
<1>0. Depth' = Depth /\ Depth \in 0 .. 5
  BY StackIsPrefix DEF Depth
<1>1. TypeOK'
  BY DEF TypeOK, ServingTyped, DispatcherTyped, StackTyped, InHand
<1>2. Quiet
  BY DEF BootOrder
<1>3. BootOrder' /\ CloserOrder' /\ ExitAccounted'
  BY <1>0, <1>2 DEF BootOrder, CloserOrder, ExitAccounted, Quiet
<1>4. ResourcesHeld'
  BY <1>0, <1>2 DEF ResourcesHeld, Held, Running, Quiet
<1>5. StopAccounted'
  BY <1>0 DEF StopAccounted, AllReturned, Running
<1> QED BY <1>1, <1>3, <1>4, <1>5

\* The dispatcher is started by the last step of BuildApp.
LEMMA NewNotificationKeeps ==
    ASSUME LifecycleInv, NewNotification
    PROVE  LifecycleInv'
<1>1. /\ main = "modules" /\ built < Len(BuildOrder) /\ built + 1 \in 1 .. 5
      /\ BuildOrder[built + 1] = "notification" /\ Building("notification")
  BY BuildOrderIs DEF NewNotification, Building, LifecycleInv, TypeOK, ServingTyped
<1>2. built + 1 = 5
  BY <1>1, BuildOrderIs
<1>3. Quiet
  BY <1>1 DEF LifecycleInv, BootOrder
<1>4. CASE Unwind
  BY <1>1, <1>3, <1>4, UnwindKeeps
<1>5. CASE ~cfg.notifications /\ Constructed
  BY <1>1, <1>5, ConstructedKeeps
<1>6. CASE /\ cfg.notifications /\ built' = built + 1
           /\ pc' = [g \in Goroutines |-> "select"]
           /\ UNCHANGED <<cfg, main, signalled, failed, stack, closing, servers,
                          db, forced, left, full, stopClaiming, abortWork,
                          stopErr, stranded>>
  <2> USE DEF servers, LifecycleInv
  <2>0. Depth' = Depth /\ Depth \in 0 .. 5
    BY <1>6, StackIsPrefix DEF Depth
  <2>1. \A g \in Goroutines : ~(left[g] > 0)
    BY <1>3 DEF Quiet, TypeOK, DispatcherTyped, InHand
  <2>2. TypeOK'
    BY <1>1, <1>6, <2>1 DEF TypeOK, ServingTyped, DispatcherTyped, StackTyped, InHand
  <2>3. BootOrder' /\ CloserOrder' /\ ExitAccounted'
    BY <1>1, <1>2, <1>6, <2>0, BuildOrderIs DEF BootOrder, CloserOrder, ExitAccounted
  <2>4. ResourcesHeld'
    BY <1>1, <1>6, <2>0 DEF ResourcesHeld, Held, BootOrder
  <2>5. StopAccounted'
    BY <1>1, <1>6, <2>0 DEF StopAccounted, BootOrder
  <2> QED BY <2>2, <2>3, <2>4, <2>5
<1> QED BY <1>4, <1>5, <1>6 DEF NewNotification

\* A step of BuildApp fails, or succeeds.
LEMMA BuildAppKeeps ==
    ASSUME LifecycleInv, BuildApp
    PROVE  LifecycleInv'
<1>1. ASSUME NEW step, Building(step), Unwind
      PROVE  LifecycleInv'
  <2>1. main = "modules" /\ Quiet
    BY <1>1 DEF Building, LifecycleInv, BootOrder
  <2> QED BY <1>1, <2>1, UnwindKeeps
<1>2. ASSUME NEW step, Building(step), step # "notification", Constructed
      PROVE  LifecycleInv'
  BY <1>2, ConstructedKeeps
<1>3. CASE notificationConfig
  BY <1>1, <1>2, <1>3 DEF notificationConfig
<1>4. CASE newSecurityNotifier
  BY <1>1, <1>2, <1>4 DEF newSecurityNotifier, NewEnqueuerFails
<1>5. CASE NewIdentity \/ newUserModule
  BY <1>1, <1>2, <1>5 DEF NewIdentity, newUserModule
<1> QED BY <1>3, <1>4, <1>5, NewNotificationKeeps DEF BuildApp

\* The configuration is loaded.
LEMMA LoadConfigKeeps ==
    ASSUME LifecycleInv, LoadConfig
    PROVE  LifecycleInv'
<1>1. CASE GiveUp
  BY <1>1, GiveUpKeeps DEF LoadConfig
<1>2. CASE ~GiveUp
  <2> USE DEF boot, servers, dispatcher, goroutines, LifecycleInv
  <2>0. /\ Depth' = Depth /\ main = "config" /\ main' = "database"
        /\ UNCHANGED <<boot, signalled, failed, stack, closing, servers, db,
                       forced, dispatcher>>
    BY <1>2 DEF LoadConfig, Depth
  <2>1. TypeOK'
    BY <2>0 DEF TypeOK, ServingTyped, DispatcherTyped, StackTyped, InHand
  <2>2. BootOrder' /\ CloserOrder' /\ ExitAccounted'
    BY <2>0 DEF BootOrder, CloserOrder, ExitAccounted, Quiet
  <2>3. ResourcesHeld' /\ StopAccounted'
    BY <2>0 DEF ResourcesHeld, Held, Running, StopAccounted, AllReturned
  <2> QED BY <2>1, <2>2, <2>3
<1> QED BY <1>1, <1>2

\* The pool is opened and its closer pushed.
LEMMA OpenDatabaseKeeps ==
    ASSUME LifecycleInv, OpenDatabase
    PROVE  LifecycleInv'
<1>1. CASE GiveUp
  BY <1>1, GiveUpKeeps DEF OpenDatabase
<1>2. CASE ~GiveUp
  <2> USE DEF boot, servers, dispatcher, goroutines, LifecycleInv
  <2>0. /\ main = "database" /\ main' = "modules" /\ db' = "open"
        /\ stack' = <<"database">>
        /\ UNCHANGED <<boot, signalled, failed, closing, servers, forced,
                       dispatcher>>
    BY <1>2 DEF OpenDatabase
  <2>1. StackTyped' /\ Depth' = 1
    BY <2>0, PushDatabase, StackTypedIs
  <2>2. TypeOK'
    BY <2>0, <2>1 DEF TypeOK, ServingTyped, DispatcherTyped, InHand
  <2>3. BootOrder' /\ CloserOrder' /\ ExitAccounted'
    BY <2>0, <2>1 DEF BootOrder, CloserOrder, ExitAccounted, Quiet
  <2>4. ResourcesHeld' /\ StopAccounted'
    BY <2>0, <2>1 DEF ResourcesHeld, Held, Running, StopAccounted, AllReturned,
       BootOrder, Quiet
  <2> QED BY <2>2, <2>3, <2>4
<1> QED BY <1>1, <1>2

\* The modules' closer is pushed, above the pool's.
LEMMA PushModulesKeeps ==
    ASSUME LifecycleInv, PushModules
    PROVE  LifecycleInv'
<1> USE DEF boot, servers, dispatcher, goroutines, LifecycleInv, PushModules
<1>0. Depth = 1 /\ stack = Prefix(1)
  BY StackIsPrefix DEF BootOrder
<1>1. StackTyped' /\ Depth' = 2
  BY <1>0, PushModulesPrefix, StackTypedIs
<1>2. TypeOK'
  BY <1>1 DEF TypeOK, ServingTyped, DispatcherTyped, InHand
<1>3. BootOrder' /\ CloserOrder' /\ ExitAccounted'
  BY <1>1 DEF BootOrder, CloserOrder, ExitAccounted
<1>4. ResourcesHeld' /\ StopAccounted'
  BY <1>1 DEF ResourcesHeld, Held, Running, StopAccounted, AllReturned, BootOrder
<1> QED BY <1>2, <1>3, <1>4

\* The pool's metrics are registered.
LEMMA RegisterMetricsKeeps ==
    ASSUME LifecycleInv, RegisterMetrics
    PROVE  LifecycleInv'
<1>1. CASE Unwind
  BY <1>1, UnwindKeeps DEF RegisterMetrics
<1>2. CASE ~Unwind
  <2> USE DEF boot, servers, dispatcher, goroutines, LifecycleInv
  <2>0. /\ Depth' = Depth /\ main = "metrics" /\ main' = "router"
        /\ UNCHANGED <<boot, signalled, failed, stack, closing, servers, db,
                       forced, dispatcher>>
    BY <1>2 DEF RegisterMetrics, Depth
  <2>1. TypeOK'
    BY <2>0 DEF TypeOK, ServingTyped, DispatcherTyped, StackTyped, InHand
  <2>2. BootOrder' /\ CloserOrder' /\ ExitAccounted'
    BY <2>0 DEF BootOrder, CloserOrder, ExitAccounted
  <2>3. ResourcesHeld' /\ StopAccounted'
    BY <2>0 DEF ResourcesHeld, Held, Running, StopAccounted, AllReturned
  <2> QED BY <2>1, <2>2, <2>3
<1> QED BY <1>1, <1>2

\* The servers start with their closers pushed.
LEMMA BuildRouterKeeps ==
    ASSUME LifecycleInv, BuildRouter
    PROVE  LifecycleInv'
<1>1. CASE Unwind
  BY <1>1, UnwindKeeps DEF BuildRouter
<1>2. CASE ~Unwind
  <2> USE DEF boot, servers, dispatcher, goroutines, LifecycleInv
  <2>0. /\ main = "router" /\ main' = "serving" /\ http' = "starting"
        /\ limiter' \in {"running", "none"}
        /\ admin' = IF cfg.metrics THEN "listening" ELSE "none"
        /\ stack' = IF cfg.metrics
                    THEN Append(Append(Append(stack, "router"), "http_server"),
                                "metrics_server")
                    ELSE Append(Append(stack, "router"), "http_server")
        /\ UNCHANGED <<boot, signalled, failed, closing, request, db, forced,
                       dispatcher>>
    BY <1>2 DEF BuildRouter
  <2>1. Depth = 2 /\ stack = Prefix(2)
    BY <2>0, StackIsPrefix DEF BootOrder
  <2>2. stack' = Prefix(IF cfg.metrics THEN 5 ELSE 4)
    BY <2>0, <2>1, PushServers
  <2>3. StackTyped' /\ Depth' = IF cfg.metrics THEN 5 ELSE 4
    BY <2>2, StackTypedIs
  <2>4. TypeOK'
    BY <2>0, <2>3 DEF TypeOK, ServingTyped, DispatcherTyped, InHand
  <2>5. BootOrder' /\ CloserOrder' /\ ExitAccounted'
    BY <2>0, <2>3 DEF BootOrder, CloserOrder, ExitAccounted
  <2>6. ResourcesHeld' /\ StopAccounted'
    BY <2>0, <2>1, <2>3 DEF ResourcesHeld, Held, Running, StopAccounted,
       AllReturned, BootOrder
  <2> QED BY <2>4, <2>5, <2>6
<1> QED BY <1>1, <1>2

\* Shutdown takes the closer on top.
LEMMA NextCloserKeeps ==
    ASSUME LifecycleInv, NextCloser
    PROVE  LifecycleInv'
<1> USE DEF boot, servers, dispatcher, goroutines, LifecycleInv, NextCloser
<1>0. PICK m \in 0 .. 4 : Depth = m + 1 /\ stack = Prefix(m + 1)
  <2>1. Depth \in 0 .. 5 /\ stack = Prefix(Depth) /\ stack # <<>>
    BY StackIsPrefix
  <2>2. Depth # 0
    BY <2>1, PushDatabase
  <2>3. Depth - 1 \in 0 .. 4 /\ Depth = (Depth - 1) + 1
    BY <2>1, <2>2
  <2> QED BY <2>1, <2>3
<1>1. closing' = Pushed[m + 1] /\ stack' = Prefix(m)
  <2>1. Len(stack) = m + 1 /\ Len(stack) - 1 = m
    BY <1>0 DEF Depth
  <2> QED BY <1>0, <2>1, PopPrefix
<1>2. StackTyped' /\ Depth' = m
  <2>1. m \in 0 .. 5
    OBVIOUS
  <2> QED BY <1>1, <2>1, StackTypedIs
<1>3. /\ m = 0 => closing' = "database"
      /\ m = 1 => closing' = "dispatcher"
      /\ m = 2 => closing' = "router"
      /\ m = 3 => closing' = "http_server"
      /\ m = 4 => closing' = "metrics_server"
  BY <1>1, PushedAt
<1>4. TypeOK'
  BY <1>2, <1>3 DEF TypeOK, ServingTyped, DispatcherTyped, InHand
<1>5. BootOrder' /\ CloserOrder' /\ ExitAccounted'
  BY <1>2, <1>3 DEF BootOrder, CloserOrder, ExitAccounted
<1>6. ResourcesHeld'
  BY <1>0, <1>2, <1>3 DEF ResourcesHeld, Held, Running
<1>7. StopAccounted'
  BY <1>0, <1>2, <1>3 DEF StopAccounted, AllReturned, Running
<1> QED BY <1>4, <1>5, <1>6, <1>7

------------------------------------------------------------------------------
(* Theorems.                                                               *)

\* Before anything is acquired.
LEMMA LifecycleInit == Init => LifecycleInv
<1> SUFFICES ASSUME Init PROVE LifecycleInv
  OBVIOUS
<1>1. StackTyped /\ Depth = 0
  <2>1. stack = Prefix(0) /\ Depth = 0
    BY PushDatabase DEF Init, Depth
  <2> QED BY <2>1, PushedLen DEF StackTyped, Prefix
<1>2. TypeOK
  <2>1. ServingTyped
    <3>1. /\ cfg \in [notifications : BOOLEAN, metrics : BOOLEAN, rateLimit : BOOLEAN]
          /\ main = "config" /\ built = 0 /\ closing = "none" /\ db = "none"
          /\ http = "none" /\ admin = "none" /\ limiter = "none"
          /\ request = [q \in Requests |-> "none"]
          /\ signalled = FALSE /\ failed = FALSE /\ forced = FALSE
      BY DEF Init
    <3>2. built \in 0 .. Len(BuildOrder)
      BY <3>1, BuildOrderIs
    <3> QED BY <3>1, <3>2 DEF ServingTyped
  <2>2. DispatcherTyped
    <3>1. /\ pc = [g \in Goroutines |-> "off"] /\ left = [g \in Goroutines |-> 0]
          /\ full = [g \in Goroutines |-> FALSE]
          /\ stopClaiming = FALSE /\ abortWork = FALSE /\ stopErr = "none"
          /\ stranded = {}
      BY DEF Init
    <3>2. 0 \in 0 .. BatchSize
      BY LifecycleAssumption
    <3>3. pc \in [Goroutines -> {"off", "select", "claim", "deliver", "save",
                                 "returned"}]
      BY <3>1
    <3>4. left \in [Goroutines -> 0 .. BatchSize] /\ full \in [Goroutines -> BOOLEAN]
      BY <3>1, <3>2
    <3>5. \A g \in Goroutines : left[g] = 0 /\ ~(left[g] > 0) /\ ~InHand(g)
      BY <3>1 DEF InHand
    <3> QED BY <3>1, <3>3, <3>4, <3>5 DEF DispatcherTyped
  <2> QED BY <1>1, <2>1, <2>2 DEF TypeOK
<1>3. BootOrder /\ CloserOrder /\ ExitAccounted
  BY <1>1 DEF Init, BootOrder, CloserOrder, ExitAccounted, Quiet
<1>4. ResourcesHeld /\ StopAccounted
  BY <1>1 DEF Init, ResourcesHeld, Held, Running, StopAccounted, AllReturned
<1> QED BY <1>2, <1>3, <1>4 DEF LifecycleInv

\* Every step keeps the invariant.
LEMMA LifecycleStep == LifecycleInv /\ [Next]_vars => LifecycleInv'
<1> SUFFICES ASSUME LifecycleInv, [Next]_vars PROVE LifecycleInv'
  OBVIOUS
<1>1. CASE BootStep
  BY <1>1, LoadConfigKeeps, OpenDatabaseKeeps, BuildAppKeeps, PushModulesKeeps,
     RegisterMetricsKeeps, BuildRouterKeeps, ListenKeeps DEF BootStep
<1>2. ASSUME NEW g \in Goroutines, GoroutineStep(g)
      PROVE  LifecycleInv'
  BY <1>2, PollKeeps, ReturnKeeps, ClaimKeeps, DeliverKeeps, SaveKeeps
     DEF GoroutineStep
<1>3. ASSUME NEW q \in Requests, RequestStep(q)
      PROVE  LifecycleInv'
  BY <1>3, AcceptKeeps, QueryKeeps, QueryReturnsKeeps, AnswerKeeps
     DEF RequestStep
<1>4. CASE ListenFails
  BY <1>4, UnwindKeeps DEF ListenFails
<1>5. CASE Signal \/ AdminFails \/ ServeReturns \/ ForceExit \/ UNCHANGED vars
  BY <1>5, SignalKeeps, AdminFailsKeeps, ServeReturnsKeeps, ForceExitKeeps,
     StutterKeeps
<1>6. CASE MainStep
  BY <1>6, NextCloserKeeps, HttpShutdownKeeps, HttpDrainedKeeps, CloseAdminKeeps,
     CloseRouterKeeps, CloseDisabledKeeps, StopBeginKeeps, StopDrainedKeeps,
     CloseDatabaseKeeps, PoolDrainedKeeps, ExitKeeps DEF MainStep
<1>7. CASE TimerStep
  BY <1>7, HttpTimeoutKeeps, StopTimeoutKeeps DEF TimerStep
<1> QED BY <1>1, <1>2, <1>3, <1>4, <1>5, <1>6, <1>7 DEF Next

\* So the invariant holds in every behaviour.
LEMMA LifecycleInvariant == Spec => []LifecycleInv
BY LifecycleInit, LifecycleStep, PTL DEF Spec

\* The process is always in one of its states, the stack is a first part of
\* what serve pushes, and rows are in hand exactly while a batch is settled.
THEOREM LifecycleTyped == Spec => []TypeOK
BY LifecycleInvariant, PTL DEF LifecycleInv

\* A claimed row is left sending only by a statement of its own that failed, a
\* drain that timed out or a forced exit, for any number of workers and any
\* batch size, with any Save or claim failing at any time.
THEOREM NothingStranded == Spec => []DrainStrandsNothing
<1>1. LifecycleInv => DrainStrandsNothing
  BY DEF LifecycleInv, StopAccounted, DrainStrandsNothing, TypeOK,
     DispatcherTyped
<1> QED BY <1>1, LifecycleInvariant, PTL

\* The pool is closed after its users: what still runs when its closing begins
\* is what its own drain gave up on, whichever boot phase or closer failed
\* before.
THEOREM PoolLast == Spec => []PoolClosedLast
<1>1. LifecycleInv => PoolClosedLast
  <2> SUFFICES ASSUME LifecycleInv, db \in {"closing", "closed"}
               PROVE  /\ \A g \in Goroutines :
                            Running(g) => stopErr = "timeout" /\ abortWork
                      /\ \A q \in Requests :
                            request[q] # "none" => http = "timed_out"
    BY DEF PoolClosedLast
  <2>1. Depth = 0 /\ closing \in {"none", "database"}
    BY DEF LifecycleInv, ResourcesHeld
  <2>2. \A g \in Goroutines : Running(g) => stopErr = "timeout"
    BY BrokenByTimeout DEF Broken
  <2>3. \A g \in Goroutines : Running(g) => abortWork
    BY <2>2 DEF LifecycleInv, StopAccounted
  <2>4. \A q \in Requests : request[q] # "none" => http = "timed_out"
    BY <2>1 DEF LifecycleInv, ResourcesHeld, Held
  <2> QED BY <2>2, <2>3, <2>4
<1> QED BY <1>1, LifecycleInvariant, PTL

\* A process that was not forced out has released all it acquired.
THEOREM AllReleased == Spec => []NothingLeaks
<1>1. LifecycleInv => NothingLeaks
  <2> SUFFICES ASSUME LifecycleInv, main = "exited", ~forced
               PROVE  /\ db \notin {"open", "closing"} /\ limiter # "running"
                      /\ http \notin {"starting", "listening", "draining"}
                      /\ admin # "listening"
                      /\ \A g \in Goroutines : Running(g) => stopErr = "timeout"
    BY DEF NothingLeaks
  <2>1. Depth = 0 /\ closing = "none"
    BY DEF LifecycleInv, ExitAccounted
  <2> QED BY <2>1 DEF LifecycleInv, ResourcesHeld, Held
<1> QED BY <1>1, LifecycleInvariant, PTL

\* Exit status 0 means that a stop was asked for, that no request or goroutine
\* was cut off, and that the only claimed rows left sending are those a failed
\* statement of their own left so.
THEOREM ExitZero == Spec => []ExitZeroMeansClean
<1>1. LifecycleInv => ExitZeroMeansClean
  <2> SUFFICES ASSUME LifecycleInv, main = "exited", ~failed
               PROVE  /\ signalled /\ AllReturned
                      /\ stranded \subseteq {"unsaved"}
                      /\ \A q \in Requests : request[q] = "none"
    BY DEF ExitZeroMeansClean
  <2>1. /\ Depth = 0 /\ closing = "none" /\ ~forced /\ stopErr # "timeout"
        /\ http # "timed_out"
    BY DEF LifecycleInv, ExitAccounted, StopAccounted
  <2>2. signalled
    BY <2>1 DEF LifecycleInv, ExitAccounted
  <2>3. stranded \subseteq {"unsaved"}
    BY <2>1 DEF LifecycleInv, StopAccounted, TypeOK, DispatcherTyped
  <2>4. AllReturned
    BY <2>1 DEF LifecycleInv, ResourcesHeld, Held, AllReturned
  <2>5. \A q \in Requests : request[q] = "none"
    BY <2>1 DEF LifecycleInv, ResourcesHeld, Held, TypeOK, ServingTyped
  <2> QED BY <2>2, <2>3, <2>4, <2>5
<1> QED BY <1>1, LifecycleInvariant, PTL
==============================================================================
