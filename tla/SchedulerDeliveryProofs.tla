----------------------- MODULE SchedulerDeliveryProofs -----------------------
(***************************************************************************)
(* Further proofs about Scheduler: the order of the requests and the calls *)
(* of the clients (for every set of faults), and what a consumer gets and  *)
(* which request is admitted (where the invariant IInv holds).             *)
(***************************************************************************)
EXTENDS SchedulerProofs, DataLemmas

(***************************************************************************)
(* The order of the requests.                                              *)
(***************************************************************************)
Elements(s) == { s[i] : i \in DOMAIN s }
Once(s) == \A i, j \in DOMAIN s : s[i] = s[j] => i = j

OrderInv ==
    /\ mailbox \in Seq(Calls) /\ commands \in Seq(Calls)
    /\ OrderMatchesRequests

LEMMA ElementsAppend ==
    ASSUME NEW X, NEW s \in Seq(X), NEW e \in X
    PROVE  /\ Append(s, e) \in Seq(X) /\ Elements(Append(s, e)) = Elements(s) \cup {e}
           /\ Once(s) /\ e \notin Elements(s) => Once(Append(s, e))
<1> DEFINE t == Append(s, e)
           n == Len(s)
<1>1. /\ t \in Seq(X) /\ n \in Nat /\ DOMAIN s = 1..n /\ DOMAIN t = 1..(n + 1)
      /\ t[n + 1] = e /\ \A i \in 1..n : t[i] = s[i]
  OBVIOUS
<1> HIDE DEF t, n
<1>2. Elements(t) = Elements(s) \cup {e}
  <2>1. ASSUME NEW i \in DOMAIN t PROVE t[i] \in Elements(s) \cup {e}
    <3>1. i \in 1..n \/ i = n + 1
      BY <1>1
    <3> QED BY <1>1, <3>1 DEF Elements
  <2>2. e \in Elements(t)
    BY <1>1 DEF Elements
  <2>3. ASSUME NEW i \in DOMAIN s PROVE s[i] \in Elements(t)
    <3>1. i \in DOMAIN t /\ t[i] = s[i]
      BY <1>1
    <3> QED BY <3>1 DEF Elements
  <2> QED BY <2>1, <2>2, <2>3 DEF Elements
<1>3. ASSUME Once(s), e \notin Elements(s) PROVE Once(t)
  <2>1. \A i \in 1..n : t[i] # e
    BY <1>1, <1>3 DEF Elements
  <2>2. \A i, j \in 1..n : t[i] = t[j] => i = j
    BY <1>1, <1>3 DEF Once
  <2> QED BY <1>1, <2>1, <2>2 DEF Once
<1> QED BY <1>1, <1>2, <1>3 DEF t

\* Rotating loses nothing and repeats nothing.
LEMMA RotateKeeps ==
    ASSUME NEW X, NEW s \in Seq(X), Once(s)
    PROVE  Rotate(s) \in Seq(X) /\ Elements(Rotate(s)) = Elements(s) /\ Once(Rotate(s))
<1>1. CASE s = <<>>
  BY <1>1 DEF Rotate
<1>2. CASE s # <<>>
  <2> DEFINE t == Tail(s)
             h == Head(s)
             n == Len(s)
  <2>1. /\ t \in Seq(X) /\ h \in X /\ h = s[1] /\ n \in Nat \ {0}
        /\ DOMAIN s = 1..n /\ DOMAIN t = 1..(n - 1) /\ \A i \in 1..(n - 1) : t[i] = s[i + 1]
    BY <1>2
  <2>2. Rotate(s) = Append(t, h)
    BY <1>2 DEF Rotate
  <2> HIDE DEF t, h, n
  <2>3. Once(t) /\ h \notin Elements(t)
    <3>1. \A i \in 1..(n - 1) : i + 1 \in 1..n /\ i + 1 # 1
      BY <2>1
    <3>2. \A i, j \in 1..(n - 1) : t[i] = t[j] => i + 1 = j + 1
      BY <2>1, <3>1 DEF Once
    <3>3. ASSUME NEW i \in 1..(n - 1) PROVE t[i] # h
      <4>1. t[i] = s[i + 1] /\ i + 1 \in DOMAIN s /\ 1 \in DOMAIN s /\ i + 1 # 1
        BY <2>1, <3>1
      <4> QED BY <2>1, <4>1 DEF Once
    <3> QED BY <2>1, <3>2, <3>3 DEF Once, Elements
  <2>4. Elements(s) = Elements(t) \cup {h}
    <3>1. ASSUME NEW i \in DOMAIN s PROVE s[i] \in Elements(t) \cup {h}
      <4>1. CASE i = 1
        BY <2>1, <4>1
      <4>2. CASE i # 1
        <5>1. i - 1 \in 1..(n - 1) /\ (i - 1) + 1 = i
          BY <2>1, <4>2
        <5>2. t[i - 1] = s[i] /\ i - 1 \in DOMAIN t
          BY <2>1, <5>1
        <5> QED BY <5>2 DEF Elements
      <4> QED BY <4>1, <4>2
    <3>2. ASSUME NEW i \in DOMAIN t PROVE t[i] \in Elements(s)
      <4>1. i + 1 \in DOMAIN s /\ t[i] = s[i + 1]
        BY <2>1
      <4> QED BY <4>1 DEF Elements
    <3>3. h \in Elements(s)
      BY <2>1 DEF Elements
    <3> QED BY <3>1, <3>2, <3>3 DEF Elements
  <2> QED BY <2>1, <2>2, <2>3, <2>4, ElementsAppend
<1> QED BY <1>1, <1>2

\* Of the loop's steps only two touch the requests' order.
LEMMA OrderFrame ==
    ASSUME Next
    PROVE  Submit \/ Erase \/ UNCHANGED << live, order >>
<1>1. ASSUME NEW r \in Streams, Scan(r) PROVE UNCHANGED << live, order >>
  BY <1>1 DEF Scan, Flush, ExamineEnding, ExamineOngoing, AdmitAccepted, AdmitDeferred, AdmitRejected,
              AdmitThrows, Scanned
<1>2. ASSUME Loop PROVE Submit \/ Erase \/ UNCHANGED << live, order >>
  <2>1. Swap \/ BeginScan \/ EndScan \/ EngineStep => UNCHANGED << live, order >>
    BY DEF Swap, BeginScan, EndScan, EngineStep
  <2>2. CancelCommand \/ Control \/ Session \/ Status \/ ReloadCommand => UNCHANGED << live, order >>
    BY DEF CancelCommand, Control, Session, Status, ReloadCommand
  <2>3. EndPublish \/ Recover \/ RecoverUnknown \/ Exit => UNCHANGED << live, order >>
    BY DEF EndPublish, Recover, RecoverUnknown, Exit
  <2>4. (\E s \in Streams : PublishNext(s)) => UNCHANGED << live, order >>
    BY DEF PublishNext, loopVars
  <2> QED BY <1>1, <1>2, <2>1, <2>2, <2>3, <2>4 DEF Loop
<1>3. Shutdown \/ (\E c \in Calls : Enqueue(c)) \/ (\E r \in Streams : Wait(r) \/ Elapse(r))
         => UNCHANGED << live, order >>
  BY DEF Shutdown, Enqueue, Wait, Elapse, loopVars
<1>4. Stopped => UNCHANGED << live, order >>
  BY DEF Stopped, vars, loopVars
<1> QED BY <1>2, <1>3, <1>4 DEF Next

LEMMA MailFrame ==
    ASSUME OrderInv, Next
    PROVE  mailbox' \in Seq(Calls) /\ commands' \in Seq(Calls)
<1>1. mailbox \in Seq(Calls) /\ commands \in Seq(Calls)
  BY DEF OrderInv
<1>2. ASSUME NEW op, Take(op) PROVE commands' \in Seq(Calls) /\ mailbox' = mailbox
  BY <1>1, <1>2 DEF Take
<1>3. Submit \/ CancelCommand \/ Control \/ Session \/ Status \/ ReloadCommand => \E op : Take(op)
  BY DEF Submit, CancelCommand, Control, Session, Status, ReloadCommand
<1>4. Swap => commands' \in Seq(Calls) /\ mailbox' \in Seq(Calls)
  BY <1>1 DEF Swap
<1>5. ASSUME NEW c \in Calls, Enqueue(c) PROVE commands' = commands /\ mailbox' \in Seq(Calls)
  BY <1>1, <1>5 DEF Enqueue, loopVars
<1>6. BeginScan \/ EndScan \/ EngineStep \/ EndPublish \/ Recover \/ RecoverUnknown \/ Erase \/ Exit
         => UNCHANGED << mailbox, commands >>
  BY DEF BeginScan, EndScan, EngineStep, EndPublish, Recover, RecoverUnknown, Erase, Exit, clientVars
<1>7. ASSUME NEW r \in Streams, Scan(r) \/ PublishNext(r) PROVE UNCHANGED << mailbox, commands >>
  BY <1>7 DEF Scan, Flush, ExamineEnding, ExamineOngoing, AdmitAccepted, AdmitDeferred, AdmitRejected,
              AdmitThrows, Scanned, PublishNext, clientVars, loopVars
<1>8. Shutdown \/ Stopped \/ (\E r \in Streams : Wait(r) \/ Elapse(r)) => UNCHANGED << mailbox, commands >>
  BY DEF Shutdown, Stopped, Wait, Elapse, loopVars, clientVars, vars
<1> QED BY <1>1, <1>2, <1>3, <1>4, <1>5, <1>6, <1>7, <1>8 DEF Next, Loop

LEMMA SubmitOrder ==
    ASSUME OrderInv, Submit
    PROVE  OrderMatchesRequests'
<1> DEFINE r == Head(commands).stream
<1>1. r \in Streams
  <2>1. Head(commands) \in Calls /\ Head(commands).op = "submit"
    BY DEF OrderInv, Submit, Take
  <2>2. Head(commands) \in CallType
    BY <2>1, SchedulerAssumption
  <2> QED BY <2>1, <2>2 DEF CallType
<1>2. order \in Seq(Streams) /\ Elements(order) = live /\ Once(order)
  BY DEF OrderInv, OrderMatchesRequests, Elements, Once
<1>3. CASE Accepts(r)
  <2>1. live' = live \cup {r} /\ order' = Append(order, r)
    BY <1>3 DEF Submit
  <2>2. r \notin Elements(order)
    BY <1>2, <1>3 DEF Accepts
  <2> HIDE DEF r
  <2>3. order' \in Seq(Streams) /\ Elements(order') = live' /\ Once(order')
    BY <1>1, <1>2, <2>1, <2>2, ElementsAppend
  <2> QED BY <2>3 DEF OrderMatchesRequests, Elements, Once
<1>4. CASE ~Accepts(r)
  <2>1. live' = live /\ order' = order
    BY <1>4 DEF Submit
  <2> QED BY <2>1 DEF OrderInv, OrderMatchesRequests
<1> QED BY <1>3, <1>4

\* Erasing keeps the others.
LEMMA FilterKeeps ==
    ASSUME NEW X, NEW s \in Seq(X), NEW S
    PROVE  /\ Filter(s, S) \in Seq(X)
           /\ Elements(Filter(s, S)) = Elements(s) \cap S
           /\ Once(s) => Once(Filter(s, S))
  BY FilterElements DEF Elements, Once

LEMMA EraseOrder ==
    ASSUME OrderInv, Erase
    PROVE  OrderMatchesRequests'
<1> DEFINE f == Filter(order, Remaining)
<1>1. order \in Seq(Streams) /\ Elements(order) = live /\ Once(order)
  BY DEF OrderInv, OrderMatchesRequests, Elements, Once
<1>2. live' = Remaining /\ order' = Rotate(f) /\ live \cap Remaining = Remaining
  BY DEF Erase, Remaining
<1>3. /\ f \in Seq(Streams) /\ Elements(f) = Elements(order) \cap Remaining
      /\ Once(order) => Once(f)
  BY <1>1, FilterKeeps
<1> HIDE DEF f
<1>4. order' \in Seq(Streams) /\ Elements(order') = Elements(f) /\ Once(order')
  BY <1>1, <1>2, <1>3, RotateKeeps
<1>5. Elements(order') = live'
  BY <1>1, <1>2, <1>3, <1>4
<1> QED BY <1>4, <1>5 DEF OrderMatchesRequests, Elements, Once

\* scheduler.cpp:328-334, 411-425: order_ lists the active requests, each once, whatever
\* the engine throws and however requests end: requests_.at(id) never throws.
THEOREM OrderAlwaysMatches == Spec => []OrderMatchesRequests
<1>1. Init => OrderInv
  <2> SUFFICES ASSUME Init PROVE OrderInv
    OBVIOUS
  <2>1. mailbox = <<>> /\ commands = <<>> /\ order = <<>> /\ live = {}
    BY DEF Init
  <2>2. { order[i] : i \in DOMAIN order } = {}
    BY <2>1
  <2> QED BY <2>1, <2>2 DEF OrderInv, OrderMatchesRequests
<1>2. OrderInv /\ [Next]_vars => OrderInv'
  <2> SUFFICES ASSUME OrderInv, [Next]_vars PROVE OrderInv'
    OBVIOUS
  <2>1. CASE Next
    <3>1. OrderMatchesRequests'
      <4>1. CASE UNCHANGED << live, order >>
        BY <4>1 DEF OrderInv, OrderMatchesRequests
      <4> QED BY <2>1, <4>1, OrderFrame, SubmitOrder, EraseOrder
    <3> QED BY <2>1, <3>1, MailFrame DEF OrderInv
  <2>2. CASE UNCHANGED vars
    BY <2>2 DEF OrderInv, OrderMatchesRequests, vars, clientVars, loopVars
  <2> QED BY <2>1, <2>2
<1>3. OrderInv => OrderMatchesRequests
  BY DEF OrderInv
<1> QED BY <1>1, <1>2, <1>3, PTL DEF Spec

(***************************************************************************)
(* The clients' calls.                                                     *)
(***************************************************************************)
CallTypeOK ==
    /\ mailbox \in Seq(Calls) /\ commands \in Seq(Calls) /\ reload \subseteq Calls
    /\ call \in [Calls -> CallState]

\* A command that is taken out is answered, unless it becomes the pending reload.
LEMMA TakeCall ==
    ASSUME CallTypeOK, CallInv, NEW op, Take(op), call' \in [Calls -> CallState],
           reload \subseteq reload', reload' \subseteq reload \cup {Head(commands)},
           \A c \in Calls \ {Head(commands)} : call'[c] = call[c],
           Head(commands) \in reload' \/ call'[Head(commands)] # "sent"
    PROVE  CallTypeOK' /\ CallInv'
<1> DEFINE h == Head(commands)
<1>1. /\ commands \in Seq(Calls) /\ commands # <<>> /\ commands' = Tail(commands)
      /\ UNCHANGED << mailbox, stopping, pc, stop >> /\ pc = "command"
  BY DEF Take, CallTypeOK
<1>2. h \in Calls /\ commands' \in Seq(Calls)
  BY <1>1
<1>3. CallTypeOK'
  BY <1>1, <1>2 DEF CallTypeOK
<1>4. ASSUME NEW c \in Calls, call'[c] = "sent"
      PROVE  \/ \E i \in DOMAIN mailbox' : mailbox'[i] = c
             \/ \E i \in DOMAIN commands' : commands'[i] = c
             \/ c \in reload'
  <2>1. CASE c = h
    BY <1>4, <2>1
  <2>2. CASE c # h
    <3>1. call[c] = "sent"
      BY <1>4, <2>2
    <3>2. CASE \E i \in DOMAIN mailbox : mailbox[i] = c
      BY <1>1, <3>2
    <3>3. CASE c \in reload
      BY <3>3
    <3>4. CASE \E i \in DOMAIN commands : commands[i] = c
      <4>1. PICK i \in DOMAIN commands : commands[i] = c
        BY <3>4
      <4>2. i # 1 /\ i \in 1..Len(commands) /\ Len(commands) \in Nat
        BY <1>1, <2>2, <4>1
      <4>3. i - 1 \in DOMAIN commands' /\ commands'[i - 1] = commands[i]
        BY <1>1, <4>2
      <4> QED BY <4>1, <4>3
    <3> QED BY <3>1, <3>2, <3>3, <3>4 DEF CallInv
  <2> QED BY <2>1, <2>2
<1>5. stop' => stopping' /\ mailbox' = <<>>
  BY <1>1 DEF CallInv
<1> QED BY <1>1, <1>3, <1>4, <1>5 DEF CallInv

LEMMA ReplyCall ==
    ASSUME CallTypeOK, NEW op, Take(op), NEW answer \in {"ok", "error"}, Reply(answer)
    PROVE  /\ call' \in [Calls -> CallState] /\ call'[Head(commands)] # "sent"
           /\ \A c \in Calls \ {Head(commands)} : call'[c] = call[c]
<1>1. Head(commands) \in Calls /\ call \in [Calls -> CallState]
  BY DEF Take, CallTypeOK
<1> QED BY <1>1 DEF Reply, CallState

LEMMA CommandCall ==
    ASSUME CallTypeOK, CallInv,
           Submit \/ CancelCommand \/ Control \/ Session \/ Status \/ ReloadCommand
    PROVE  CallTypeOK' /\ CallInv'
<1>1. \E op : Take(op)
  BY DEF Submit, CancelCommand, Control, Session, Status, ReloadCommand
<1>2. PICK op : Take(op)
  BY <1>1
<1>3. \/ reload' = reload /\ \E answer \in {"ok", "error"} : Reply(answer)
      \/ reload' = {Head(commands)} /\ reload = {} /\ call' = call
  BY DEF Submit, CancelCommand, Control, Session, Status, ReloadCommand, EngineCall
<1>4. CASE reload' = reload /\ \E answer \in {"ok", "error"} : Reply(answer)
  <2>1. PICK answer \in {"ok", "error"} : Reply(answer)
    BY <1>4
  <2>2. /\ call' \in [Calls -> CallState] /\ call'[Head(commands)] # "sent"
        /\ \A c \in Calls \ {Head(commands)} : call'[c] = call[c]
    BY <1>2, <2>1, ReplyCall
  <2> QED BY <1>2, <1>4, <2>2, TakeCall
<1>5. CASE reload' = {Head(commands)} /\ reload = {} /\ call' = call
  <2>1. call' \in [Calls -> CallState]
    BY <1>5 DEF CallTypeOK
  <2> QED BY <1>2, <1>5, <2>1, TakeCall
<1> QED BY <1>3, <1>4, <1>5

LEMMA EnqueueCall ==
    ASSUME CallTypeOK, CallInv, NEW c \in Calls, Enqueue(c)
    PROVE  CallTypeOK' /\ CallInv'
<1>1. UNCHANGED << stopping, commands, stop, reload, pc >>
  BY DEF Enqueue, loopVars
<1>2. mailbox \in Seq(Calls) /\ call \in [Calls -> CallState]
  BY DEF CallTypeOK
<1>3. CASE stopping
  <2>1. mailbox' = mailbox /\ call' = [call EXCEPT ![c] = "refused"]
    BY <1>3 DEF Enqueue
  <2> QED BY <1>1, <1>2, <2>1 DEF CallTypeOK, CallInv, CallState
<1>4. CASE ~stopping
  <2>1. mailbox' = Append(mailbox, c) /\ call' = [call EXCEPT ![c] = "sent"]
    BY <1>4 DEF Enqueue
  <2>2. /\ mailbox' \in Seq(Calls) /\ DOMAIN mailbox = 1..Len(mailbox) /\ Len(mailbox) \in Nat
        /\ DOMAIN mailbox' = 1..(Len(mailbox) + 1) /\ mailbox'[Len(mailbox) + 1] = c
        /\ \A i \in 1..Len(mailbox) : mailbox'[i] = mailbox[i]
    BY <1>2, <2>1
  <2>3. CallTypeOK'
    BY <1>1, <1>2, <2>1, <2>2 DEF CallTypeOK, CallState
  <2>4. ASSUME NEW d \in Calls, call'[d] = "sent"
        PROVE  \/ \E i \in DOMAIN mailbox' : mailbox'[i] = d
               \/ \E i \in DOMAIN commands' : commands'[i] = d
               \/ d \in reload'
    <3>1. CASE d = c
      BY <2>2, <3>1
    <3>2. CASE d # c
      <4>1. call[d] = "sent"
        BY <1>2, <2>1, <2>4, <3>2
      <4>2. CASE \E i \in DOMAIN mailbox : mailbox[i] = d
        BY <2>2, <4>2
      <4> QED BY <1>1, <4>1, <4>2 DEF CallInv
    <3> QED BY <3>1, <3>2
  <2>5. ~stop
    BY <1>4 DEF CallInv
  <2> QED BY <1>1, <2>3, <2>4, <2>5 DEF CallInv
<1> QED BY <1>3, <1>4

LEMMA SwapCall ==
    ASSUME CallTypeOK, CallInv, Swap
    PROVE  CallTypeOK' /\ CallInv'
<1>1. /\ commands' = mailbox /\ mailbox' = <<>> /\ stop' = stopping /\ pc = "swap"
      /\ pc' = "command" /\ UNCHANGED << stopping, call, reload >>
  BY DEF Swap
<1>2. commands = <<>>
  BY <1>1 DEF CallInv
<1> QED BY <1>1, <1>2 DEF CallTypeOK, CallInv

LEMMA EraseCall ==
    ASSUME CallTypeOK, CallInv, Erase
    PROVE  CallTypeOK' /\ CallInv'
<1>1. /\ pc = "erase" /\ pc' = (IF stop /\ Remaining = {} THEN "exit" ELSE "swap")
      /\ UNCHANGED << mailbox, stopping, commands, stop >>
  BY DEF Erase
<1>2. commands = <<>> /\ commands' = <<>>
  BY <1>1 DEF CallInv
<1>3. \/ UNCHANGED << call, reload >> /\ (reload = {} \/ Remaining # {})
      \/ /\ reload' = {}
         /\ \E answer \in {"ok", "error"} :
               call' = [c \in Calls |-> IF c \in reload THEN answer ELSE call[c]]
  BY DEF Erase, FinishReload
<1>4. CASE UNCHANGED << call, reload >> /\ (reload = {} \/ Remaining # {})
  BY <1>1, <1>2, <1>4 DEF CallTypeOK, CallInv
<1>5. CASE /\ reload' = {}
           /\ \E answer \in {"ok", "error"} :
                 call' = [c \in Calls |-> IF c \in reload THEN answer ELSE call[c]]
  <2>1. PICK answer \in {"ok", "error"} :
           call' = [c \in Calls |-> IF c \in reload THEN answer ELSE call[c]]
    BY <1>5
  <2>2. CallTypeOK'
    BY <1>1, <1>5, <2>1 DEF CallTypeOK, CallState
  <2>3. \A c \in Calls : call'[c] = "sent" => call[c] = "sent" /\ c \notin reload
    BY <2>1
  <2> QED BY <1>1, <1>2, <1>5, <2>2, <2>3 DEF CallInv
<1> QED BY <1>3, <1>4, <1>5

\* The other steps of the loop leave the calls alone.
LEMMA OtherCall ==
    ASSUME CallTypeOK, CallInv,
           \/ BeginScan \/ EndScan \/ EngineStep \/ EndPublish \/ Recover \/ RecoverUnknown \/ Exit
           \/ (\E r \in Streams : Scan(r) \/ PublishNext(r))
    PROVE  CallTypeOK' /\ CallInv'
<1>1. BeginScan \/ EndScan \/ EngineStep \/ EndPublish \/ Recover \/ RecoverUnknown
         => UNCHANGED << mailbox, stopping, call, commands, stop, reload >>
            /\ commands = <<>> /\ pc' \notin {"exit", "done"}
  BY DEF BeginScan, EndScan, EngineStep, EndPublish, Recover, RecoverUnknown, clientVars, CallInv
<1>2. ASSUME NEW r \in Streams, Scan(r) \/ PublishNext(r)
      PROVE  UNCHANGED << mailbox, stopping, call, commands, stop, reload >>
             /\ pc \in {"flush", "examine", "publish"} /\ pc' \notin {"exit", "done"}
  BY <1>2 DEF Scan, Flush, Locked, ExamineEnding, ExamineOngoing, AdmitAccepted, AdmitDeferred, AdmitRejected,
              AdmitThrows, Scanned, Examining, PublishNext, clientVars, loopVars
<1>3. Exit => UNCHANGED << mailbox, stopping, call, commands, stop, reload >>
              /\ pc = "exit" /\ pc' = "done"
  BY DEF Exit, clientVars
<1>4. /\ UNCHANGED << mailbox, stopping, call, commands, stop, reload >> /\ commands = <<>>
      /\ pc' \in {"exit", "done"} => pc = "exit"
  BY <1>1, <1>2, <1>3 DEF CallInv
<1> QED BY <1>4 DEF CallTypeOK, CallInv

\* scheduler.cpp:71-76, 244, 426: when the loop has left, no caller is left without an
\* answer, whatever the engine throws and whenever shutdown() comes.
THEOREM NoCallerIsAbandoned == Spec => []NoCallerAbandoned
<1>1. Init => CallTypeOK /\ CallInv
  BY DEF Init, CallTypeOK, CallInv, CallState
<1>2. CallTypeOK /\ CallInv /\ [Next]_vars => (CallTypeOK /\ CallInv)'
  <2> SUFFICES ASSUME CallTypeOK, CallInv, [Next]_vars PROVE (CallTypeOK /\ CallInv)'
    OBVIOUS
  <2>1. CASE Loop
    BY <2>1, CommandCall, SwapCall, EraseCall, OtherCall DEF Loop
  <2>2. CASE \E c \in Calls : Enqueue(c)
    BY <2>2, EnqueueCall
  <2>3. CASE (\E r \in Streams : Wait(r) \/ Elapse(r)) \/ Stopped \/ UNCHANGED vars
    <3>1. UNCHANGED << mailbox, stopping, call, commands, stop, reload, pc >>
      BY <2>3 DEF Wait, Elapse, Stopped, vars, clientVars, loopVars
    <3> QED BY <3>1 DEF CallTypeOK, CallInv
  <2>4. CASE Shutdown
    <3>1. UNCHANGED << mailbox, call, commands, stop, reload, pc >> /\ stopping' = TRUE
      BY <2>4 DEF Shutdown, loopVars
    <3> QED BY <3>1 DEF CallTypeOK, CallInv
  <2> QED BY <2>1, <2>2, <2>3, <2>4 DEF Next
<1>3. CallInv => NoCallerAbandoned
  <2> SUFFICES ASSUME CallInv, pc = "done" PROVE mailbox = <<>> /\ \A c \in Calls : call[c] # "sent"
    BY DEF NoCallerAbandoned
  <2>1. mailbox = <<>> /\ commands = <<>> /\ reload = {}
    BY DEF CallInv
  <2> QED BY <2>1 DEF CallInv
<1> QED BY <1>1, <1>2, <1>3, PTL DEF Spec

(***************************************************************************)
(* Sequences of events: what appending to one, or taking its head off,     *)
(* does to the predicates DeliveryInv is made of.                          *)
(***************************************************************************)

\* The sequence number and the kind of an event.
LEMMA EventParts ==
    \A e \in Event : e.seq \in Nat /\ e.kind \in EndKinds \cup {"value"}
BY DEF Event, ValueEvent, EndEvent

\* Nothing is wrong with no events.
LEMMA EmptyFacts ==
    /\ \A low, high : Within(<<>>, low, high)
    /\ Rising(<<>>) /\ (\A u : Below(<<>>, u) /\ Below(u, <<>>))
    /\ (\A n : Consecutive(<<>>, n)) /\ Kinds(<<>>) = {} /\ ValueCount(<<>>) = 0
    /\ <<>> \in Seq(Event)
<1>1. DOMAIN <<>> = {} /\ Len(<<>>) = 0 /\ <<>> \in Seq(Event)
  OBVIOUS
<1> QED BY <1>1 DEF Within, Rising, Below, Consecutive, Kinds, ValueCount

\* A terminal event carries no value to be ordered.
LEMMA EndFacts ==
    ASSUME NEW e, IsEnd(e)
    PROVE  /\ \A u : Below(u, <<e>>) /\ Below(<<e>>, u)
           /\ \A low, high : Within(<<e>>, low, high)
           /\ \A n : Consecutive(<<e>>, n)
<1>1. DOMAIN <<e>> = {1} /\ <<e>>[1] = e
  OBVIOUS
<1> QED BY <1>1 DEF Below, Within, Consecutive

\* A single event.
LEMMA SingleFacts ==
    ASSUME NEW e
    PROVE  /\ \A low, high : Within(<<e>>, low, high) <=> (~IsEnd(e) => low < e.seq /\ e.seq <= high)
           /\ \A u : Below(u, <<e>>) <=>
                       \A i \in DOMAIN u : ~IsEnd(u[i]) /\ ~IsEnd(e) => u[i].seq < e.seq
           /\ \A u : Below(<<e>>, u) <=>
                       \A i \in DOMAIN u : ~IsEnd(u[i]) /\ ~IsEnd(e) => e.seq < u[i].seq
<1>1. DOMAIN <<e>> = {1} /\ <<e>>[1] = e
  OBVIOUS
<1> QED BY <1>1 DEF Below, Within

\* The positions of a sequence with one more event.
LEMMA AppendAt ==
    ASSUME NEW s \in Seq(Event), NEW e \in Event
    PROVE  LET t == Append(s, e)
           IN  /\ t \in Seq(Event) /\ Len(t) = Len(s) + 1 /\ t[Len(s) + 1] = e /\ t # <<>>
               /\ \A i \in DOMAIN t : (i \in DOMAIN s /\ t[i] = s[i]) \/ (i = Len(s) + 1 /\ t[i] = e)
               /\ \A i \in DOMAIN s : i \in DOMAIN t /\ t[i] = s[i]
               /\ Len(s) + 1 \in DOMAIN t /\ (\A i \in DOMAIN s : i \in Nat /\ i <= Len(s))
OBVIOUS

\* The positions of a sequence without its head.
LEMMA TailAt ==
    ASSUME NEW s \in Seq(Event), s # <<>>
    PROVE  LET t == Tail(s)
           IN  /\ t \in Seq(Event) /\ Len(t) = Len(s) - 1 /\ s[1] \in Event /\ 1 \in DOMAIN s
               /\ \A i \in DOMAIN t : /\ i \in Nat /\ i + 1 \in DOMAIN s /\ t[i] = s[i + 1]
                                      /\ 1 < i + 1
               /\ \A i \in DOMAIN s : i \in Nat /\ (i = 1 \/ (i - 1 \in DOMAIN t /\ t[i - 1] = s[i]))
OBVIOUS

\* Appending an event.
LEMMA AppendFacts ==
    ASSUME NEW s \in Seq(Event), NEW e \in Event
    PROVE  LET t == Append(s, e)
           IN  /\ \A low, high : Within(s, low, high) /\ Within(<<e>>, low, high)
                                    => Within(t, low, high)
               /\ Rising(s) /\ Below(s, <<e>>) => Rising(t)
               /\ \A u : Below(s, u) /\ Below(<<e>>, u) => Below(t, u)
               /\ \A u : Below(u, s) /\ Below(u, <<e>>) => Below(u, t)
               /\ \A n : Consecutive(s, n) /\ (IsEnd(e) \/ e.seq = n + (Len(s) + 1))
                            => Consecutive(t, n)
               /\ Kinds(t) = Kinds(s) \cup {e.kind}
               /\ ValueCount(t) = IF IsEnd(e) THEN Len(s) ELSE Len(s) + 1
<1> DEFINE t == Append(s, e)
<1>1. /\ t \in Seq(Event) /\ Len(t) = Len(s) + 1 /\ t[Len(s) + 1] = e /\ t # <<>>
      /\ \A i \in DOMAIN t : (i \in DOMAIN s /\ t[i] = s[i]) \/ (i = Len(s) + 1 /\ t[i] = e)
      /\ \A i \in DOMAIN s : i \in DOMAIN t /\ t[i] = s[i]
      /\ Len(s) + 1 \in DOMAIN t /\ (\A i \in DOMAIN s : i \in Nat /\ i <= Len(s))
  BY AppendAt
<1>2. Len(s) \in Nat
  OBVIOUS
<1> HIDE DEF t
<1>3. ASSUME NEW low, NEW high, Within(s, low, high), Within(<<e>>, low, high)
      PROVE  Within(t, low, high)
  BY <1>1, <1>3, SingleFacts DEF Within
<1>4. ASSUME Rising(s), Below(s, <<e>>) PROVE Rising(t)
  <2> SUFFICES ASSUME NEW i \in DOMAIN t, NEW j \in DOMAIN t, i < j, ~IsEnd(t[i]), ~IsEnd(t[j])
               PROVE  t[i].seq < t[j].seq
    BY DEF Rising
  <2>1. i \in DOMAIN s /\ t[i] = s[i]
    BY <1>1, <1>2
  <2>2. \A k \in DOMAIN s : ~IsEnd(s[k]) /\ ~IsEnd(e) => s[k].seq < e.seq
    BY <1>4, SingleFacts
  <2> QED BY <1>1, <1>4, <2>1, <2>2 DEF Rising
<1>5. ASSUME NEW u, Below(s, u), Below(<<e>>, u) PROVE Below(t, u)
  BY <1>1, <1>5, SingleFacts DEF Below
<1>6. ASSUME NEW u, Below(u, s), Below(u, <<e>>) PROVE Below(u, t)
  BY <1>1, <1>6, SingleFacts DEF Below
<1>7. ASSUME NEW n, Consecutive(s, n), IsEnd(e) \/ e.seq = n + (Len(s) + 1)
      PROVE  Consecutive(t, n)
  BY <1>1, <1>7 DEF Consecutive
<1>8. Kinds(t) = Kinds(s) \cup {e.kind}
  BY <1>1 DEF Kinds
<1>9. ValueCount(t) = IF IsEnd(e) THEN Len(s) ELSE Len(s) + 1
  BY <1>1, <1>2 DEF ValueCount
<1> QED BY <1>3, <1>4, <1>5, <1>6, <1>7, <1>8, <1>9 DEF t

\* Taking the head off.
LEMMA TailFacts ==
    ASSUME NEW s \in Seq(Event), s # <<>>
    PROVE  LET t == Tail(s)
               e == s[1]
           IN  /\ \A low, high : Within(s, low, high)
                                    => Within(t, low, high) /\ Within(<<e>>, low, high)
               /\ Rising(s) => Rising(t) /\ Below(<<e>>, t)
               /\ \A u : Below(s, u) => Below(t, u) /\ Below(<<e>>, u)
               /\ \A u : Below(u, s) => Below(u, t) /\ Below(u, <<e>>)
               /\ \A n \in Nat : Consecutive(s, n) => Consecutive(t, n + 1)
                                                       /\ (IsEnd(e) \/ e.seq = n + 1)
               /\ Kinds(s) = Kinds(t) \cup {e.kind}
               /\ ~IsEnd(e) => ValueCount(s) = ValueCount(t) + 1
<1> DEFINE t == Tail(s)
           e == s[1]
<1>1. /\ t \in Seq(Event) /\ Len(t) = Len(s) - 1 /\ e \in Event /\ 1 \in DOMAIN s
      /\ \A i \in DOMAIN t : i \in Nat /\ i + 1 \in DOMAIN s /\ t[i] = s[i + 1] /\ 1 < i + 1
      /\ \A i \in DOMAIN s : i \in Nat /\ (i = 1 \/ (i - 1 \in DOMAIN t /\ t[i - 1] = s[i]))
  BY TailAt
<1>2. Len(s) \in Nat /\ Len(t) \in Nat
  OBVIOUS
<1>e. s[1] = e
  OBVIOUS
<1> HIDE DEF t, e
<1>3. ASSUME NEW low, NEW high, Within(s, low, high)
      PROVE  Within(t, low, high) /\ Within(<<e>>, low, high)
  BY <1>1, <1>e, <1>3, SingleFacts DEF Within
<1>4. ASSUME Rising(s) PROVE Rising(t) /\ Below(<<e>>, t)
  <2>1. ASSUME NEW i \in DOMAIN t, NEW j \in DOMAIN t, i < j, ~IsEnd(t[i]), ~IsEnd(t[j])
        PROVE  t[i].seq < t[j].seq
    <3>1. /\ i + 1 \in DOMAIN s /\ j + 1 \in DOMAIN s /\ i + 1 < j + 1
          /\ t[i] = s[i + 1] /\ t[j] = s[j + 1]
      BY <1>1, <2>1
    <3> QED BY <1>4, <2>1, <3>1 DEF Rising
  <2>2. \A i \in DOMAIN t : ~IsEnd(t[i]) /\ ~IsEnd(e) => e.seq < t[i].seq
    BY <1>1, <1>e, <1>4 DEF Rising
  <2> QED BY <2>1, <2>2, SingleFacts DEF Rising
<1>5. ASSUME NEW u, Below(s, u) PROVE Below(t, u) /\ Below(<<e>>, u)
  BY <1>1, <1>e, <1>5, SingleFacts DEF Below
<1>6. ASSUME NEW u, Below(u, s) PROVE Below(u, t) /\ Below(u, <<e>>)
  <2>1. \A i \in DOMAIN u : ~IsEnd(u[i]) /\ ~IsEnd(e) => u[i].seq < e.seq
    BY <1>1, <1>e, <1>6 DEF Below
  <2>2. Below(u, t)
    BY <1>1, <1>6 DEF Below
  <2> QED BY <2>1, <2>2, SingleFacts
<1>7. ASSUME NEW n \in Nat, Consecutive(s, n)
      PROVE  Consecutive(t, n + 1) /\ (IsEnd(e) \/ e.seq = n + 1)
  <2>1. ASSUME NEW i \in DOMAIN t, ~IsEnd(t[i]) PROVE t[i].seq = (n + 1) + i
    <3>1. i \in Nat /\ i + 1 \in DOMAIN s /\ t[i] = s[i + 1]
      BY <1>1
    <3>2. s[i + 1].seq = n + (i + 1)
      BY <1>7, <2>1, <3>1 DEF Consecutive
    <3>3. n + (i + 1) = (n + 1) + i
      BY <3>1
    <3> QED BY <3>1, <3>2, <3>3
  <2>2. IsEnd(e) \/ e.seq = n + 1
    BY <1>1, <1>e, <1>7 DEF Consecutive
  <2> QED BY <2>1, <2>2 DEF Consecutive
<1>8. Kinds(s) = Kinds(t) \cup {e.kind}
  <2>1. ASSUME NEW i \in DOMAIN s PROVE s[i].kind \in Kinds(t) \cup {e.kind}
    BY <1>1, <1>e DEF Kinds
  <2>2. ASSUME NEW i \in DOMAIN t PROVE t[i].kind \in Kinds(s)
    BY <1>1 DEF Kinds
  <2>3. e.kind \in Kinds(s)
    BY <1>1, <1>e DEF Kinds
  <2> QED BY <2>1, <2>2, <2>3 DEF Kinds
<1>9. ASSUME ~IsEnd(e) PROVE ValueCount(s) = ValueCount(t) + 1
  <2>1. CASE t = <<>>
    <3>1. Len(s) = 1 /\ s[Len(s)] = e
      BY <1>1, <1>2, <1>e, <2>1
    <3> QED BY <1>9, <2>1, <3>1 DEF ValueCount
  <2>2. CASE t # <<>>
    <3>1. Len(t) \in DOMAIN t /\ Len(t) + 1 = Len(s)
      BY <1>1, <1>2, <2>2
    <3>2. t[Len(t)] = s[Len(s)]
      BY <1>1, <3>1
    <3> QED BY <1>2, <2>2, <3>1, <3>2 DEF ValueCount
  <2> QED BY <2>1, <2>2
<1> QED BY <1>3, <1>4, <1>5, <1>6, <1>7, <1>8, <1>9 DEF t, e

(***************************************************************************)
(* InOrder is about three queues in a row: outbox, pending, and the events *)
(* of the step that are still to be published.  Moving the head of one to  *)
(* the end of the one before, dropping events and adding a terminal event  *)
(* keep the order.                                                         *)
(***************************************************************************)
Chain(a, b, c, low, high) ==
    /\ Within(a, low, high) /\ Within(b, low, high) /\ Within(c, low, high)
    /\ Rising(a) /\ Rising(b) /\ Rising(c)
    /\ Below(a, b) /\ Below(a, c) /\ Below(b, c)

\* InOrder in terms of the three queues.
LEMMA InOrderChain ==
    \A q, g, n, em :
        InOrder(q, g, n, em) <=> g.seq <= n /\ Chain(q.events, q.pending, em, g.seq, n)
BY DEF InOrder, Chain

\* The first waiting event moves into the outbox.
LEMMA ChainFlush ==
    ASSUME NEW a \in Seq(Event), NEW b \in Seq(Event), NEW c \in Seq(Event), b # <<>>,
           NEW low, NEW high, Chain(a, b, c, low, high)
    PROVE  Chain(Append(a, b[1]), Tail(b), c, low, high)
<1> DEFINE e == b[1]
<1>1. e \in Event
  OBVIOUS
<1>2. /\ Within(Tail(b), low, high) /\ Within(<<e>>, low, high)
      /\ Rising(Tail(b)) /\ Below(<<e>>, Tail(b))
      /\ Below(Tail(b), c) /\ Below(<<e>>, c)
      /\ Below(a, Tail(b)) /\ Below(a, <<e>>)
  BY TailFacts DEF Chain
<1> HIDE DEF e
<1>3. /\ Within(Append(a, e), low, high) /\ Rising(Append(a, e))
      /\ Below(Append(a, e), Tail(b)) /\ Below(Append(a, e), c)
  BY <1>1, <1>2, AppendFacts DEF Chain
<1> QED BY <1>2, <1>3 DEF Chain, e

\* The first event of the step is withheld.
LEMMA ChainWithhold ==
    ASSUME NEW a \in Seq(Event), NEW b \in Seq(Event), NEW c \in Seq(Event), c # <<>>,
           NEW low, NEW high, Chain(a, b, c, low, high)
    PROVE  Chain(a, Append(b, c[1]), Tail(c), low, high)
<1> DEFINE e == c[1]
<1>1. e \in Event
  OBVIOUS
<1>2. /\ Within(Tail(c), low, high) /\ Within(<<e>>, low, high)
      /\ Rising(Tail(c)) /\ Below(<<e>>, Tail(c))
      /\ Below(a, Tail(c)) /\ Below(a, <<e>>)
      /\ Below(b, Tail(c)) /\ Below(b, <<e>>)
  BY TailFacts DEF Chain
<1> HIDE DEF e
<1>3. /\ Within(Append(b, e), low, high) /\ Rising(Append(b, e))
      /\ Below(Append(b, e), Tail(c)) /\ Below(a, Append(b, e))
  BY <1>1, <1>2, AppendFacts DEF Chain
<1> QED BY <1>2, <1>3 DEF Chain, e

\* The first event of the step is delivered, where none waits before it.
LEMMA ChainDeliver ==
    ASSUME NEW a \in Seq(Event), NEW c \in Seq(Event), c # <<>>,
           NEW low, NEW high, Chain(a, <<>>, c, low, high)
    PROVE  Chain(Append(a, c[1]), <<>>, Tail(c), low, high)
<1> DEFINE e == c[1]
<1>1. e \in Event
  OBVIOUS
<1>2. /\ Within(Tail(c), low, high) /\ Within(<<e>>, low, high)
      /\ Rising(Tail(c)) /\ Below(<<e>>, Tail(c))
      /\ Below(a, Tail(c)) /\ Below(a, <<e>>)
  BY TailFacts DEF Chain
<1> HIDE DEF e
<1>3. /\ Within(Append(a, e), low, high) /\ Rising(Append(a, e))
      /\ Below(Append(a, e), Tail(c))
  BY <1>1, <1>2, AppendFacts DEF Chain
<1> QED BY <1>2, <1>3, EmptyFacts DEF Chain, e

\* Dropping what waits, or the first event of the step.
LEMMA ChainDrop ==
    ASSUME NEW a \in Seq(Event), NEW b \in Seq(Event), NEW c \in Seq(Event),
           NEW low, NEW high, Chain(a, b, c, low, high)
    PROVE  /\ Chain(a, <<>>, c, low, high)
           /\ c # <<>> => Chain(a, b, Tail(c), low, high)
<1>1. Chain(a, <<>>, c, low, high)
  BY EmptyFacts DEF Chain
<1>2. ASSUME c # <<>> PROVE Chain(a, b, Tail(c), low, high)
  BY <1>2, TailFacts DEF Chain
<1> QED BY <1>1, <1>2

\* A terminal event at the end of the outbox or of what waits.
LEMMA ChainEnd ==
    ASSUME NEW a \in Seq(Event), NEW b \in Seq(Event), NEW c \in Seq(Event),
           NEW low, NEW high, Chain(a, b, c, low, high), NEW e \in Event, IsEnd(e)
    PROVE  /\ Chain(Append(a, e), b, c, low, high)
           /\ Chain(a, Append(b, e), c, low, high)
<1>1. /\ \A u : Below(u, <<e>>) /\ Below(<<e>>, u)
      /\ Within(<<e>>, low, high)
  BY EndFacts
<1>2. Chain(Append(a, e), b, c, low, high)
  BY <1>1, AppendFacts DEF Chain
<1>3. Chain(a, Append(b, e), c, low, high)
  BY <1>1, AppendFacts DEF Chain
<1> QED BY <1>2, <1>3

\* The step's events come after everything that was there.
LEMMA ChainStep ==
    ASSUME NEW a \in Seq(Event), NEW b \in Seq(Event), NEW c \in Seq(Event),
           NEW low \in Nat, NEW mid \in Nat, NEW high \in Nat, low <= mid, mid <= high,
           Chain(a, b, <<>>, low, mid), Within(c, mid, high), Rising(c)
    PROVE  Chain(a, b, c, low, high)
<1>1. ASSUME NEW s \in Seq(Event)
      PROVE  \A i \in DOMAIN s : s[i].seq \in Nat
  BY EventParts
<1>2. ASSUME NEW s \in Seq(Event), Within(s, low, mid)
      PROVE  Within(s, low, high) /\ Below(s, c)
  <2>1. ASSUME NEW i \in DOMAIN s, ~IsEnd(s[i])
        PROVE  s[i].seq \in Nat /\ low < s[i].seq /\ s[i].seq <= mid
    BY <1>1, <1>2, <2>1 DEF Within
  <2>2. Within(s, low, high)
    BY <2>1 DEF Within
  <2>3. ASSUME NEW i \in DOMAIN c, ~IsEnd(c[i])
        PROVE  c[i].seq \in Nat /\ mid < c[i].seq
    BY <1>1, <2>3 DEF Within
  <2>4. Below(s, c)
    BY <2>1, <2>3 DEF Below
  <2> QED BY <2>2, <2>4
<1>3. Within(c, low, high)
  <2>1. ASSUME NEW i \in DOMAIN c, ~IsEnd(c[i])
        PROVE  c[i].seq \in Nat /\ mid < c[i].seq /\ c[i].seq <= high
    BY <1>1, <2>1 DEF Within
  <2> QED BY <2>1 DEF Within
<1>4. /\ Within(a, low, mid) /\ Within(b, low, mid)
      /\ Rising(a) /\ Rising(b) /\ Below(a, b)
  BY DEF Chain
<1>5. /\ Within(a, low, high) /\ Below(a, c)
      /\ Within(b, low, high) /\ Below(b, c)
  BY <1>2, <1>4
<1> QED BY <1>3, <1>4, <1>5 DEF Chain

\* The consumer reads everything in the outbox: the last value it got is below
\* what comes later.
LEMMA ChainRead ==
    ASSUME NEW a \in Seq(Event), NEW b \in Seq(Event), NEW c \in Seq(Event),
           NEW low \in Nat, NEW high \in Nat, Chain(a, b, c, low, high),
           NEW k \in DOMAIN a, ~IsEnd(a[k])
    PROVE  Chain(<<>>, b, c, a[k].seq, high) /\ low < a[k].seq /\ a[k].seq <= high
<1>1. a[k].seq \in Nat /\ low < a[k].seq /\ a[k].seq <= high
  BY EventParts DEF Chain, Within
<1>2. Within(b, a[k].seq, high) /\ Within(c, a[k].seq, high)
  <2>1. Within(b, low, high) /\ Within(c, low, high) /\ Below(a, b) /\ Below(a, c)
    BY DEF Chain
  <2>2. Within(b, a[k].seq, high)
    BY <2>1 DEF Within, Below
  <2>3. Within(c, a[k].seq, high)
    BY <2>1 DEF Within, Below
  <2> QED BY <2>2, <2>3
<1> QED BY <1>1, <1>2, EmptyFacts DEF Chain

(***************************************************************************)
(* What the operations on a request do to its two queues.                  *)
(***************************************************************************)

\* The terminal event that publish() really hands over.
EndOf(q, e) == IF q.failure = None THEN e ELSE [e EXCEPT !.kind = q.failure]

\* It is a terminal event, and a success only where there was no failure.
LEMMA EndOfFacts ==
    ASSUME NEW q \in Request, NEW e \in Event, IsEnd(e)
    PROVE  /\ EndOf(q, e) \in Event /\ IsEnd(EndOf(q, e))
           /\ EndOf(q, e).kind = IF q.failure = None THEN e.kind ELSE q.failure
           /\ q.failure \in Failures
<1>1. e \in EndEvent
  BY EventFacts
<1>2. q.failure \in Failures /\ (q.failure # None => q.failure \in EndKinds)
  BY DEF Request, Failures, EndKinds
<1> QED BY <1>1, <1>2 DEF EndOf, EndEvent, Event, IsEnd, EndKinds

\* publish() of a terminal event.
LEMMA PublishEndShape ==
    ASSUME NEW q \in Request, ~q.terminal, NEW e \in Event, IsEnd(e)
    PROVE  LET p == PublishEnd(q, e)
           IN  /\ p.finished /\ p.failure = q.failure
               /\ p.admitted <=> q.admitted
               /\ p.cancelling <=> q.cancelling
               /\ p.interrupted <=> q.interrupted
               /\ IF q.pending = <<>>
                  THEN p.events = Append(q.events, EndOf(q, e)) /\ p.pending = <<>>
                  ELSE p.events = q.events /\ p.pending = Append(q.pending, EndOf(q, e))
<1> DEFINE f == [q EXCEPT !.finished = TRUE]
           d == EndOf(q, e)
           p == PublishEnd(q, e)
<1>1. /\ f \in Request /\ f.finished /\ f.failure = q.failure
      /\ f.admitted <=> q.admitted
      /\ f.cancelling <=> q.cancelling
      /\ f.interrupted <=> q.interrupted
      /\ f.events = q.events /\ f.pending = q.pending
  BY DEF Request
<1>2. p = IF q.pending = <<>> THEN Deliver(f, d) ELSE Withhold(f, d)
  BY DEF PublishEnd, EndOf
<1> HIDE DEF f, d, p
<1>3. CASE q.pending = <<>>
  <2>1. p = [f EXCEPT !.events = Append(@, d), !.bytes = @ + d.bytes, !.terminal = IsEnd(d)]
    BY <1>2, <1>3 DEF Deliver
  <2>2. /\ p.finished = f.finished /\ p.failure = f.failure
        /\ p.admitted = f.admitted /\ p.cancelling = f.cancelling
        /\ p.interrupted = f.interrupted
        /\ p.events = Append(f.events, d) /\ p.pending = f.pending
    BY <1>1, <2>1 DEF Request
  <2> QED BY <1>1, <1>3, <2>2 DEF p, d
<1>4. CASE q.pending # <<>>
  <2>1. p = [f EXCEPT !.pending = Append(@, d)]
    BY <1>2, <1>4 DEF Withhold
  <2>2. /\ p.finished = f.finished /\ p.failure = f.failure
        /\ p.admitted = f.admitted /\ p.cancelling = f.cancelling
        /\ p.interrupted = f.interrupted
        /\ p.events = f.events /\ p.pending = Append(f.pending, d)
    BY <1>1, <2>1 DEF Request
  <2> QED BY <1>1, <1>4, <2>2 DEF p, d
<1> QED BY <1>3, <1>4

\* cancel(): what waits is kept or dropped, and at most a terminal event is added,
\* which is the one that was waiting or says that the request was cancelled.
LEMMA CancelShape ==
    ASSUME NEW r \in Streams, NEW q \in Request, OutboxInv(q, r)
    PROVE  LET p == Cancel(q, r)
           IN  /\ p.interrupted /\ p.failure = q.failure
               /\ p.cancelling <=> q.cancelling \/ ~q.finished
               /\ \/ p.events = q.events /\ p.pending = q.pending
                  \/ p.events = q.events /\ p.pending = <<>>
                  \/ /\ p.pending = <<>>
                     /\ \E e \in Event :
                           /\ IsEnd(e) /\ p.events = Append(q.events, e)
                           /\ e.kind \in {q.failure, "cancelled"} \cup Kinds(q.pending)
                           /\ e.kind # None
<1> DEFINE i == [q EXCEPT !.interrupted = TRUE]
           c == [i EXCEPT !.cancelling = TRUE, !.pending = <<>>]
           d == [i EXCEPT !.pending = <<>>]
           last == q.pending[Len(q.pending)]
           end == End(r, "cancelled")
           p == Cancel(q, r)
<1>0. BoxPart(q, r) /\ PendingPart(q, r) /\ <<>> \in Seq(Event)
  BY OutboxParts
<1>1. /\ i.interrupted /\ i.failure = q.failure /\ i.events = q.events
      /\ i.pending = q.pending /\ (i.cancelling <=> q.cancelling)
  BY DEF Request
<1>2. /\ d \in Request /\ d.interrupted /\ d.failure = q.failure /\ d.events = q.events
      /\ d.pending = <<>> /\ (d.cancelling <=> q.cancelling) /\ (d.terminal <=> q.terminal)
  BY <1>0 DEF Request
<1>3. /\ c \in Request /\ c.interrupted /\ c.failure = q.failure /\ c.events = q.events
      /\ c.pending = <<>> /\ c.cancelling /\ (c.terminal <=> q.terminal)
  BY <1>0 DEF Request
<1>4. end \in Event /\ IsEnd(end) /\ end.kind = "cancelled"
  BY EventFacts DEF EndKinds, End
<1>5. q.pending \in Seq(Event) /\ q.failure \in Failures
  BY DEF Request
<1>p. p = IF q.finished
          THEN IF q.pending = <<>> THEN i ELSE PublishEnd(d, last)
          ELSE IF q.cancelling THEN i
          ELSE IF q.admitted THEN c
          ELSE PublishEnd(c, end)
  BY DEF Cancel
<1> HIDE DEF i, c, d, end, p
<1>6. CASE p = i /\ (q.finished \/ q.cancelling)
  BY <1>1, <1>6 DEF p
<1>7. CASE p = c /\ ~q.finished
  BY <1>3, <1>7 DEF p
<1>8. CASE p = PublishEnd(d, last) /\ q.finished /\ q.pending # <<>>
  <2>1. ~q.terminal
    BY <1>0, <1>8 DEF PendingPart
  <2>2. Len(q.pending) \in DOMAIN q.pending /\ last \in Event
    BY <1>5, <1>8
  <2>3. IsEnd(last) /\ last.kind \in Kinds(q.pending)
    BY <1>0, <1>8, <2>1, <2>2 DEF PendingPart, Kinds
  <2> HIDE DEF last
  <2>4. /\ p.failure = d.failure /\ (p.cancelling <=> d.cancelling)
        /\ (p.interrupted <=> d.interrupted)
        /\ p.events = Append(d.events, EndOf(d, last)) /\ p.pending = <<>>
    BY <1>2, <1>8, <2>1, <2>2, <2>3, PublishEndShape
  <2>5. /\ EndOf(d, last) \in Event /\ IsEnd(EndOf(d, last))
        /\ EndOf(d, last).kind \in {q.failure} \cup Kinds(q.pending)
        /\ EndOf(d, last).kind # None
    <3>1. /\ EndOf(d, last) \in Event /\ IsEnd(EndOf(d, last))
          /\ EndOf(d, last).kind = IF d.failure = None THEN last.kind ELSE d.failure
      BY <1>2, <2>2, <2>3, EndOfFacts
    <3>2. last.kind # None
      BY <2>2, EventParts DEF EndKinds, None
    <3> QED BY <1>2, <2>3, <3>1, <3>2
  <2> QED BY <1>2, <1>8, <2>4, <2>5 DEF p
<1>9. CASE p = PublishEnd(c, end) /\ ~q.finished
  <2>1. ~q.terminal
    BY <1>0, <1>9 DEF PendingPart
  <2>2. /\ p.failure = c.failure /\ (p.cancelling <=> c.cancelling)
        /\ (p.interrupted <=> c.interrupted)
        /\ p.events = Append(c.events, EndOf(c, end)) /\ p.pending = <<>>
    BY <1>3, <1>4, <1>9, <2>1, PublishEndShape
  <2>3. /\ EndOf(c, end) \in Event /\ IsEnd(EndOf(c, end))
        /\ EndOf(c, end).kind \in {q.failure, "cancelled"} /\ EndOf(c, end).kind # None
    <3>1. /\ EndOf(c, end) \in Event /\ IsEnd(EndOf(c, end))
          /\ EndOf(c, end).kind = IF c.failure = None THEN end.kind ELSE c.failure
      BY <1>3, <1>4, EndOfFacts
    <3> QED BY <1>3, <1>4, <3>1 DEF None
  <2> QED BY <1>3, <1>9, <2>2, <2>3 DEF p
<1> QED BY <1>p, <1>6, <1>7, <1>8, <1>9

(***************************************************************************)
(* DeliveryInv for one request: q is its record, g what its consumer has   *)
(* read, n the number of values produced, em what is left of the step.     *)
(***************************************************************************)
Reading == [seq : Nat, end : EndKinds \cup {None}]

Row(q, g, n, em) ==
    /\ InOrder(q, g, n, em)
    /\ ~q.interrupted => Gapless(q, g, n, em)
    /\ EndInv(q, g, em)

\* An unfinished request has no terminal event in its queues.
LEMMA NoEnds ==
    ASSUME NEW r, NEW q \in Request, OutboxInv(q, r), ~q.finished
    PROVE  ~q.terminal /\ Kinds(q.events) \subseteq {"value"} /\ Kinds(q.pending) \subseteq {"value"}
<1>1. ~q.terminal
  BY DEF OutboxInv
<1>2. \A i \in DOMAIN q.events : ~IsEnd(q.events[i])
  BY <1>1 DEF OutboxInv
<1>3. \A i \in DOMAIN q.pending : ~IsEnd(q.pending[i])
  BY DEF OutboxInv
<1> QED BY <1>1, <1>2, <1>3 DEF Kinds, IsEnd

\* cancel() loses values but keeps the order of the others, and takes the success
\* away from a request that has not finished.
LEMMA CancelRow ==
    ASSUME NEW r \in Streams, NEW q \in Request, OutboxInv(q, r), NEW g \in Reading,
           NEW n \in Nat, NEW em \in Seq(Event), InOrder(q, g, n, em), EndInv(q, g, em),
           q.failure # None \/ em = <<>>, g.end # None => q.terminal
    PROVE  Row(Cancel(q, r), g, n, em)
<1> DEFINE p == Cancel(q, r)
<1>0. q.events \in Seq(Event) /\ q.pending \in Seq(Event) /\ q.failure \in Failures
  BY DEF Request
<1>1. /\ p.interrupted /\ p.failure = q.failure
      /\ p.cancelling <=> q.cancelling \/ ~q.finished
      /\ \/ p.events = q.events /\ p.pending = q.pending
         \/ p.events = q.events /\ p.pending = <<>>
         \/ /\ p.pending = <<>>
            /\ \E e \in Event :
                  /\ IsEnd(e) /\ p.events = Append(q.events, e)
                  /\ e.kind \in {q.failure, "cancelled"} \cup Kinds(q.pending)
                  /\ e.kind # None
  BY CancelShape
<1> HIDE DEF p
<1>2. g.seq <= n /\ Chain(q.events, q.pending, em, g.seq, n)
  BY InOrderChain
<1>3. Chain(q.events, <<>>, em, g.seq, n)
  BY <1>0, <1>2, ChainDrop
<1>4. ~q.finished =>
        ~q.terminal /\ Kinds(q.events) \subseteq {"value"} /\ Kinds(q.pending) \subseteq {"value"}
  BY NoEnds
<1>5. Kinds(<<>>) = {}
  BY EmptyFacts
<1>6. /\ Chain(p.events, p.pending, em, g.seq, n)
      /\ Kinds(p.events) \cup Kinds(p.pending) \subseteq
            Kinds(q.events) \cup Kinds(q.pending) \cup ({q.failure, "cancelled"} \ {None})
  <2>1. CASE p.events = q.events /\ p.pending = q.pending
    BY <1>2, <2>1
  <2>2. CASE p.events = q.events /\ p.pending = <<>>
    BY <1>3, <1>5, <2>2
  <2>3. ASSUME NEW e \in Event, IsEnd(e), p.events = Append(q.events, e), p.pending = <<>>,
               e.kind \in {q.failure, "cancelled"} \cup Kinds(q.pending), e.kind # None
        PROVE  /\ Chain(p.events, p.pending, em, g.seq, n)
               /\ Kinds(p.events) \cup Kinds(p.pending) \subseteq
                     Kinds(q.events) \cup Kinds(q.pending) \cup ({q.failure, "cancelled"} \ {None})
    <3>1. Chain(Append(q.events, e), <<>>, em, g.seq, n)
      BY <1>0, <1>3, <2>3, ChainEnd, EmptyFacts
    <3>2. Kinds(Append(q.events, e)) = Kinds(q.events) \cup {e.kind}
      BY <1>0, <2>3, AppendFacts
    <3> QED BY <1>5, <2>3, <3>1, <3>2
  <2> QED BY <1>1, <2>1, <2>2, <2>3
<1>7. InOrder(p, g, n, em)
  BY <1>2, <1>6, InOrderChain
<1>8. EndInv(p, g, em)
  <2>1. "deadline_exceeded" \in Kinds(p.events) \cup Kinds(p.pending) \cup {g.end}
           => p.failure = "deadline_exceeded"
    BY <1>1, <1>6 DEF EndInv
  <2>2. ASSUME p.cancelling
        PROVE  /\ "completed" \notin Kinds(p.events) \cup Kinds(p.pending) \cup {g.end}
               /\ "completed" \in Kinds(em) => p.failure # None
    <3>1. "completed" \notin Kinds(q.events) \cup Kinds(q.pending) \cup {g.end}
      BY <1>1, <1>4, <2>2 DEF EndInv, None
    <3>2. q.failure # "completed"
      BY <1>0 DEF Failures, None
    <3>3. "completed" \in Kinds(em) => p.failure # None
      BY <1>1, <1>5
    <3> QED BY <1>6, <3>1, <3>2, <3>3
  <2> QED BY <2>1, <2>2 DEF EndInv
<1> QED BY <1>1, <1>7, <1>8 DEF Row, p

\* A terminal event ends an unfinished request: it says that the request completed
\* only when nothing was lost and no cancel() came before.
LEMMA EndRow ==
    ASSUME NEW r \in Streams, NEW q \in Request, OutboxInv(q, r), ~q.finished,
           NEW g \in Reading, g.end = None, NEW n \in Nat, NEW em \in Seq(Event),
           Row(q, g, n, em), NEW m \in Nat, n <= m,
           NEW e \in Event, e.kind \in {"completed", "cancelled", "failed"},
           e.kind = "completed" /\ q.cancelling => q.failure # None,
           e.kind = "completed" /\ ~q.interrupted =>
              m = g.seq + Len(q.events) + Len(q.pending)
    PROVE  Row(PublishEnd(q, e), g, m, <<>>)
<1> DEFINE p == PublishEnd(q, e)
           d == EndOf(q, e)
<1>0. /\ q.events \in Seq(Event) /\ q.pending \in Seq(Event) /\ q.failure \in Failures
      /\ <<>> \in Seq(Event) /\ Len(q.events) \in Nat /\ Len(q.pending) \in Nat
      /\ g.seq \in Nat
  BY DEF Request, Reading
<1>1. /\ ~q.terminal /\ Kinds(q.events) \subseteq {"value"} /\ Kinds(q.pending) \subseteq {"value"}
      /\ IsEnd(e)
  BY NoEnds DEF IsEnd
<1>2. /\ p.finished /\ p.failure = q.failure
      /\ p.cancelling <=> q.cancelling
      /\ p.interrupted <=> q.interrupted
      /\ IF q.pending = <<>>
         THEN p.events = Append(q.events, d) /\ p.pending = <<>>
         ELSE p.events = q.events /\ p.pending = Append(q.pending, d)
  BY <1>1, PublishEndShape
<1>3. d \in Event /\ IsEnd(d) /\ d.kind = IF q.failure = None THEN e.kind ELSE q.failure
  BY <1>1, EndOfFacts
<1> HIDE DEF p, d
<1>4. Kinds(<<>>) = {}
  BY EmptyFacts
<1>5. Kinds(p.events) \cup Kinds(p.pending) \subseteq {"value", d.kind}
  <2>1. /\ Kinds(Append(q.events, d)) = Kinds(q.events) \cup {d.kind}
        /\ Kinds(Append(q.pending, d)) = Kinds(q.pending) \cup {d.kind}
    BY <1>0, <1>3, AppendFacts
  <2> QED BY <1>1, <1>2, <1>4, <2>1
<1>6. InOrder(p, g, m, <<>>)
  <2>1. g.seq <= n /\ Chain(q.events, q.pending, em, g.seq, n)
    BY InOrderChain DEF Row
  <2>2. Chain(q.events, q.pending, <<>>, g.seq, n)
    BY <2>1, EmptyFacts DEF Chain
  <2>3. Chain(q.events, q.pending, <<>>, g.seq, m)
    BY <1>0, <2>1, <2>2, ChainStep, EmptyFacts
  <2>4. Chain(p.events, p.pending, <<>>, g.seq, m)
    BY <1>0, <1>2, <1>3, <2>3, ChainEnd
  <2>5. g.seq <= m
    BY <1>0, <2>1
  <2> QED BY <2>4, <2>5, InOrderChain
<1>7. ASSUME ~p.interrupted
      PROVE  Gapless(p, g, m, <<>>)
  <2>1. /\ ~q.cancelling /\ q.failure = None
        /\ Consecutive(q.events, g.seq) /\ Consecutive(q.pending, g.seq + Len(q.events))
        /\ d.kind = e.kind
        /\ e.kind = "completed" => m = g.seq + Len(q.events) + Len(q.pending)
    BY <1>2, <1>3, <1>7 DEF Row, Gapless
  <2>2. CASE q.pending = <<>>
    <3>1. p.events = Append(q.events, d) /\ p.pending = <<>>
      BY <1>2, <2>2
    <3>2. Consecutive(p.events, g.seq) /\ Consecutive(p.pending, g.seq + Len(p.events))
      <4>1. Consecutive(Append(q.events, d), g.seq)
        BY <1>0, <1>3, <2>1, AppendFacts
      <4>2. Consecutive(<<>>, g.seq + Len(p.events))
        BY EmptyFacts
      <4> QED BY <3>1, <4>1, <4>2
    <3>3. Len(p.events) = Len(q.events) + 1 /\ Len(q.pending) = 0
      BY <1>0, <1>3, <2>2, <3>1
    <3>4. "completed" \in Kinds(p.events) => m = g.seq + Len(p.events) - 1
      BY <1>0, <1>5, <2>1, <3>3
    <3> QED BY <1>2, <1>4, <2>1, <3>1, <3>2, <3>4 DEF Gapless, None
  <2>3. CASE q.pending # <<>>
    <3>1. p.events = q.events /\ p.pending = Append(q.pending, d)
      BY <1>2, <2>3
    <3>2. Consecutive(p.events, g.seq) /\ Consecutive(p.pending, g.seq + Len(p.events))
      <4>1. Consecutive(Append(q.pending, d), g.seq + Len(q.events))
        BY <1>0, <1>3, <2>1, AppendFacts
      <4> QED BY <2>1, <3>1, <4>1
    <3>3. Len(p.pending) = Len(q.pending) + 1
      BY <1>0, <1>3, <3>1
    <3>4. "completed" \in Kinds(p.pending) => m = g.seq + Len(p.events) + Len(p.pending) - 1
      BY <1>0, <1>5, <2>1, <3>1, <3>3
    <3>5. "completed" \notin Kinds(p.events)
      BY <1>1, <3>1
    <3> QED BY <1>2, <2>1, <3>2, <3>4, <3>5 DEF Gapless, None
  <2> QED BY <2>2, <2>3
<1>8. EndInv(p, g, <<>>)
  <2>1. d.kind = "deadline_exceeded" => q.failure = "deadline_exceeded"
    BY <1>3
  <2>2. q.cancelling => d.kind # "completed"
    BY <1>0, <1>3 DEF Failures, None
  <2> QED BY <1>2, <1>4, <1>5, <2>1, <2>2 DEF EndInv, None
<1> QED BY <1>6, <1>7, <1>8 DEF Row, p

\* A failure is noted before the cancel() that reports it.
LEMMA FailureRow ==
    ASSUME NEW r, NEW q \in Request, OutboxInv(q, r), NEW k \in Failures \ {None},
           k = "deadline_exceeded" \/ q.failure = None,
           NEW g, NEW n, NEW em, InOrder(q, g, n, em), EndInv(q, g, em)
    PROVE  LET f == [q EXCEPT !.failure = k]
           IN  /\ f \in Request /\ OutboxInv(f, r) /\ f.failure = k
               /\ InOrder(f, g, n, em) /\ EndInv(f, g, em)
               /\ f.terminal <=> q.terminal
               /\ f.finished <=> q.finished
               /\ f.cancelling <=> q.cancelling
               /\ f.admitted <=> q.admitted
<1> DEFINE f == [q EXCEPT !.failure = k]
<1>1. /\ f \in Request /\ f.events = q.events /\ f.bytes = q.bytes
      /\ f.pending = q.pending /\ f.failure = k
      /\ f.terminal = q.terminal /\ f.finished = q.finished
      /\ f.cancelling = q.cancelling /\ f.admitted = q.admitted
  BY DEF Request
<1> HIDE DEF f
<1>2. OutboxInv(f, r)
  BY <1>1 DEF OutboxInv
<1>3. InOrder(f, g, n, em)
  BY <1>1 DEF InOrder
<1>4. EndInv(f, g, em)
  BY <1>1 DEF EndInv, None
<1> QED BY <1>1, <1>2, <1>3, <1>4 DEF f

\* publish() of a value: it is the next one, so it goes to the end of a queue; the
\* one that outgrows the outbox is the last that is looked at.
LEMMA ValueRow ==
    ASSUME NEW r \in Streams, NEW q \in Request, OutboxInv(q, r), ~q.finished,
           NEW g \in Reading, g.end = None, NEW n \in Nat, NEW em \in Seq(Event),
           Row(q, g, n, em), em # <<>>, ~IsEnd(em[1])
    PROVE  Row(PublishValue(q, em[1], r), g, n, Tail(em))
<1> DEFINE e == em[1]
           f == [q EXCEPT !.failure = "output_limit"]
           p == PublishValue(q, e, r)
           t == Tail(em)
<1>0. /\ q.events \in Seq(Event) /\ q.pending \in Seq(Event) /\ q.failure \in Failures
      /\ Len(q.events) \in Nat /\ Len(q.pending) \in Nat /\ g.seq \in Nat
      /\ e \in Event /\ t \in Seq(Event)
  BY DEF Request, Reading
<1>1. /\ ~q.terminal /\ Kinds(q.events) \subseteq {"value"} /\ Kinds(q.pending) \subseteq {"value"}
      /\ e.kind = "value" /\ ~IsEnd(e)
  BY NoEnds DEF IsEnd
<1>2. g.seq <= n /\ Chain(q.events, q.pending, em, g.seq, n)
  BY InOrderChain DEF Row
<1>3. Kinds(em) = Kinds(t) \cup {e.kind} /\ ValueCount(em) = ValueCount(t) + 1
  BY <1>1, TailFacts
<1>4. EndInv(q, g, t) /\ InOrder(q, g, n, t)
  <2>1. Chain(q.events, q.pending, t, g.seq, n)
    BY <1>0, <1>2, ChainDrop
  <2> QED BY <1>2, <1>3, <2>1, InOrderChain DEF Row, EndInv
<1>5. ~q.interrupted =>
        /\ ~q.cancelling /\ q.failure = None
        /\ Consecutive(q.events, g.seq) /\ Consecutive(q.pending, g.seq + Len(q.events))
        /\ e.seq = g.seq + Len(q.events) + Len(q.pending) + 1
        /\ Consecutive(t, g.seq + Len(q.events) + Len(q.pending) + 1)
        /\ n = g.seq + Len(q.events) + Len(q.pending) + ValueCount(em)
  <2> SUFFICES ASSUME ~q.interrupted
               PROVE  /\ ~q.cancelling /\ q.failure = None
                      /\ Consecutive(q.events, g.seq)
                      /\ Consecutive(q.pending, g.seq + Len(q.events))
                      /\ e.seq = g.seq + Len(q.events) + Len(q.pending) + 1
                      /\ Consecutive(t, g.seq + Len(q.events) + Len(q.pending) + 1)
                      /\ n = g.seq + Len(q.events) + Len(q.pending) + ValueCount(em)
    OBVIOUS
  <2> DEFINE k == g.seq + Len(q.events) + Len(q.pending)
  <2>1. Gapless(q, g, n, em) /\ k \in Nat
    BY <1>0 DEF Row
  <2>2. Consecutive(em, k)
    BY <2>1 DEF Gapless
  <2> HIDE DEF k
  <2>3. Consecutive(t, k + 1) /\ e.seq = k + 1
    BY <1>1, <2>1, <2>2, TailFacts
  <2> QED BY <2>1, <2>3 DEF Gapless, k
<1>p. p = IF q.failure # None THEN q
          ELSE IF e.bytes > Budget THEN Cancel(f, r)
          ELSE IF q.pending = <<>> /\ Fits(q, e) THEN Deliver(q, e)
          ELSE Withhold(q, e)
  BY <1>1 DEF PublishValue
<1>6. CASE q.failure # None /\ p = q
  BY <1>4, <1>5, <1>6 DEF Row
<1>7. CASE q.failure = None /\ p = Cancel(f, r)
  <2>1. "output_limit" \in Failures \ {None}
    BY DEF Failures, None
  <2>2. /\ f \in Request /\ OutboxInv(f, r) /\ f.failure = "output_limit"
        /\ InOrder(f, g, n, t) /\ EndInv(f, g, t)
    BY <1>4, <1>7, <2>1, FailureRow
  <2> HIDE DEF f, p, e, t
  <2>3. f.failure # None
    BY <2>2 DEF None
  <2>4. Row(Cancel(f, r), g, n, t)
    BY <1>0, <2>2, <2>3, CancelRow
  <2> QED BY <1>7, <2>4 DEF p, e, t
<1>8. CASE q.pending = <<>> /\ p = Deliver(q, e)
  <2>1. /\ p.events = Append(q.events, e) /\ p.pending = <<>> /\ p.failure = q.failure
        /\ p.finished = q.finished /\ p.cancelling = q.cancelling
        /\ p.interrupted = q.interrupted
    BY <1>8 DEF Deliver, Request
  <2> HIDE DEF p
  <2>2. Chain(Append(q.events, e), <<>>, t, g.seq, n)
    BY <1>0, <1>2, <1>8, ChainDeliver
  <2>3. InOrder(p, g, n, t)
    BY <1>2, <2>1, <2>2, InOrderChain
  <2>4. Kinds(p.events) \subseteq {"value"} /\ Kinds(p.pending) = {}
    <3>1. Kinds(Append(q.events, e)) = Kinds(q.events) \cup {e.kind}
      BY <1>0, AppendFacts
    <3>2. Kinds(<<>>) = {}
      BY EmptyFacts
    <3> QED BY <1>1, <2>1, <3>1, <3>2
  <2>5. EndInv(p, g, t)
    BY <1>4, <2>1, <2>4 DEF EndInv, None
  <2>6. ASSUME ~p.interrupted PROVE Gapless(p, g, n, t)
    <3> HIDE DEF e, t
    <3> DEFINE x == g.seq
               a == Len(q.events)
               v == ValueCount(t)
    <3>1. Len(q.pending) = 0 /\ ~q.interrupted /\ Len(Append(q.events, e)) = a + 1
      BY <1>0, <1>8, <2>1, <2>6
    <3>2. /\ e.seq = x + a + 0 + 1 /\ Consecutive(q.events, x)
          /\ Consecutive(t, x + a + 0 + 1) /\ n = x + a + 0 + (v + 1)
          /\ ~q.cancelling /\ q.failure = None
      BY <1>3, <1>5, <3>1
    <3>3. x \in Nat /\ a \in Nat /\ v \in Nat /\ Len(p.events) = a + 1 /\ Len(p.pending) = 0
      BY <1>0, <2>1, <3>1 DEF ValueCount
    <3>4. Consecutive(Append(q.events, e), x)
      <4>1. e.seq = x + (a + 1)
        <5> HIDE DEF x, a
        <5> QED BY <3>2, <3>3
      <4> QED BY <1>0, <3>2, <4>1, AppendFacts
    <3> HIDE DEF x, a, v
    <3>5. x + a + 0 + 1 = x + Len(p.events) + Len(p.pending)
      BY <3>3
    <3>6. Consecutive(t, x + Len(p.events) + Len(p.pending))
      BY <3>2, <3>5
    <3>7. n = x + Len(p.events) + Len(p.pending) + v
      BY <3>2, <3>3
    <3>8. Consecutive(<<>>, x + Len(p.events))
      BY EmptyFacts
    <3> QED BY <2>1, <2>4, <3>2, <3>4, <3>6, <3>7, <3>8 DEF Gapless, None, x, v
  <2> QED BY <2>3, <2>5, <2>6 DEF Row, p
<1>9. CASE p = Withhold(q, e)
  <2>1. /\ p.events = q.events /\ p.pending = Append(q.pending, e) /\ p.failure = q.failure
        /\ p.finished = q.finished /\ p.cancelling = q.cancelling
        /\ p.interrupted = q.interrupted
    BY <1>9 DEF Withhold, Request
  <2> HIDE DEF p
  <2>2. Chain(q.events, Append(q.pending, e), t, g.seq, n)
    BY <1>0, <1>2, ChainWithhold
  <2>3. InOrder(p, g, n, t)
    BY <1>2, <2>1, <2>2, InOrderChain
  <2>4. Kinds(p.events) \subseteq {"value"} /\ Kinds(p.pending) \subseteq {"value"}
    <3>1. Kinds(Append(q.pending, e)) = Kinds(q.pending) \cup {e.kind}
      BY <1>0, AppendFacts
    <3> QED BY <1>1, <2>1, <3>1
  <2>5. EndInv(p, g, t)
    BY <1>4, <2>1, <2>4 DEF EndInv, None
  <2>6. ASSUME ~p.interrupted PROVE Gapless(p, g, n, t)
    <3> HIDE DEF e, t
    <3> DEFINE x == g.seq
               a == Len(q.events)
               b == Len(q.pending)
               v == ValueCount(t)
    <3>1. ~q.interrupted /\ Len(Append(q.pending, e)) = b + 1
      BY <1>0, <2>1, <2>6
    <3>2. /\ e.seq = x + a + b + 1 /\ Consecutive(q.events, x) /\ Consecutive(q.pending, x + a)
          /\ Consecutive(t, x + a + b + 1) /\ n = x + a + b + (v + 1)
          /\ ~q.cancelling /\ q.failure = None
      BY <1>3, <1>5, <3>1
    <3>3. /\ x \in Nat /\ a \in Nat /\ b \in Nat /\ v \in Nat
          /\ Len(p.events) = a /\ Len(p.pending) = b + 1
      BY <1>0, <2>1, <3>1 DEF ValueCount
    <3>4. Consecutive(Append(q.pending, e), x + a)
      <4>1. e.seq = (x + a) + (b + 1)
        <5> HIDE DEF x, a, b
        <5> QED BY <3>2, <3>3
      <4> QED BY <1>0, <3>2, <4>1, AppendFacts
    <3> HIDE DEF x, a, b, v
    <3>5. x + a + b + 1 = x + Len(p.events) + Len(p.pending)
      BY <3>3
    <3>6. Consecutive(t, x + Len(p.events) + Len(p.pending))
      BY <3>2, <3>5
    <3>7. n = x + Len(p.events) + Len(p.pending) + v
      BY <3>2, <3>3
    <3>8. Consecutive(p.pending, x + Len(p.events))
      BY <2>1, <3>3, <3>4
    <3> QED BY <2>1, <2>4, <3>2, <3>6, <3>7, <3>8 DEF Gapless, None, x, v
  <2> QED BY <2>3, <2>5, <2>6 DEF Row, p
<1> HIDE DEF p, f
<1> QED BY <1>p, <1>6, <1>7, <1>8, <1>9

\* One turn of flush()'s loop.
LEMMA FlushRow ==
    ASSUME NEW r \in Streams, NEW q \in Request, OutboxInv(q, r),
           NEW g \in Reading, g.end # None => q.terminal, NEW n \in Nat, NEW em \in Seq(Event),
           Row(q, g, n, em), q.pending # <<>>
    PROVE  Row(Deliver([q EXCEPT !.pending = Tail(@)], q.pending[1]), g, n, em)
<1> DEFINE e == q.pending[1]
           f == [q EXCEPT !.pending = Tail(@)]
           t == Tail(q.pending)
           p == Deliver(f, e)
<1>0. /\ q.events \in Seq(Event) /\ q.pending \in Seq(Event)
      /\ Len(q.events) \in Nat /\ Len(q.pending) \in Nat /\ g.seq \in Nat
      /\ e \in Event /\ t \in Seq(Event) /\ Len(t) = Len(q.pending) - 1
  BY DEF Request, Reading
<1>1. /\ p.events = Append(q.events, e) /\ p.pending = t /\ p.failure = q.failure
      /\ p.finished = q.finished /\ p.cancelling = q.cancelling
      /\ p.interrupted = q.interrupted
  BY DEF Deliver, Request
<1>2. g.end = None
  BY DEF OutboxInv
<1> HIDE DEF p, f
<1>3. g.seq <= n /\ Chain(q.events, q.pending, em, g.seq, n)
  BY InOrderChain DEF Row
<1>4. InOrder(p, g, n, em)
  <2>1. Chain(Append(q.events, e), t, em, g.seq, n)
    BY <1>0, <1>3, ChainFlush
  <2> QED BY <1>1, <1>3, <2>1, InOrderChain
<1>5. Kinds(q.pending) = Kinds(t) \cup {e.kind}
  BY <1>0, TailFacts
<1>6. Kinds(p.events) = Kinds(q.events) \cup {e.kind}
  <2> HIDE DEF e
  <2>1. Kinds(Append(q.events, e)) = Kinds(q.events) \cup {e.kind}
    BY <1>0, AppendFacts
  <2> QED BY <1>1, <2>1
<1>7. EndInv(p, g, em)
  <2> HIDE DEF e, t
  <2>1. Kinds(p.events) \cup Kinds(p.pending) = Kinds(q.events) \cup Kinds(q.pending)
    BY <1>1, <1>5, <1>6
  <2>2. EndInv(q, g, em)
    BY DEF Row
  <2> QED BY <1>1, <2>1, <2>2 DEF EndInv
<1>8. ASSUME ~p.interrupted PROVE Gapless(p, g, n, em)
  <2> DEFINE x == g.seq
             a == Len(q.events)
             b == Len(q.pending)
             v == ValueCount(em)
  <2>1. Gapless(q, g, n, em)
    BY <1>1, <1>8 DEF Row
  <2>2. /\ ~q.cancelling /\ q.failure = None
        /\ Consecutive(q.events, x) /\ Consecutive(q.pending, x + a)
        /\ ~q.finished => Consecutive(em, x + a + b) /\ n = x + a + b + v
        /\ "completed" \in Kinds(q.pending) => n = x + a + b - 1
        /\ "completed" \in Kinds(q.events) => n = x + a - 1
    BY <2>1 DEF Gapless
  <2>3. /\ x \in Nat /\ a \in Nat /\ b \in Nat /\ v \in Nat /\ x + a \in Nat
        /\ Len(p.events) = a + 1 /\ Len(p.pending) = b - 1
    BY <1>0, <1>1 DEF ValueCount
  <2>4. Consecutive(t, (x + a) + 1) /\ (IsEnd(e) \/ e.seq = (x + a) + 1)
    <3> HIDE DEF x, a
    <3> QED BY <1>0, <2>2, <2>3, TailFacts
  <2>5. Consecutive(p.events, x)
    <3>1. IsEnd(e) \/ e.seq = x + (a + 1)
      <4> HIDE DEF x, a, e
      <4> QED BY <2>3, <2>4
    <3>2. Consecutive(Append(q.events, e), x)
      <4> HIDE DEF e
      <4> QED BY <1>0, <2>2, <3>1, AppendFacts
    <3> QED BY <1>1, <3>2
  \* A terminal event that waits is the last one that does.
  <2>6. IsEnd(e) => b = 1 /\ q.finished
    <3>1. 1 \in DOMAIN q.pending
      BY <1>0
    <3>2. IsEnd(q.pending[1]) => 1 = Len(q.pending) /\ q.finished
      BY <3>1 DEF OutboxInv
    <3> QED BY <3>2
  \* A terminal event in the outbox leaves nothing waiting.
  <2>7. "completed" \notin Kinds(q.events)
    <3>1. ~q.terminal
      BY DEF OutboxInv
    <3>2. \A i \in DOMAIN q.events : ~IsEnd(q.events[i])
      BY <3>1 DEF OutboxInv
    <3> QED BY <3>2 DEF Kinds, IsEnd
  <2>8. "completed" \in Kinds(p.events) => b = 1 /\ e.kind = "completed"
    <3> HIDE DEF e
    <3> QED BY <1>6, <2>6, <2>7 DEF IsEnd
  <2> HIDE DEF x, a, b, v, e, t
  <2>9. /\ x + Len(p.events) + Len(p.pending) = x + a + b
        /\ x + Len(p.events) = (x + a) + 1
    BY <2>3
  <2>10. Consecutive(p.pending, x + Len(p.events))
    BY <1>1, <2>4, <2>9
  <2>11. ~p.finished => /\ Consecutive(em, x + Len(p.events) + Len(p.pending))
                        /\ n = x + Len(p.events) + Len(p.pending) + v
    BY <1>1, <2>2, <2>9
  <2>12. "completed" \in Kinds(p.pending) => n = x + Len(p.events) + Len(p.pending) - 1
    <3>1. Kinds(p.pending) \subseteq Kinds(q.pending)
      BY <1>1, <1>5
    <3>2. "completed" \in Kinds(p.pending) => n = x + a + b - 1
      BY <2>2, <3>1
    <3> QED BY ONLY <2>3, <2>9, <3>2
  <2>13. "completed" \in Kinds(p.events) => n = x + Len(p.events) - 1
    <3> SUFFICES ASSUME "completed" \in Kinds(p.events) PROVE n = x + Len(p.events) - 1
      OBVIOUS
    <3>1. "completed" \in Kinds(q.pending) /\ b = 1
      BY <1>5, <2>8
    <3>2. n = x + a + b - 1
      BY <2>2, <3>1
    <3> QED BY <2>3, <3>1, <3>2
  <2> QED BY <1>1, <1>2, <2>2, <2>5, <2>10, <2>11, <2>12, <2>13 DEF Gapless, None, x, v
<1> QED BY <1>4, <1>7, <1>8 DEF Row, p, f, e

\* The events of a step follow what the request had produced before.
LEMMA StepRow ==
    ASSUME NEW r \in Streams, NEW q \in Request, OutboxInv(q, r), ~q.finished,
           NEW g \in Reading, g.end = None, NEW n \in Nat, NEW em \in Seq(Event),
           Row(q, g, n, <<>>), Consecutive(em, n), Rising(em),
           Within(em, n, n + ValueCount(em)),
           Kinds(em) \subseteq {"value", "completed", "cancelled", "failed"},
           q.cancelling => "completed" \notin Kinds(em)
    PROVE  Row(q, g, n + ValueCount(em), em)
<1> DEFINE v == ValueCount(em)
<1>0. /\ q.events \in Seq(Event) /\ q.pending \in Seq(Event)
      /\ Len(q.events) \in Nat /\ Len(q.pending) \in Nat /\ g.seq \in Nat /\ v \in Nat
  <2>1. Len(em) \in Nat /\ (em # <<>> => Len(em) - 1 \in Nat)
    OBVIOUS
  <2> QED BY <2>1 DEF Request, Reading, ValueCount
<1>1. InOrder(q, g, n + v, em)
  <2>1. g.seq <= n /\ Chain(q.events, q.pending, <<>>, g.seq, n)
    BY InOrderChain DEF Row
  <2> HIDE DEF v
  <2>2. n + v \in Nat /\ n <= n + v /\ g.seq <= n + v
    BY <1>0, <2>1
  <2>3. Chain(q.events, q.pending, em, g.seq, n + v)
    BY <1>0, <2>1, <2>2, ChainStep DEF v
  <2> QED BY <2>2, <2>3, InOrderChain
<1>2. EndInv(q, g, em)
  BY DEF Row, EndInv
<1>3. ASSUME ~q.interrupted PROVE Gapless(q, g, n + v, em)
  <2>1. Gapless(q, g, n, <<>>)
    BY <1>3 DEF Row
  <2>2. n = g.seq + Len(q.events) + Len(q.pending) + ValueCount(<<>>)
    BY <2>1 DEF Gapless
  <2>3. n = g.seq + Len(q.events) + Len(q.pending)
    BY <1>0, <2>2, EmptyFacts
  <2>4. /\ Consecutive(em, g.seq + Len(q.events) + Len(q.pending))
        /\ n + v = g.seq + Len(q.events) + Len(q.pending) + v
    BY <2>3
  <2>5. Kinds(q.events) \subseteq {"value"} /\ Kinds(q.pending) \subseteq {"value"}
    BY NoEnds
  <2> QED BY <2>1, <2>4, <2>5 DEF Gapless, None
<1> QED BY <1>1, <1>2, <1>3 DEF Row

\* wait(): the consumer takes everything in the outbox.
LEMMA WaitRow ==
    ASSUME NEW r \in Streams, NEW q \in Request, OutboxInv(q, r), q.events # <<>>,
           NEW g \in Reading, g.end # None => q.terminal /\ q.events = <<>>,
           NEW n \in Nat, NEW em \in Seq(Event), Row(q, g, n, em),
           NEW values, values = { i \in DOMAIN q.events : ~IsEnd(q.events[i]) },
           NEW h \in Reading,
           h.seq = IF values = {} THEN g.seq
                   ELSE q.events[CHOOSE i \in values : \A j \in values : j <= i].seq,
           h.end = IF q.terminal THEN q.events[Len(q.events)].kind ELSE g.end,
           NEW p \in Request, p.events = <<>>, p.pending = q.pending,
           p.failure = q.failure, p.finished <=> q.finished,
           p.cancelling <=> q.cancelling, p.interrupted <=> q.interrupted
    PROVE  Row(p, h, n, em)
<1> DEFINE last == CHOOSE i \in values : \A j \in values : j <= i
           x == g.seq
           a == Len(q.events)
           b == Len(q.pending)
           v == ValueCount(em)
<1>0. /\ q.events \in Seq(Event) /\ q.pending \in Seq(Event) /\ a \in Nat /\ a > 0 /\ b \in Nat
      /\ x \in Nat /\ DOMAIN q.events = 1 .. a /\ a \in DOMAIN q.events
  BY DEF Request, Reading
<1>1. g.end = None
  OBVIOUS
<1>2. values \subseteq 1 .. a
  BY <1>0
<1>3. values # {} => /\ last \in values /\ last \in DOMAIN q.events /\ ~IsEnd(q.events[last])
                     /\ \A j \in values : j <= last
  <2> SUFFICES ASSUME values # {}
               PROVE  last \in values /\ \A j \in values : j <= last
    OBVIOUS
  <2>1. \E i \in values : \A j \in values : j <= i
    BY <1>0, <1>2, GreatestPosition
  <2> QED BY <2>1
<1>h. h.seq = IF values = {} THEN x ELSE q.events[last].seq
  OBVIOUS
<1> HIDE DEF last
<1>4. x <= n /\ Chain(q.events, q.pending, em, x, n)
  BY InOrderChain DEF Row
<1>5. InOrder(p, h, n, em)
  <2>1. CASE values = {}
    <3>1. Chain(<<>>, q.pending, em, x, n)
      BY <1>4, EmptyFacts DEF Chain
    <3>2. h.seq = x
      BY <1>h, <2>1
    <3> QED BY <1>4, <3>1, <3>2, InOrderChain
  <2>2. CASE values # {}
    <3> HIDE DEF x
    <3>1. Chain(<<>>, q.pending, em, q.events[last].seq, n) /\ q.events[last].seq <= n
      BY <1>0, <1>3, <1>4, <2>2, ChainRead
    <3>2. h.seq = q.events[last].seq
      BY <1>h, <2>2
    <3> QED BY <3>1, <3>2, InOrderChain
  <2> QED BY <2>1, <2>2
<1>6. Kinds(<<>>) = {}
  BY EmptyFacts
<1>7. h.end \in Kinds(q.events) \cup {g.end}
  BY <1>0 DEF Kinds
<1>8. EndInv(p, h, em)
  <2>1. EndInv(q, g, em)
    BY DEF Row
  <2> QED BY <1>6, <1>7, <2>1 DEF EndInv
<1>9. ASSUME ~p.interrupted PROVE Gapless(p, h, n, em)
  <2>1. Gapless(q, g, n, em)
    BY <1>9 DEF Row
  <2>2. /\ ~q.cancelling /\ q.failure = None
        /\ Consecutive(q.events, x) /\ Consecutive(q.pending, x + a)
        /\ ~q.finished => Consecutive(em, x + a + b) /\ n = x + a + b + v
        /\ "completed" \in Kinds(q.pending) => n = x + a + b - 1
        /\ "completed" \in Kinds(q.events) => n = x + a - 1
    BY <2>1 DEF Gapless
  <2>3. values # {} => q.events[last].seq = x + last
    BY <1>3, <2>2 DEF Consecutive
  <2>4. CASE q.terminal
    <3>1. q.finished /\ q.pending = <<>> /\ IsEnd(q.events[a])
      BY <2>4 DEF OutboxInv
    <3>2. \A i \in DOMAIN q.events : IsEnd(q.events[i]) => i = a
      BY DEF OutboxInv
    <3>3. h.seq = x + a - 1
      <4>1. CASE a = 1
        <5>1. values = {}
          BY <1>0, <3>1, <4>1
        <5>2. h.seq = x
          BY <1>h, <5>1
        <5> HIDE DEF x, a
        <5> QED BY <1>0, <4>1, <5>2
      <4>2. CASE a # 1
        <5>1. a - 1 \in DOMAIN q.events /\ a - 1 # a
          <6> HIDE DEF a
          <6> QED BY <1>0, <4>2
        <5>2. a - 1 \in values /\ a \notin values
          BY <3>1, <3>2, <5>1
        <5>3. last \in values /\ a - 1 <= last
          BY <1>3, <5>2
        <5> HIDE DEF x, a
        <5>4. last \in 1 .. a /\ last # a
          BY <1>2, <5>2, <5>3
        <5>5. last = a - 1
          BY <1>0, <5>3, <5>4
        <5>6. h.seq = x + last
          BY <1>h, <2>3, <5>2
        <5> QED BY <1>0, <5>5, <5>6
      <4> QED BY <4>1, <4>2
    <3>4. h.end = "completed" => n = h.seq
      <4>1. h.end = q.events[a].kind
        BY <2>4
      <4>2. h.end \in Kinds(q.events)
        BY <1>0, <4>1 DEF Kinds
      <4> QED BY <2>2, <3>3, <4>2
    <3>5. p.pending = <<>> /\ Kinds(p.pending) = {} /\ Kinds(p.events) = {}
      BY <1>6, <3>1
    <3>6. Consecutive(p.events, h.seq) /\ Consecutive(p.pending, h.seq + Len(p.events))
      BY <3>5, EmptyFacts
    <3> QED BY <2>2, <3>1, <3>4, <3>5, <3>6 DEF Gapless
  <2>5. CASE ~q.terminal
    <3>1. \A i \in DOMAIN q.events : ~IsEnd(q.events[i])
      BY <2>5 DEF OutboxInv
    <3>2. a \in values
      BY <1>0, <3>1
    <3>3. last \in 1 .. a /\ a <= last
      BY <1>2, <1>3, <3>2
    <3>4. last = a
      <4> HIDE DEF a
      <4> QED BY <1>0, <3>3
    <3>5. h.seq = x + a
      BY <1>h, <2>3, <3>2, <3>4
    <3>6. h.end = None
      BY <1>1, <2>5
    <3>7. Len(p.events) = 0 /\ Kinds(p.events) = {}
      BY <1>6
    <3> HIDE DEF x, a, b, v
    <3>8. h.seq + Len(p.events) = x + a /\ h.seq \in Nat
      BY <1>0, <3>5, <3>7
    <3>9. Consecutive(p.events, h.seq)
      BY EmptyFacts
    <3>10. Consecutive(p.pending, h.seq + Len(p.events))
      BY <2>2, <3>8
    <3>11. ~p.finished => /\ Consecutive(em, h.seq + Len(p.events) + Len(p.pending))
                          /\ n = h.seq + Len(p.events) + Len(p.pending) + v
      BY <2>2, <3>8 DEF b
    <3>12. "completed" \in Kinds(p.pending) => n = h.seq + Len(p.events) + Len(p.pending) - 1
      BY <2>2, <3>8 DEF b
    <3> QED BY <2>2, <3>6, <3>7, <3>9, <3>10, <3>11, <3>12 DEF Gapless, None, v
  <2> QED BY <2>4, <2>5
<1> QED BY <1>5, <1>8, <1>9 DEF Row

\* Row looks at no other field of the record.
LEMMA RowFrame ==
    ASSUME NEW q, NEW p, NEW g, NEW n, NEW em, Row(q, g, n, em),
           p.events = q.events, p.pending = q.pending, p.failure = q.failure,
           p.finished <=> q.finished, p.cancelling <=> q.cancelling,
           p.interrupted <=> q.interrupted
    PROVE  Row(p, g, n, em)
BY DEF Row, InOrder, Gapless, EndInv

(***************************************************************************)
(* What a step of the executor produces.                                   *)
(***************************************************************************)
StepKinds == {"value", "completed", "cancelled", "failed"}

\* Where a terminal event comes last, the values are the positions before it.
LEMMA Tally ==
    ASSUME NEW s \in Seq(Event), \A i \in DOMAIN s : IsEnd(s[i]) => i = Len(s)
    PROVE  /\ ValueCount(s) \in Nat /\ Cardinality(Values(s)) = ValueCount(s)
           /\ \A i \in DOMAIN s : ~IsEnd(s[i]) => i <= ValueCount(s)
<1> DEFINE v == ValueCount(s)
<1>0. Len(s) \in Nat /\ DOMAIN s = 1 .. Len(s) /\ (s # <<>> => Len(s) > 0 /\ Len(s) \in DOMAIN s)
  OBVIOUS
<1>1. v \in Nat /\ Values(s) = 1 .. v
  <2>1. CASE s # <<>> /\ IsEnd(s[Len(s)])
    <3>1. v = Len(s) - 1
      BY <2>1 DEF ValueCount
    <3>2. Len(s) \notin Values(s) /\ Values(s) \subseteq 1 .. Len(s)
      BY <1>0, <2>1 DEF Values
    <3>3. ASSUME NEW i \in 1 .. v PROVE i \in Values(s)
      <4>1. i \in 1 .. Len(s) /\ i # Len(s)
        <5>1. \A m \in Nat : \A j \in 1 .. (m - 1) : j \in 1 .. m /\ j # m
          OBVIOUS
        <5>2. Len(s) \in Nat /\ i \in 1 .. (Len(s) - 1)
          BY <3>1
        <5> QED BY <5>1, <5>2, Zenon
      <4> QED BY <1>0, <4>1 DEF Values
    <3> HIDE DEF v
    <3>4. v \in Nat
      BY <1>0, <2>1, <3>1
    <3>5. ASSUME NEW i \in Values(s) PROVE i \in 1 .. v
      BY <1>0, <3>1, <3>2
    <3> QED BY <3>3, <3>4, <3>5
  <2>2. CASE ~(s # <<>> /\ IsEnd(s[Len(s)]))
    <3>1. v = Len(s)
      BY <2>2 DEF ValueCount
    <3>2. \A i \in DOMAIN s : ~IsEnd(s[i])
      BY <1>0, <2>2
    <3> HIDE DEF v
    <3> QED BY <1>0, <3>1, <3>2 DEF Values
  <2> QED BY <2>1, <2>2
<1> HIDE DEF v
<1>2. Cardinality(Values(s)) = v
  <2>1. Cardinality(1 .. v) = IF 1 > v THEN 0 ELSE v - 1 + 1
    BY <1>1, FS_Interval
  <2> QED BY <1>1, <2>1
<1>3. ASSUME NEW i \in DOMAIN s, ~IsEnd(s[i]) PROVE i <= v
  <2>1. i \in Values(s)
    BY <1>3 DEF Values
  <2> QED BY <1>1, <2>1
<1> QED BY <1>1, <1>2, <1>3 DEF v

\* Consecutive values rise and end with the last one.
LEMMA ConsecutiveFacts ==
    ASSUME NEW s \in Seq(Event), \A i \in DOMAIN s : IsEnd(s[i]) => i = Len(s),
           NEW n \in Nat, Consecutive(s, n)
    PROVE  Rising(s) /\ Within(s, n, n + ValueCount(s))
<1> DEFINE v == ValueCount(s)
<1>1. /\ v \in Nat /\ \A i \in DOMAIN s : ~IsEnd(s[i]) => i <= v
      /\ \A i \in DOMAIN s : i \in Nat /\ i >= 1
  BY Tally
<1>2. \A i \in DOMAIN s : ~IsEnd(s[i]) => s[i].seq = n + i
  BY DEF Consecutive
<1> HIDE DEF v
<1>3. Rising(s)
  BY <1>1, <1>2 DEF Rising
<1>4. Within(s, n, n + v)
  BY <1>1, <1>2 DEF Within
<1> QED BY <1>3, <1>4 DEF v

\* Up to two values in a row and a terminal event.
LEMMA EventsInARow ==
    ASSUME NEW n \in Nat, NEW v \in Event, ~IsEnd(v), v.seq = n + 1,
           NEW w \in Event, ~IsEnd(w), w.seq = n + 2, NEW e \in Event, IsEnd(e)
    PROVE  /\ Consecutive(<<>>, n) /\ Consecutive(<<v>>, n) /\ Consecutive(<<e>>, n)
           /\ Consecutive(<<v, e>>, n) /\ Consecutive(<<v, w, e>>, n)
           /\ Kinds(<<>>) = {} /\ Kinds(<<v>>) \subseteq {"value"} /\ Kinds(<<e>>) \subseteq {e.kind}
           /\ Kinds(<<v, e>>) \subseteq {"value", e.kind} /\ Kinds(<<v, w, e>>) \subseteq {"value", e.kind}
<1>0. v.kind = "value" /\ w.kind = "value"
  BY DEF IsEnd
<1>1. /\ DOMAIN <<v>> = {1} /\ DOMAIN <<e>> = {1} /\ DOMAIN <<v, e>> = {1, 2}
      /\ DOMAIN <<v, w, e>> = {1, 2, 3}
  OBVIOUS
<1>2. Consecutive(<<v>>, n) /\ Consecutive(<<e>>, n)
  BY <1>1 DEF Consecutive
<1>3. Consecutive(<<v, e>>, n)
  BY <1>1 DEF Consecutive
<1>4. Consecutive(<<v, w, e>>, n)
  BY <1>1 DEF Consecutive
<1>5. Kinds(<<v>>) \subseteq {"value"} /\ Kinds(<<e>>) \subseteq {e.kind}
  BY <1>0, <1>1 DEF Kinds
<1>6. Kinds(<<v, e>>) \subseteq {"value", e.kind}
  <2>1. <<v, e>>[1] = v /\ <<v, e>>[2] = e
    OBVIOUS
  <2> QED BY <1>0, <1>1, <2>1 DEF Kinds
<1>7. Kinds(<<v, w, e>>) \subseteq {"value", e.kind}
  <2>1. <<v, w, e>>[1] = v /\ <<v, w, e>>[2] = w /\ <<v, w, e>>[3] = e
    OBVIOUS
  <2> QED BY <1>0, <1>1, <2>1 DEF Kinds
<1> QED BY <1>2, <1>3, <1>4, <1>5, <1>6, <1>7, EmptyFacts

\* The values of a quantum are the next ones, and a cancelled request does not
\* complete.
LEMMA QuantumEvents ==
    ASSUME ExecutorTypeOK, NEW s \in Streams, NEW ab, NEW o \in Quantum(s, ab)
    PROVE  /\ Consecutive(o.events, produced[s]) /\ Kinds(o.events) \subseteq StepKinds
           /\ s \in ab => "completed" \notin Kinds(o.events)
<1> DEFINE end == End(s, EndKind(s, ab))
           fail == End(s, "failed")
           n == produced[s]
           V(m, b) == Value(s, m, b)
<1>1. n \in Nat /\ n + 1 \in Nat /\ n + 2 \in Nat
  BY DEF ExecutorTypeOK
<1>2. Weights \subseteq Nat /\ Tails(s) \subseteq Nat /\ UsageBytes \in Nat
  BY ExecutorAssumption DEF Tails
<1>3. /\ end \in Event /\ IsEnd(end) /\ fail \in Event /\ IsEnd(fail)
      /\ end.kind \in {"completed", "cancelled"} /\ (s \in ab => end.kind = "cancelled")
      /\ fail.kind = "failed"
  BY EventFacts DEF EndKinds, EndKind, End
<1>4. \A m \in Nat, b \in Nat : V(m, b) \in Event /\ ~IsEnd(V(m, b)) /\ V(m, b).seq = m
  BY EventFacts DEF Value
<1>8. ASSUME NEW b \in Nat
      PROVE  /\ Consecutive(<<V(n + 1, b)>>, n) /\ Kinds(<<V(n + 1, b)>>) \subseteq {"value"}
             /\ Consecutive(<<V(n + 1, b), end>>, n)
             /\ Kinds(<<V(n + 1, b), end>>) \subseteq {"value", end.kind}
             /\ Consecutive(<<V(n + 1, b), V(n + 2, UsageBytes), end>>, n)
             /\ Kinds(<<V(n + 1, b), V(n + 2, UsageBytes), end>>) \subseteq {"value", end.kind}
  <2> DEFINE x == V(n + 1, b)
             y == V(n + 2, UsageBytes)
  <2>1. /\ x \in Event /\ ~IsEnd(x) /\ x.seq = n + 1
        /\ y \in Event /\ ~IsEnd(y) /\ y.seq = n + 2
    BY <1>1, <1>2, <1>4
  <2> HIDE DEF x, y, V, n, end
  <2>3. n \in Nat /\ end \in Event /\ IsEnd(end)
    BY <1>1, <1>3
  <2>2. /\ Consecutive(<<x>>, n) /\ Kinds(<<x>>) \subseteq {"value"}
        /\ Consecutive(<<x, end>>, n) /\ Kinds(<<x, end>>) \subseteq {"value", end.kind}
        /\ Consecutive(<<x, y, end>>, n) /\ Kinds(<<x, y, end>>) \subseteq {"value", end.kind}
    <3>1. Consecutive(<<x>>, n) /\ Kinds(<<x>>) \subseteq {"value"}
      BY <2>1, <2>3, EventsInARow
    <3>2. Consecutive(<<x, end>>, n) /\ Kinds(<<x, end>>) \subseteq {"value", end.kind}
      <4>1. Consecutive(<<x, end>>, n)
        BY <2>1, <2>3, EventsInARow
      <4>2. Kinds(<<x, end>>) \subseteq {"value", end.kind}
        BY <2>1, <2>3, EventsInARow
      <4> QED BY <4>1, <4>2
    <3>3. Consecutive(<<x, y, end>>, n) /\ Kinds(<<x, y, end>>) \subseteq {"value", end.kind}
      BY <2>1, <2>3, EventsInARow
    <3> QED BY <3>1, <3>2, <3>3
  <2> QED BY <2>2, Zenon DEF x, y
<1>9. Consecutive(<<fail>>, n) /\ Kinds(<<fail>>) \subseteq {fail.kind}
  <2> DEFINE x == V(n + 1, UsageBytes)
             y == V(n + 2, UsageBytes)
  <2>1. /\ x \in Event /\ ~IsEnd(x) /\ x.seq = n + 1
        /\ y \in Event /\ ~IsEnd(y) /\ y.seq = n + 2
    BY <1>1, <1>2, <1>4
  <2> HIDE DEF x, y, V, n, fail
  <2> QED BY <1>1, <1>3, <2>1, EventsInARow
<1>5. CASE o \in Yields(s, ab)
  <2>1. \/ \E b \in Nat, f \in BOOLEAN : o = Outcome(<<V(n + 1, b)>>, FALSE, f, FALSE)
        \/ o = Outcome(<<>>, FALSE, FALSE, FALSE)
    BY <1>2, <1>5 DEF Yields
  <2> HIDE DEF V, n, end
  <2>2. ASSUME NEW b \in Nat, NEW f \in BOOLEAN, o = Outcome(<<V(n + 1, b)>>, FALSE, f, FALSE)
        PROVE  Consecutive(o.events, n) /\ Kinds(o.events) \subseteq {"value"}
    <3>1. o.events = <<V(n + 1, b)>>
      BY <2>2 DEF Outcome
    <3>2. Consecutive(<<V(n + 1, b)>>, n) /\ Kinds(<<V(n + 1, b)>>) \subseteq {"value"}
      BY <1>8
    <3> QED BY <3>1, <3>2
  <2>3. ASSUME o = Outcome(<<>>, FALSE, FALSE, FALSE)
        PROVE  Consecutive(o.events, n) /\ Kinds(o.events) = {}
    <3>1. o.events = <<>>
      BY <2>3 DEF Outcome
    <3> QED BY <3>1, EmptyFacts
  <2>4. Consecutive(o.events, n) /\ Kinds(o.events) \subseteq {"value"}
    BY <2>1, <2>2, <2>3
  <2> QED BY <2>4 DEF StepKinds, n
<1>6. CASE o \in Finishes(s, ab)
  <2>1. \/ o = Outcome(<<V(n + 1, UsageBytes), end>>, TRUE, FALSE, FALSE)
        \/ \E b \in Nat : o = Outcome(<<V(n + 1, b), V(n + 2, UsageBytes), end>>,
                                      TRUE, FALSE, FALSE)
    BY <1>2, <1>6 DEF Finishes
  <2>2. \/ o.events = <<V(n + 1, UsageBytes), end>>
        \/ \E b \in Nat : o.events = <<V(n + 1, b), V(n + 2, UsageBytes), end>>
    <3> HIDE DEF V, n, end
    <3> QED BY <2>1 DEF Outcome
  <2> HIDE DEF V, n, end
  <2>3. Consecutive(o.events, n) /\ Kinds(o.events) \subseteq {"value", end.kind}
    BY <1>2, <1>8, <2>2
  <2> QED BY <1>3, <2>3 DEF StepKinds, n
<1>7. CASE o \in Fails(s)
  <2>1. \E k \in BOOLEAN : o = Outcome(<<fail>>, TRUE, FALSE, k)
    BY <1>7 DEF Fails
  <2> HIDE DEF V, n, fail
  <2>2. o.events = <<fail>>
    BY <2>1 DEF Outcome
  <2>3. Consecutive(<<fail>>, n) /\ Kinds(<<fail>>) \subseteq {fail.kind}
    BY <1>9
  <2> QED BY <1>3, <2>2, <2>3 DEF StepKinds, n
<1> QED BY <1>5, <1>6, <1>7 DEF Quantum

\* What step() adds to what a request has produced.
StepEvents(ab, keep) ==
    /\ \A s \in Streams : /\ produced[s] <= produced'[s]
                          /\ s \notin running => produced'[s] = produced[s]
    /\ keep => \A s \in Streams :
          /\ Consecutive(emitted'[s], produced[s]) /\ Rising(emitted'[s])
          /\ Within(emitted'[s], produced[s], produced[s] + ValueCount(emitted'[s]))
          /\ produced'[s] = produced[s] + ValueCount(emitted'[s])
          /\ Kinds(emitted'[s]) \subseteq StepKinds
          /\ s \in ab => "completed" \notin Kinds(emitted'[s])
    /\ ab \cap running' \subseteq aborted'

\* The outcomes o of the requests that took a step.
LEMMA ConcludeEvents ==
    ASSUME ExecutorTypeOK, NEW ab, NEW keep \in BOOLEAN, NEW o, DOMAIN o \subseteq running,
           \A s \in DOMAIN o :
              /\ Shape(o[s], s) /\ Consecutive(o[s].events, produced[s])
              /\ Kinds(o[s].events) \subseteq StepKinds
              /\ s \in ab => "completed" \notin Kinds(o[s].events),
           Conclude(o, ab, keep)
    PROVE  StepEvents(ab, keep)
<1> DEFINE T == DOMAIN o
           gone == { s \in T : o[s].done }
<1>1. /\ running' = running \ gone
      /\ aborted' = ab \ gone
      /\ produced' = [s \in Streams |-> IF s \in T
                        THEN produced[s] + Cardinality(Values(o[s].events))
                        ELSE produced[s]]
      /\ emitted' = [s \in Streams |-> IF keep /\ s \in T THEN o[s].events ELSE <<>>]
  BY DEF Conclude
<1>2. T \subseteq Streams /\ \A s \in Streams : produced[s] \in Nat
  BY DEF ExecutorTypeOK
<1>3. ASSUME NEW s \in T
      PROVE  /\ o[s].events \in Seq(Event) /\ ValueCount(o[s].events) \in Nat
             /\ Cardinality(Values(o[s].events)) = ValueCount(o[s].events)
             /\ Rising(o[s].events)
             /\ Within(o[s].events, produced[s], produced[s] + ValueCount(o[s].events))
  <2>1. /\ o[s].events \in Seq(Event)
        /\ \A i \in DOMAIN o[s].events : IsEnd(o[s].events[i]) => i = Len(o[s].events)
        /\ Consecutive(o[s].events, produced[s]) /\ produced[s] \in Nat
    BY <1>2 DEF Shape
  <2> QED BY <2>1, Tally, ConsecutiveFacts
<1>4. ab \cap running' \subseteq aborted'
  BY <1>1
<1> HIDE DEF T, gone
<1>5. ASSUME NEW s \in Streams
      PROVE  /\ produced[s] <= produced'[s]
             /\ s \notin running => produced'[s] = produced[s]
  <2>1. CASE s \in T
    <3>1. produced'[s] = produced[s] + ValueCount(o[s].events) /\ s \in running
      BY <1>1, <1>3, <2>1 DEF T
    <3> QED BY <1>2, <1>3, <2>1, <3>1
  <2>2. CASE s \notin T
    BY <1>1, <1>2, <2>2
  <2> QED BY <2>1, <2>2
<1>6. ASSUME keep, NEW s \in Streams
      PROVE  /\ Consecutive(emitted'[s], produced[s]) /\ Rising(emitted'[s])
             /\ Within(emitted'[s], produced[s], produced[s] + ValueCount(emitted'[s]))
             /\ produced'[s] = produced[s] + ValueCount(emitted'[s])
             /\ Kinds(emitted'[s]) \subseteq StepKinds
             /\ s \in ab => "completed" \notin Kinds(emitted'[s])
  <2>1. CASE s \in T
    <3>1. emitted'[s] = o[s].events /\ produced'[s] = produced[s] + ValueCount(o[s].events)
      BY <1>1, <1>3, <1>6, <2>1
    <3>2. /\ Consecutive(o[s].events, produced[s])
          /\ Kinds(o[s].events) \subseteq StepKinds
          /\ s \in ab => "completed" \notin Kinds(o[s].events)
      BY <2>1 DEF T
    <3>3. /\ Rising(o[s].events)
          /\ Within(o[s].events, produced[s], produced[s] + ValueCount(o[s].events))
      BY <1>3, <2>1
    <3> QED BY <3>1, <3>2, <3>3
  <2>2. CASE s \notin T
    <3>1. emitted'[s] = <<>> /\ produced'[s] = produced[s]
      BY <1>1, <2>2
    <3>2. produced[s] = produced[s] + ValueCount(<<>>)
      BY <1>2, EmptyFacts
    <3>3. /\ Consecutive(<<>>, produced[s]) /\ Rising(<<>>) /\ Kinds(<<>>) = {}
          /\ Within(<<>>, produced[s], produced[s] + ValueCount(<<>>))
      BY EmptyFacts
    <3> QED BY <3>1, <3>2, <3>3
  <2> QED BY <2>1, <2>2
<1> QED BY <1>4, <1>5, <1>6 DEF StepEvents

\* step(eligible) with the set ab of cancelled requests.
LEMMA StepProduces ==
    ASSUME ExecutorTypeOK, NEW E, NEW ab, ab \subseteq running, NEW keep \in BOOLEAN,
           Step(E, ab, keep)
    PROVE  StepEvents(ab, keep)
<1>1. ASSUME NEW o \in StepOutcomes(E, ab), Conclude(o, ab, keep)
      PROVE  StepEvents(ab, keep)
  <2>1. /\ DOMAIN o = Stepping(E, ab)
        /\ \A s \in DOMAIN o : o[s] \in Quantum(s, ab)
    BY <1>1 DEF StepOutcomes
  <2>2. Stepping(E, ab) \subseteq running /\ running \subseteq Streams
    BY DEF Stepping, Holding, ExecutorTypeOK
  <2>3. ASSUME NEW s \in DOMAIN o
        PROVE  /\ Shape(o[s], s) /\ Consecutive(o[s].events, produced[s])
               /\ Kinds(o[s].events) \subseteq StepKinds
               /\ s \in ab => "completed" \notin Kinds(o[s].events)
    <3>1. s \in Streams /\ o[s] \in Quantum(s, ab)
      BY <2>1, <2>2
    <3> QED BY <3>1, QuantumShape, QuantumEvents
  <2>4. DOMAIN o \subseteq running
    BY <2>1, <2>2
  <2> QED BY <1>1, <2>3, <2>4, ConcludeEvents
<1>2. ASSUME Conclude([s \in running |-> Outcome(<<End(s, "failed")>>, TRUE, FALSE, TRUE)],
                      ab, keep)
      PROVE  StepEvents(ab, keep)
  <2> DEFINE o == [s \in running |-> Outcome(<<End(s, "failed")>>, TRUE, FALSE, TRUE)]
  <2>1. DOMAIN o = running
    OBVIOUS
  <2>2. ASSUME NEW s \in DOMAIN o
        PROVE  /\ Shape(o[s], s) /\ Consecutive(o[s].events, produced[s])
               /\ Kinds(o[s].events) \subseteq StepKinds
               /\ s \in ab => "completed" \notin Kinds(o[s].events)
    <3> DEFINE e == End(s, "failed")
               v == Value(s, produced[s] + 1, 0)
               w == Value(s, produced[s] + 2, 0)
    <3>1. s \in Streams /\ produced[s] \in Nat
      BY <2>1 DEF ExecutorTypeOK
    <3>2. e \in Event /\ IsEnd(e) /\ e.of = s /\ e.kind = "failed"
      BY <3>1, EventFacts DEF EndKinds, End
    <3>3. /\ v \in Event /\ v.of = s /\ ~IsEnd(v) /\ v.seq = produced[s] + 1
          /\ w \in Event /\ w.of = s /\ ~IsEnd(w) /\ w.seq = produced[s] + 2
      BY <3>1, EventFacts DEF Value
    <3>4. o[s] = Outcome(<<e>>, TRUE, FALSE, TRUE)
      BY <2>1
    <3> HIDE DEF e, v, w, o
    <3>5. Shape(Outcome(<<e>>, TRUE, FALSE, TRUE), s)
      BY <3>1, <3>2, <3>3, OutcomeShape
    <3>6. Consecutive(<<e>>, produced[s]) /\ Kinds(<<e>>) \subseteq {e.kind}
      BY <3>1, <3>2, <3>3, EventsInARow
    <3>7. o[s].events = <<e>>
      BY <3>4 DEF Outcome
    <3>8. Shape(o[s], s) /\ Consecutive(o[s].events, produced[s])
      BY <3>4, <3>5, <3>6, <3>7
    <3>9. Kinds(o[s].events) \subseteq {"failed"}
      BY <3>2, <3>6, <3>7
    <3> QED BY <3>8, <3>9 DEF StepKinds
  <2>3. Conclude(o, ab, keep)
    BY <1>2
  <2> HIDE DEF o
  <2> QED BY <2>1, <2>2, <2>3, ConcludeEvents
<1> QED BY <1>1, <1>2 DEF Step

(***************************************************************************)
(* Every action keeps DeliveryInv.                                         *)
(***************************************************************************)

\* DeliveryInv in terms of Row.
LEMMA DeliveryParts ==
    DeliveryInv <=> \A r \in Streams :
        /\ Row(req[r], got[r], produced[r], emitted[r])
        /\ req[r].cancelling /\ r \in running => r \in aborted
BY DEF DeliveryInv, Row

\* The same in the next state.
LEMMA DeliveryPartsNext ==
    DeliveryInv' <=> \A r \in Streams :
        /\ Row(req'[r], got'[r], produced'[r], emitted'[r])
        /\ req'[r].cancelling /\ r \in running' => r \in aborted'
BY DEF DeliveryInv, Row, InOrder, Gapless, EndInv

\* What IInv says of one request.
LEMMA RowContext ==
    ASSUME IInv, NEW r \in Streams
    PROVE  /\ req[r] \in Request /\ OutboxInv(req[r], r) /\ got[r] \in Reading
           /\ produced[r] \in Nat /\ emitted[r] \in Seq(Event)
           /\ got[r].end # None => req[r].terminal /\ req[r].events = <<>>
           /\ ~req[r].finished => got[r].end = None
           /\ pc # "publish" => emitted[r] = <<>>
           /\ r \in running => r \in live /\ req[r].admitted /\ ~req[r].finished
<1>1. /\ req[r] \in Request /\ OutboxInv(req[r], r) /\ got[r] \in Reading
      /\ produced[r] \in Nat /\ emitted[r] \in Seq(Event)
  BY DEF IInv, TypeOK, Reading
<1>2. got[r].end # None => req[r].terminal /\ req[r].events = <<>>
  BY DEF IInv, ReadInv
<1>3. req[r].terminal => req[r].finished
  BY <1>1 DEF OutboxInv
<1> QED BY <1>1, <1>2, <1>3 DEF IInv, ExecutorInv

\* Nothing follows the only event.
LEMMA TailOfOne ==
    ASSUME NEW S, NEW s \in Seq(S), Len(s) = 1
    PROVE  Tail(s) = <<>> /\ 1 \in DOMAIN s
<1>1. s # <<>> /\ 1 \in DOMAIN s
  OBVIOUS
<1>2. Tail(s) \in Seq(S) /\ Len(Tail(s)) = Len(s) - 1
  BY <1>1, HeadTailProperties
<1>3. Len(Tail(s)) = 0
  BY <1>2
<1> QED BY <1>1, <1>2, <1>3, EmptySeq

\* A step that leaves the requests, their consumers and the executor alone.
LEMMA StillDelivers ==
    ASSUME DeliveryInv, UNCHANGED << req, got, produced, emitted, running, aborted >>
    PROVE  DeliveryInv'
BY DEF DeliveryInv

\* A step that changes one request.
LEMMA OneRow ==
    ASSUME DeliveryInv, NEW r \in Streams, UNCHANGED << got, produced, emitted >>,
           \A s \in Streams \ {r} : req'[s] = req[s] /\ (s \in running' => s \in running),
           aborted \subseteq aborted',
           Row(req'[r], got[r], produced[r], emitted[r]),
           req'[r].cancelling /\ r \in running' => r \in aborted'
    PROVE  DeliveryInv'
<1> SUFFICES ASSUME NEW s \in Streams
             PROVE  /\ Row(req'[s], got'[s], produced'[s], emitted'[s])
                    /\ req'[s].cancelling /\ s \in running' => s \in aborted'
  BY DeliveryPartsNext
<1>1. CASE s = r
  BY <1>1
<1>2. CASE s # r
  <2>1. /\ Row(req[s], got[s], produced[s], emitted[s])
        /\ req[s].cancelling /\ s \in running => s \in aborted
    BY DeliveryParts
  <2>2. req'[s] = req[s] /\ (s \in running' => s \in running)
    BY <1>2
  <2> QED BY <2>1, <2>2
<1> QED BY <1>1, <1>2

\* wait()
LEMMA WaitDelivers ==
    ASSUME IInv, DeliveryInv, NEW r \in Streams, Wait(r)
    PROVE  DeliveryInv'
<1> DEFINE q == req[r]
           p == [q EXCEPT !.events = <<>>, !.bytes = 0]
           g == got[r]
           values == { i \in DOMAIN q.events : ~IsEnd(q.events[i]) }
           h == [seq |-> IF values = {} THEN g.seq
                         ELSE q.events[CHOOSE i \in values : \A j \in values : j <= i].seq,
                 end |-> IF q.terminal THEN q.events[Len(q.events)].kind ELSE g.end]
<1>0. /\ q \in Request /\ OutboxInv(q, r) /\ g \in Reading
      /\ produced[r] \in Nat /\ emitted[r] \in Seq(Event)
      /\ g.end # None => q.terminal /\ q.events = <<>>
  BY RowContext
<1>1. req \in [Streams -> Request] /\ got \in [Streams -> Reading] /\ IInv'
  BY WaitKeeps DEF IInv, TypeOK, Reading
<1>2. /\ got' = [got EXCEPT ![r] = h] /\ req' = [req EXCEPT ![r] = p] /\ q.events # <<>>
      /\ UNCHANGED << clientVars, loopVars, executorVars, expired >>
  <2>1. req' = [req EXCEPT ![r].events = <<>>, ![r].bytes = 0]
    BY DEF Wait
  <2>2. req' = [req EXCEPT ![r] = p]
    BY <1>1, <2>1 DEF Request
  <2> QED BY <2>2 DEF Wait
<1>3. /\ p \in Request /\ p.events = <<>> /\ p.pending = q.pending
      /\ p.failure = q.failure /\ (p.finished <=> q.finished)
      /\ (p.cancelling <=> q.cancelling) /\ (p.interrupted <=> q.interrupted)
  <2>1. <<>> \in Seq(Event)
    OBVIOUS
  <2> QED BY <1>0, <2>1 DEF Request
<1>4. /\ h.seq = IF values = {} THEN g.seq
                 ELSE q.events[CHOOSE i \in values : \A j \in values : j <= i].seq
      /\ h.end = IF q.terminal THEN q.events[Len(q.events)].kind ELSE g.end
  OBVIOUS
<1>5. values = { i \in DOMAIN q.events : ~IsEnd(q.events[i]) }
  OBVIOUS
<1> HIDE DEF values
<1>6. got'[r] = h /\ req'[r] = p /\ \A s \in Streams \ {r} : got'[s] = got[s] /\ req'[s] = req[s]
  BY <1>1, <1>2
<1> HIDE DEF h, p
<1>7. h \in Reading
  <2>1. got'[r] \in Reading
    BY <1>1 DEF IInv, TypeOK, Reading
  <2> QED BY <1>6, <2>1
<1>8. Row(q, g, produced[r], emitted[r])
  BY DeliveryParts
<1> HIDE DEF q, g
<1>9. Row(p, h, produced[r], emitted[r])
  BY <1>0, <1>2, <1>3, <1>4, <1>5, <1>7, <1>8, WaitRow
<1>10. UNCHANGED << produced, emitted, running, aborted >>
  BY <1>2 DEF executorVars
<1> SUFFICES ASSUME NEW s \in Streams
             PROVE  /\ Row(req'[s], got'[s], produced'[s], emitted'[s])
                    /\ req'[s].cancelling /\ s \in running' => s \in aborted'
  BY DeliveryPartsNext
<1>11. /\ Row(req[s], got[s], produced[s], emitted[s])
       /\ req[s].cancelling /\ s \in running => s \in aborted
  BY DeliveryParts
<1>12. CASE s = r
  <2>1. req'[s].cancelling <=> req[s].cancelling
    BY <1>3, <1>6, <1>12 DEF q
  <2> QED BY <1>6, <1>9, <1>10, <1>11, <1>12, <2>1
<1>13. CASE s # r
  <2>1. got'[s] = got[s] /\ req'[s] = req[s]
    BY <1>6, <1>13
  <2> QED BY <1>10, <1>11, <2>1
<1> QED BY <1>12, <1>13

\* cancel() of a set of requests, outside a step.
LEMMA CancelAllDelivers ==
    ASSUME IInv, DeliveryInv, pc # "publish", NEW S, CancelAll(S),
           UNCHANGED << got, produced, emitted, running >>
    PROVE  DeliveryInv'
<1>1. /\ req' = [r \in Streams |-> IF r \in S THEN Cancel(req[r], r) ELSE req[r]]
      /\ aborted' = aborted \cup Holding({ r \in S : TellsEngine(req[r]) })
  BY DEF CancelAll, CancelledWith
<1> SUFFICES ASSUME NEW s \in Streams
             PROVE  /\ Row(req'[s], got'[s], produced'[s], emitted'[s])
                    /\ req'[s].cancelling /\ s \in running' => s \in aborted'
  BY DeliveryPartsNext
<1>2. /\ Row(req[s], got[s], produced[s], emitted[s])
      /\ req[s].cancelling /\ s \in running => s \in aborted
  BY DeliveryParts
<1>3. CASE s \in S
  <2> DEFINE p == Cancel(req[s], s)
  <2>1. /\ req[s] \in Request /\ OutboxInv(req[s], s) /\ got[s] \in Reading
        /\ produced[s] \in Nat /\ emitted[s] \in Seq(Event) /\ emitted[s] = <<>>
        /\ got[s].end # None => req[s].terminal
        /\ s \in running => req[s].admitted /\ ~req[s].finished
    BY RowContext
  <2>2. Row(p, got[s], produced[s], emitted[s])
    BY <1>2, <2>1, CancelRow DEF Row
  <2>3. p.cancelling <=> req[s].cancelling \/ ~req[s].finished
    BY <2>1, CancelShape
  <2>4. req'[s] = p
    BY <1>1, <1>3
  <2> HIDE DEF p
  <2>5. ASSUME p.cancelling, s \in running PROVE s \in aborted'
    <3>1. CASE req[s].cancelling
      BY <1>1, <1>2, <2>5, <3>1
    <3>2. CASE ~req[s].cancelling
      BY <1>1, <1>3, <2>1, <2>5, <3>2 DEF TellsEngine, Holding
    <3> QED BY <3>1, <3>2
  <2> QED BY <2>2, <2>4, <2>5
<1>4. CASE s \notin S
  <2>1. req'[s] = req[s]
    BY <1>1, <1>4
  <2> QED BY <1>1, <1>2, <2>1
<1> QED BY <1>3, <1>4

\* flush()
LEMMA FlushDelivers ==
    ASSUME IInv, DeliveryInv, NEW r \in Streams, Flush(r)
    PROVE  DeliveryInv'
<1> DEFINE q == req[r]
           p == Deliver([q EXCEPT !.pending = Tail(@)], q.pending[1])
<1>0. /\ q \in Request /\ OutboxInv(q, r) /\ got[r] \in Reading
      /\ produced[r] \in Nat /\ emitted[r] \in Seq(Event)
      /\ got[r].end # None => q.terminal
  BY RowContext
<1>1. UNCHANGED << got, produced, emitted, running, aborted >>
  BY DEF Flush, executorVars
<1>2. /\ Row(q, got[r], produced[r], emitted[r])
      /\ q.cancelling /\ r \in running => r \in aborted
  BY DeliveryParts
<1>3. CASE q.pending # <<>> /\ Fits(q, q.pending[1])
  <2>1. req' = [req EXCEPT ![r] = p]
    BY <1>3 DEF Flush
  <2>2. Row(p, got[r], produced[r], emitted[r])
    BY <1>0, <1>2, <1>3, FlushRow
  <2>3. p.cancelling = q.cancelling
    BY <1>0 DEF Deliver, Request
  <2> HIDE DEF p
  <2>4. req'[r] = p /\ \A s \in Streams \ {r} : req'[s] = req[s]
    BY <2>1 DEF IInv, TypeOK
  <2> QED BY <1>1, <1>2, <2>2, <2>3, <2>4, OneRow
<1>4. CASE ~(q.pending # <<>> /\ Fits(q, q.pending[1]))
  <2>1. UNCHANGED req
    BY <1>4 DEF Flush
  <2> QED BY <1>1, <2>1, StillDelivers
<1> QED BY <1>3, <1>4

\* A cancelled, expired or finished request is passed over in the scan.
LEMMA ExamineEndingDelivers ==
    ASSUME IInv, DeliveryInv, NEW r \in Streams, ExamineEnding(r)
    PROVE  DeliveryInv'
<1> DEFINE q == req[r]
           p == Swept(r)
           f == [q EXCEPT !.failure = "deadline_exceeded"]
<1>0. /\ q \in Request /\ OutboxInv(q, r) /\ got[r] \in Reading
      /\ produced[r] \in Nat /\ emitted[r] \in Seq(Event)
      /\ got[r].end # None => q.terminal
      /\ r \in running => q.admitted /\ ~q.finished
  BY RowContext
<1>1. /\ pc = "examine" /\ req' = [req EXCEPT ![r] = p]
      /\ aborted' = aborted \cup Holding(IF p # q /\ TellsEngine(q) THEN {r} ELSE {})
      /\ UNCHANGED << got, produced, emitted, running >>
  BY DEF ExamineEnding, Examining, Scanned, CancelledWith
<1>2. /\ Row(q, got[r], produced[r], emitted[r]) /\ emitted[r] = <<>>
      /\ q.cancelling /\ r \in running => r \in aborted
  BY <1>1, DeliveryParts, RowContext
<1>3. /\ Row(p, got[r], produced[r], emitted[r])
      /\ p.cancelling => q.cancelling \/ ~q.finished
  <2>1. CASE p = q
    BY <1>2, <2>1
  <2>2. CASE p = Cancel(q, r)
    <3>1. Row(Cancel(q, r), got[r], produced[r], emitted[r])
      BY <1>0, <1>2, CancelRow DEF Row
    <3>2. Cancel(q, r).cancelling <=> q.cancelling \/ ~q.finished
      BY <1>0, CancelShape
    <3> HIDE DEF p
    <3> QED BY <2>2, <3>1, <3>2
  <2>3. CASE p = Cancel(f, r)
    <3>1. "deadline_exceeded" \in Failures \ {None}
      BY DEF Failures, None
    <3>2. /\ f \in Request /\ OutboxInv(f, r) /\ f.failure = "deadline_exceeded"
          /\ InOrder(f, got[r], produced[r], emitted[r]) /\ EndInv(f, got[r], emitted[r])
          /\ f.terminal <=> q.terminal
          /\ f.finished <=> q.finished
          /\ f.cancelling <=> q.cancelling
      BY <1>0, <1>2, <3>1, FailureRow DEF Row
    <3> HIDE DEF f, p, q
    <3>3. Row(Cancel(f, r), got[r], produced[r], emitted[r])
      BY <1>0, <1>2, <3>2, CancelRow
    <3>4. Cancel(f, r).cancelling <=> f.cancelling \/ ~f.finished
      BY <3>2, CancelShape
    <3> QED BY <2>3, <3>2, <3>3, <3>4
  <2>4. p = q \/ p = Cancel(q, r) \/ p = Cancel(f, r)
    BY DEF Swept, Expire
  <2> QED BY <2>1, <2>2, <2>3, <2>4
<1> HIDE DEF p
<1>4. req'[r] = p /\ \A s \in Streams \ {r} : req'[s] = req[s]
  BY <1>1 DEF IInv, TypeOK
<1>5. ASSUME p.cancelling, r \in running PROVE r \in aborted'
  <2>1. CASE q.cancelling
    BY <1>1, <1>2, <1>5, <2>1
  <2>2. CASE ~q.cancelling
    <3>1. p # q /\ TellsEngine(q)
      BY <1>0, <1>5, <2>2 DEF TellsEngine
    <3> QED BY <1>1, <1>5, <3>1 DEF Holding
  <2> QED BY <2>1, <2>2
<1> QED BY <1>1, <1>3, <1>4, <1>5, OneRow

\* admit() takes the request, which nobody has cancelled.
LEMMA AdmitAcceptedDelivers ==
    ASSUME IInv, DeliveryInv, NEW r \in Streams, AdmitAccepted(r)
    PROVE  DeliveryInv'
<1> DEFINE q == req[r]
           p == [q EXCEPT !.admitted = TRUE]
<1>0. q \in Request /\ OutboxInv(q, r) /\ req \in [Streams -> Request]
  BY RowContext DEF IInv, TypeOK
<1>1. /\ running' = running \cup {r}
      /\ UNCHANGED << got, produced, emitted, aborted >>
  BY DEF AdmitAccepted, Admit, Scanned
<1>2. req' = [req EXCEPT ![r] = p]
  BY <1>0 DEF AdmitAccepted, Request
<1>3. /\ p.events = q.events /\ p.pending = q.pending /\ p.failure = q.failure
      /\ p.finished <=> q.finished
      /\ p.cancelling <=> q.cancelling
      /\ p.interrupted <=> q.interrupted
  BY <1>0 DEF Request
<1>4. ~q.cancelling
  <2>1. ~Swept(r).cancelling
    BY DEF AdmitAccepted, Ending
  <2>2. Cancel(q, r).cancelling <=> q.cancelling \/ ~q.finished
    BY <1>0, CancelShape
  <2>3. q.cancelling => Expire(q, r) = q
    BY DEF Expire
  <2> QED BY <2>1, <2>2, <2>3 DEF Swept
<1> HIDE DEF p
<1>5. req'[r] = p /\ \A s \in Streams \ {r} : req'[s] = req[s]
  BY <1>0, <1>2
<1>6. Row(p, got[r], produced[r], emitted[r])
  <2>1. Row(q, got[r], produced[r], emitted[r])
    BY DeliveryParts
  <2> QED BY <1>3, <2>1, RowFrame
<1>7. \A s \in Streams \ {r} : s \in running' => s \in running
  BY <1>1
<1> QED BY <1>1, <1>3, <1>4, <1>5, <1>6, <1>7, OneRow

\* A request that has not finished fails, whatever more it was to produce.
LEMMA FailedRow ==
    ASSUME IInv, NEW r \in Streams, ~req[r].finished, NEW m \in Nat, produced[r] <= m,
           Row(req[r], got[r], produced[r], emitted[r])
    PROVE  Row(PublishEnd(req[r], End(r, "failed")), got[r], m, <<>>)
<1> DEFINE e == End(r, "failed")
<1>1. /\ req[r] \in Request /\ OutboxInv(req[r], r) /\ got[r] \in Reading
      /\ produced[r] \in Nat /\ emitted[r] \in Seq(Event) /\ got[r].end = None
  BY RowContext
<1>2. e \in Event /\ e.kind = "failed"
  BY EventFacts DEF EndKinds, End
<1> HIDE DEF e
<1>3. e.kind \in {"completed", "cancelled", "failed"} /\ e.kind # "completed"
  BY <1>2
<1> QED BY <1>1, <1>2, <1>3, EndRow DEF e

\* admit() refuses the request.
LEMMA AdmitRejectedDelivers ==
    ASSUME IInv, DeliveryInv, NEW r \in Streams, AdmitRejected(r)
    PROVE  DeliveryInv'
<1> DEFINE p == PublishEnd(req[r], End(r, "failed"))
<1>0. ~req[r].finished /\ ~req[r].admitted /\ pc = "examine"
  BY AdmissionFacts DEF AdmitRejected
<1>1. req' = [req EXCEPT ![r] = p] /\ UNCHANGED << got, executorVars >>
  BY DEF AdmitRejected, Scanned
<1>2. produced[r] \in Nat /\ produced[r] <= produced[r] /\ emitted[r] = <<>> /\ r \notin running
  BY <1>0, RowContext
<1>3. Row(req[r], got[r], produced[r], emitted[r])
  BY DeliveryParts
<1>4. Row(p, got[r], produced[r], emitted[r])
  BY <1>0, <1>2, <1>3, FailedRow
<1> HIDE DEF p
<1>5. req'[r] = p /\ \A s \in Streams \ {r} : req'[s] = req[s]
  BY <1>1 DEF IInv, TypeOK
<1> QED BY <1>1, <1>2, <1>4, <1>5, OneRow DEF executorVars

\* Engine::step()
LEMMA EngineStepDelivers ==
    ASSUME IInv, NoOrphans, DeliveryInv, EngineStep
    PROVE  DeliveryInv'
<1>0. pc = "step" /\ UNCHANGED << req, got >>
  BY DEF EngineStep
<1>1. CASE UNCHANGED executorVars
  BY <1>0, <1>1, StillDelivers DEF executorVars
<1>2. CASE Step(eligible, aborted, TRUE)
  <2>1. ExecutorTypeOK /\ aborted \subseteq running /\ TRUE \in BOOLEAN
        /\ \A s \in running : s \in Batchable \/ running = {s}
    BY TypeParts DEF IInv, RunsAlone, ExecutorTypeOK
  <2>2. StepEvents(aborted, TRUE)
    BY <1>2, <2>1, StepProduces
  <2>3. StepResult(aborted, TRUE)
    BY <1>2, <2>1, StepKeeps
  <2> SUFFICES ASSUME NEW s \in Streams
               PROVE  /\ Row(req'[s], got'[s], produced'[s], emitted'[s])
                      /\ req'[s].cancelling /\ s \in running' => s \in aborted'
    BY DeliveryPartsNext
  <2>4. /\ req[s] \in Request /\ OutboxInv(req[s], s) /\ got[s] \in Reading
        /\ produced[s] \in Nat /\ emitted[s] = <<>>
        /\ ~req[s].finished => got[s].end = None
        /\ s \in running => ~req[s].finished
    BY <1>0, RowContext
  <2>5. /\ Row(req[s], got[s], produced[s], <<>>)
        /\ req[s].cancelling /\ s \in running => s \in aborted
    BY <2>4, DeliveryParts
  <2>6. /\ Consecutive(emitted'[s], produced[s]) /\ Rising(emitted'[s])
        /\ Within(emitted'[s], produced[s], produced[s] + ValueCount(emitted'[s]))
        /\ produced'[s] = produced[s] + ValueCount(emitted'[s])
        /\ Kinds(emitted'[s]) \subseteq StepKinds
        /\ s \in aborted => "completed" \notin Kinds(emitted'[s])
    BY <2>2 DEF StepEvents
  <2>7. /\ emitted'[s] \in Seq(Event) /\ (emitted'[s] # <<>> => s \in running)
        /\ running' \subseteq running /\ aborted \cap running' \subseteq aborted'
    BY <2>2, <2>3 DEF StepResult, StepEvents, ExecutorTypeOK
  <2>8. Row(req[s], got[s], produced'[s], emitted'[s])
    <3>1. CASE s \in running
      <4>1. req[s].cancelling => "completed" \notin Kinds(emitted'[s])
        BY <2>5, <2>6, <3>1
      <4>2. Row(req[s], got[s], produced[s] + ValueCount(emitted'[s]), emitted'[s])
        BY <2>4, <2>5, <2>6, <2>7, <3>1, <4>1, StepRow DEF StepKinds
      <4> QED BY <2>6, <4>2
    <3>2. CASE s \notin running
      <4>1. emitted'[s] = <<>> /\ produced'[s] = produced[s]
        BY <2>2, <2>7, <3>2 DEF StepEvents
      <4> QED BY <2>5, <4>1
    <3> QED BY <3>1, <3>2
  <2>9. req[s].cancelling /\ s \in running' => s \in aborted'
    BY <2>5, <2>7
  <2> QED BY <1>0, <2>8, <2>9
<1>3. StepFaults = {}
  BY DEF StepFaults, NoOrphans
<1> QED BY <1>1, <1>2, <1>3 DEF EngineStep

\* One event of the step is published to the request it belongs to.
LEMMA PublishNextDelivers ==
    ASSUME IInv, DeliveryInv, NEW s \in Streams, PublishNext(s)
    PROVE  DeliveryInv'
<1> DEFINE q == req[s]
           g == got[s]
           n == produced[s]
           em == emitted[s]
           e == em[1]
           target == { r \in live : IdOf[r] = IdOf[s] }
           p == Publish(q, e, s)
<1>0. /\ pc = "publish" /\ em # <<>>
      /\ req' = [r \in Streams |-> IF r \in target THEN Publish(req[r], e, r) ELSE req[r]]
      /\ aborted' = aborted \cup Holding({ r \in target :
                                     Overflows(req[r], e) /\ TellsEngine(req[r]) })
      /\ emitted' = [emitted EXCEPT ![s] = Tail(@)]
      /\ UNCHANGED << running, produced, got >>
  BY DEF PublishNext, CancelledWith
<1>1. s \in live /\ q.admitted /\ ~q.finished
  BY <1>0 DEF IInv, ExecutorInv
<1>2. target = {s}
  BY <1>1 DEF IInv, LiveDistinct
<1>3. /\ q \in Request /\ OutboxInv(q, s) /\ g \in Reading /\ g.end = None
      /\ n \in Nat /\ em \in Seq(Event) /\ e \in Event
  BY <1>0, <1>1, RowContext
<1>4. /\ Row(q, g, n, em)
      /\ q.cancelling /\ s \in running => s \in aborted
  BY DeliveryParts
<1>5. IsEnd(e) => Len(em) = 1 /\ s \notin running
  <2>1. 1 \in DOMAIN em
    BY <1>0, <1>3
  <2> QED BY <2>1 DEF IInv, ExecutorInv
<1>6. /\ req'[s] = p /\ emitted'[s] = Tail(em)
      /\ \A r \in Streams \ {s} : req'[r] = req[r] /\ emitted'[r] = emitted[r]
  BY <1>0, <1>2 DEF IInv, TypeOK
<1>7. /\ aborted \subseteq aborted'
      /\ Overflows(q, e) /\ TellsEngine(q) /\ s \in running => s \in aborted'
  BY <1>0, <1>1 DEF Holding
<1> HIDE DEF target
<1>8. /\ Row(p, g, n, Tail(em))
      /\ p.cancelling /\ s \in running => s \in aborted'
  <2>1. CASE IsEnd(e)
    <3>1. p = PublishEnd(q, e)
      BY <2>1 DEF Publish
    <3>2. Tail(em) = <<>> /\ Len(em) = 1 /\ em[Len(em)] = e /\ 1 \in DOMAIN em
      <4>1. Len(em) = 1
        BY <1>5, <2>1
      <4>2. em[Len(em)] = e
        BY <4>1 DEF em
      <4> HIDE DEF em, e
      <4>3. em \in Seq(Event)
        BY <1>3
      <4>4. Tail(em) = <<>> /\ 1 \in DOMAIN em
        BY <4>1, <4>3, TailOfOne
      <4> QED BY <4>1, <4>2, <4>4
    <3>3. e.kind \in Kinds(em) /\ ValueCount(em) = 0
      BY <1>0, <2>1, <3>2 DEF Kinds, ValueCount
    <3>4. /\ e.kind \in {"completed", "cancelled", "failed"}
          /\ e.kind = "completed" /\ q.cancelling => q.failure # None
      <4>1. EndInv(q, g, em)
        BY <1>4 DEF Row
      <4> HIDE DEF e, em
      <4> QED BY <2>1, <3>3, <4>1 DEF EndInv, IsEnd
    <3>5. e.kind = "completed" /\ ~q.interrupted => n = g.seq + Len(q.events) + Len(q.pending)
      <4>1. ~q.interrupted => n = g.seq + Len(q.events) + Len(q.pending) + ValueCount(em)
        BY <1>1, <1>4 DEF Row, Gapless
      <4>2. g.seq \in Nat /\ Len(q.events) \in Nat /\ Len(q.pending) \in Nat
        BY <1>3 DEF Request, Reading
      <4> HIDE DEF g, q, n, em
      <4> QED BY <3>3, <4>1, <4>2
    <3> HIDE DEF e, em, q, g, n, p
    <3>6. n <= n
      BY <1>3
    <3>7. Row(PublishEnd(q, e), g, n, <<>>)
      BY <1>1, <1>3, <1>4, <3>4, <3>5, <3>6, EndRow
    <3> QED BY <1>5, <2>1, <3>1, <3>2, <3>7
  <2>2. CASE ~IsEnd(e)
    <3>1. p = PublishValue(q, e, s)
      BY <2>2 DEF Publish
    <3>2. Row(PublishValue(q, em[1], s), g, n, Tail(em))
      <4> HIDE DEF q, g, n, em
      <4> QED BY <1>0, <1>1, <1>3, <1>4, <2>2, ValueRow DEF e
    <3>3. p.cancelling => q.cancelling \/ Overflows(q, e)
      <4>1. ~q.terminal
        BY <1>1, <1>3 DEF OutboxInv
      <4>2. \/ p = q \/ Overflows(q, e) \/ p = Deliver(q, e) \/ p = Withhold(q, e)
        BY <2>2, <3>1, <4>1 DEF PublishValue, Overflows
      <4>3. Deliver(q, e).cancelling = q.cancelling /\ Withhold(q, e).cancelling = q.cancelling
        BY <1>3 DEF Deliver, Withhold, Request
      <4> HIDE DEF p, q, e
      <4> QED BY <4>2, <4>3
    <3>4. ~q.cancelling => TellsEngine(q)
      BY <1>1 DEF TellsEngine
    <3> HIDE DEF p, q, g, n, em
    <3> QED BY <1>4, <1>7, <3>1, <3>2, <3>3, <3>4 DEF e
  <2> QED BY <2>1, <2>2
<1> HIDE DEF p, q, g, n, em, e
<1> SUFFICES ASSUME NEW r \in Streams
             PROVE  /\ Row(req'[r], got'[r], produced'[r], emitted'[r])
                    /\ req'[r].cancelling /\ r \in running' => r \in aborted'
  BY DeliveryPartsNext
<1>9. CASE r = s
  <2>1. got'[r] = g /\ produced'[r] = n /\ running' = running
    BY <1>0, <1>9 DEF g, n
  <2>2. req'[r] = p /\ emitted'[r] = Tail(em)
    BY <1>6, <1>9
  <2> QED BY <1>8, <1>9, <2>1, <2>2
<1>10. CASE r # s
  <2>1. req'[r] = req[r] /\ emitted'[r] = emitted[r]
    BY <1>6, <1>10
  <2>2. /\ Row(req[r], got[r], produced[r], emitted[r])
        /\ req[r].cancelling /\ r \in running => r \in aborted
    BY DeliveryParts
  <2> QED BY <1>0, <1>7, <2>1, <2>2
<1> QED BY <1>9, <1>10

\* The recovery drops the events of its step, but every request that could have
\* produced one fails.
LEMMA RecoverDelivers ==
    ASSUME IInv, NoOrphans, DeliveryInv, Recover
    PROVE  DeliveryInv'
<1> DEFINE ab == CancelledWith({ r \in live : req[r].admitted })
<1>0. /\ pc = "recover"
      /\ req' = [r \in Streams |-> IF r \in live /\ ~req[r].finished
                                   THEN PublishEnd(req[r], End(r, "failed")) ELSE req[r]]
      /\ UNCHANGED got
  BY DEF Recover, FailUnfinished
<1>1. ab = running
  BY DEF CancelledWith, Holding, IInv, TypeOK, ExecutorInv
<1>2. Step({}, running, FALSE)
  <2>1. StepFaults = {}
    BY DEF StepFaults, NoOrphans
  <2>2. Step({}, ab, FALSE)
    BY <2>1 DEF Recover
  <2> QED BY <1>1, <2>2
<1>3. /\ ExecutorTypeOK /\ running \subseteq running /\ FALSE \in BOOLEAN
      /\ \A s \in running : s \in Batchable \/ running = {s}
  BY TypeParts DEF IInv, RunsAlone
<1>4. StepEvents(running, FALSE) /\ StepResult(running, FALSE)
  BY <1>2, <1>3, StepProduces, StepKeeps
<1>5. running' = {} /\ (\A s \in Streams : emitted'[s] = <<>>) /\ produced' \in [Streams -> Nat]
  <2>1. running \subseteq Batchable
    BY <1>0 DEF IInv, RecoveryInv
  <2> QED BY <1>4, <2>1 DEF StepResult, ExecutorTypeOK
<1> SUFFICES ASSUME NEW s \in Streams
             PROVE  Row(req'[s], got'[s], produced'[s], emitted'[s])
  BY <1>5, DeliveryPartsNext
<1>6. Row(req[s], got[s], produced[s], emitted[s])
  BY DeliveryParts
<1>7. CASE s \in live /\ ~req[s].finished
  <2>1. req'[s] = PublishEnd(req[s], End(s, "failed")) /\ emitted'[s] = <<>>
    BY <1>0, <1>5, <1>7
  <2>2. produced[s] <= produced'[s] /\ produced'[s] \in Nat
    BY <1>4, <1>5 DEF StepEvents
  <2>3. Row(PublishEnd(req[s], End(s, "failed")), got[s], produced'[s], <<>>)
    BY <1>6, <1>7, <2>2, FailedRow
  <2> QED BY <1>0, <2>1, <2>3
<1>8. CASE ~(s \in live /\ ~req[s].finished)
  <2>1. req'[s] = req[s] /\ s \notin running
    BY <1>0, <1>8 DEF IInv, ExecutorInv
  <2>2. produced'[s] = produced[s] /\ emitted'[s] = <<>> /\ emitted[s] = <<>>
    BY <1>0, <1>4, <1>5, <2>1, RowContext DEF StepEvents
  <2> QED BY <1>0, <1>6, <2>1, <2>2
<1> QED BY <1>7, <1>8

\* The scheduler starts in DeliveryInv.
LEMMA InitDelivers == Init => DeliveryInv
<1> SUFFICES ASSUME Init, NEW r \in Streams
             PROVE  /\ Row(req[r], got[r], produced[r], emitted[r])
                    /\ req[r].cancelling /\ r \in running => r \in aborted
  BY DeliveryParts
<1> DEFINE q == NewRequest
           g == [seq |-> 0, end |-> None]
<1>1. req[r] = q /\ got[r] = g /\ produced[r] = 0 /\ emitted[r] = <<>> /\ running = {}
  BY DEF Init, ExecutorInit, NoEvents
<1>2. /\ ~q.cancelling /\ ~q.finished /\ q.failure = None /\ q.pending = <<>> /\ q.events = <<>>
      /\ g.seq = 0 /\ g.end = None
  BY DEF NewRequest
<1> HIDE DEF q, g
<1>3. InOrder(q, g, 0, <<>>)
  <2>1. Chain(<<>>, <<>>, <<>>, 0, 0)
    BY EmptyFacts DEF Chain
  <2> QED BY <1>2, <2>1, InOrderChain
<1>4. Gapless(q, g, 0, <<>>)
  <2>1. /\ Consecutive(<<>>, 0) /\ Consecutive(<<>>, 0 + Len(<<>>)) /\ Kinds(<<>>) = {}
        /\ Consecutive(<<>>, 0 + Len(<<>>) + Len(<<>>))
        /\ 0 = 0 + Len(<<>>) + Len(<<>>) + ValueCount(<<>>)
    BY EmptyFacts
  <2> QED BY <1>2, <2>1 DEF Gapless, None
<1>5. EndInv(q, g, <<>>)
  BY <1>2, EmptyFacts DEF EndInv, None
<1> QED BY <1>1, <1>2, <1>3, <1>4, <1>5 DEF Row

\* Whatever the loop, a client or a consumer does keeps DeliveryInv.
LEMMA NextDelivers ==
    ASSUME IInv, NoOrphans, DeliveryInv, [Next]_vars
    PROVE  DeliveryInv'
<1> DEFINE Same == UNCHANGED << req, got, produced, emitted, running, aborted >>
<1>0. ~RecoverUnknown
  BY DEF IInv, RecoveryInv, RecoverUnknown
<1>1. ASSUME NEW r \in Streams, Scan(r)
      PROVE  DeliveryInv'
  <2>1. ASSUME ExamineOngoing(r) \/ AdmitDeferred(r) \/ AdmitThrows(r)
        PROVE  Same
    BY <2>1 DEF ExamineOngoing, AdmitDeferred, AdmitThrows, Scanned, executorVars
  <2> QED BY <1>1, <2>1, FlushDelivers, ExamineEndingDelivers, AdmitAcceptedDelivers,
             AdmitRejectedDelivers, StillDelivers DEF Scan
<1>2. CASE CancelCommand
  <2>1. /\ pc = "command" /\ UNCHANGED << got, produced, emitted, running >>
        /\ CancelAll({ r \in live : Matches(Head(commands), r) })
    BY <1>2 DEF CancelCommand, Take
  <2>2. pc # "publish"
    BY <2>1
  <2> QED BY <2>1, <2>2, CancelAllDelivers
<1>3. CASE ReloadCommand
  <2>1. /\ pc = "command" /\ UNCHANGED << got, produced, emitted, running >>
        /\ CancelAll(live) \/ Same
    BY <1>3 DEF ReloadCommand, Take
  <2>2. pc # "publish"
    BY <2>1
  <2> QED BY <2>1, <2>2, CancelAllDelivers, StillDelivers
<1>4. CASE Exit
  <2>1. UNCHANGED << req, got, produced, emitted >> /\ running' = {}
    BY <1>4 DEF Exit, EngineShutdown
  <2> QED BY <2>1 DEF DeliveryInv
<1>5. CASE Erase
  <2>1. Same
    BY <1>5 DEF Erase, FinishReload, ReloadSucceeds, ReloadFails, executorVars
  <2> QED BY <2>1, StillDelivers
<1>6. CASE Swap \/ Submit \/ Control \/ Session \/ Status \/ BeginScan \/ EndScan \/ EndPublish
  <2>1. Same
    BY <1>6 DEF Swap, Submit, Control, Session, Status, BeginScan, EndScan, EndPublish,
                Take, executorVars
  <2> QED BY <2>1, StillDelivers
<1>7. CASE \/ \E c \in Calls : Enqueue(c)
           \/ \E r \in Streams : Elapse(r)
           \/ Shutdown \/ Stopped \/ UNCHANGED vars
  <2>1. Same
    BY <1>7 DEF Enqueue, Elapse, Shutdown, Stopped, vars, executorVars
  <2> QED BY <2>1, StillDelivers
<1>8. CASE \E r \in Streams : Wait(r)
  BY <1>8, WaitDelivers
<1>9. CASE EngineStep \/ Recover \/ \E s \in Streams : PublishNext(s)
  BY <1>9, EngineStepDelivers, RecoverDelivers, PublishNextDelivers
<1> HIDE DEF Same
<1> QED BY <1>0, <1>1, <1>2, <1>3, <1>4, <1>5, <1>6, <1>7, <1>8, <1>9 DEF Next, Loop

\* The values of every request travel in the order in which they were produced,
\* none is lost without a cancel(), and a cancelled request does not complete.
THEOREM Delivery == NoOrphans /\ Spec => [](IInv /\ DeliveryInv)
<1> SUFFICES ASSUME NoOrphans PROVE Spec => [](IInv /\ DeliveryInv)
  OBVIOUS
<1>1. Init => IInv /\ DeliveryInv
  BY InitIInv, InitDelivers
<1>2. IInv /\ DeliveryInv /\ [Next]_vars => (IInv /\ DeliveryInv)'
  BY NextIInv, NextDelivers
<1> QED BY <1>1, <1>2, PTL DEF Spec

(***************************************************************************)
(* What DeliveryInv says of everything a consumer has not read yet.        *)
(***************************************************************************)

\* The elements of a concatenation.
LEMMA ConcatAt ==
    ASSUME NEW S, NEW s \in Seq(S), NEW t \in Seq(S)
    PROVE  /\ s \o t \in Seq(S) /\ Len(s \o t) = Len(s) + Len(t)
           /\ \A i \in DOMAIN (s \o t) :
                 \/ i \in DOMAIN s /\ i <= Len(s) /\ (s \o t)[i] = s[i]
                 \/ /\ i - Len(s) \in DOMAIN t /\ i > Len(s)
                    /\ (s \o t)[i] = t[i - Len(s)]
<1>1. /\ s \o t \in Seq(S) /\ Len(s \o t) = Len(s) + Len(t)
      /\ \A i \in 1..Len(s) + Len(t) :
            (s \o t)[i] = IF i <= Len(s) THEN s[i] ELSE t[i - Len(s)]
  BY ConcatProperties
<1>2. Len(s) \in Nat /\ Len(t) \in Nat /\ DOMAIN s = 1..Len(s) /\ DOMAIN t = 1..Len(t)
  OBVIOUS
<1>3. DOMAIN (s \o t) = 1..Len(s) + Len(t)
  BY <1>1
<1> DEFINE a == Len(s)
           b == Len(t)
<1> SUFFICES ASSUME NEW i \in 1..a + b
             PROVE  \/ i \in 1..a /\ i <= a /\ (s \o t)[i] = s[i]
                    \/ i - a \in 1..b /\ i > a /\ (s \o t)[i] = t[i - a]
  BY <1>1, <1>2, <1>3
<1>4. (s \o t)[i] = IF i <= a THEN s[i] ELSE t[i - a]
  BY <1>1
<1>5. a \in Nat /\ b \in Nat
  BY <1>2
<1> HIDE DEF a, b
<1> QED BY <1>4, <1>5

\* Two queues in order, the second after the first, are in order together.
LEMMA ConcatRising ==
    ASSUME NEW s \in Seq(Event), NEW t \in Seq(Event), NEW low \in Nat, NEW high \in Nat,
           Within(s, low, high), Within(t, low, high), Rising(s), Rising(t), Below(s, t)
    PROVE  Within(s \o t, low, high) /\ Rising(s \o t)
<1> DEFINE u == s \o t
           a == Len(s)
<1>1. \A i \in DOMAIN u :
          \/ i \in DOMAIN s /\ i <= a /\ u[i] = s[i]
          \/ i - a \in DOMAIN t /\ i > a /\ u[i] = t[i - a]
  BY ConcatAt
<1>2. a \in Nat /\ DOMAIN s \subseteq Int /\ DOMAIN u \subseteq Int
  <2>1. u \in Seq(Event)
    BY ConcatAt
  <2> HIDE DEF u
  <2> QED BY <2>1
<1> HIDE DEF u, a
<1>3. Within(u, low, high)
  BY <1>1 DEF Within
<1>4. ASSUME NEW i \in DOMAIN u, NEW j \in DOMAIN u, i < j, ~IsEnd(u[i]), ~IsEnd(u[j])
      PROVE  u[i].seq < u[j].seq
  <2>1. i \in Int /\ j \in Int
    BY <1>2
  <2>2. CASE i \in DOMAIN s /\ u[i] = s[i]
    <3>1. CASE j \in DOMAIN s /\ u[j] = s[j]
      BY <1>4, <2>2, <3>1 DEF Rising
    <3>2. CASE j - a \in DOMAIN t /\ u[j] = t[j - a]
      BY <1>4, <2>2, <3>2 DEF Below
    <3> QED BY <1>1, <3>1, <3>2
  <2>3. CASE i - a \in DOMAIN t /\ i > a /\ u[i] = t[i - a]
    <3>1. j > a /\ i - a < j - a
      BY <1>2, <1>4, <2>1, <2>3
    <3>2. j - a \in DOMAIN t /\ u[j] = t[j - a]
      BY <1>1, <1>2, <2>1, <3>1
    <3> QED BY <1>4, <2>3, <3>1, <3>2 DEF Rising
  <2> QED BY <1>1, <2>2, <2>3
<1> QED BY <1>3, <1>4 DEF Rising, u

\* Two queues without a gap, the second going on where the first ends.
LEMMA ConcatConsecutive ==
    ASSUME NEW s \in Seq(Event), NEW t \in Seq(Event), NEW n \in Nat,
           Consecutive(s, n), Consecutive(t, n + Len(s))
    PROVE  Consecutive(s \o t, n)
<1> DEFINE u == s \o t
           a == Len(s)
<1>1. \A i \in DOMAIN u :
          \/ i \in DOMAIN s /\ i <= a /\ u[i] = s[i]
          \/ i - a \in DOMAIN t /\ i > a /\ u[i] = t[i - a]
  BY ConcatAt
<1>2. a \in Nat /\ DOMAIN u \subseteq Int
  <2>1. u \in Seq(Event)
    BY ConcatAt
  <2> HIDE DEF u
  <2> QED BY <2>1
<1>3. Consecutive(t, n + a)
  OBVIOUS
<1> HIDE DEF u, a
<1>4. ASSUME NEW i \in DOMAIN u, ~IsEnd(u[i])
      PROVE  u[i].seq = n + i
  <2>1. i \in Int
    BY <1>2
  <2>2. CASE i \in DOMAIN s /\ u[i] = s[i]
    BY <1>4, <2>2 DEF Consecutive
  <2>3. CASE i - a \in DOMAIN t /\ u[i] = t[i - a]
    <3>1. u[i].seq = (n + a) + (i - a)
      BY <1>3, <1>4, <2>3 DEF Consecutive
    <3> QED BY <1>2, <2>1, <3>1
  <2> QED BY <1>1, <2>2, <2>3
<1> QED BY <1>4 DEF Consecutive, u

\* An event of two queues is one of the first or of the second; the last one is
\* the last of the second, unless that is empty.
LEMMA ConcatKinds ==
    ASSUME NEW s \in Seq(Event), NEW t \in Seq(Event)
    PROVE  /\ \A i \in DOMAIN (s \o t) : (s \o t)[i].kind \in Kinds(s) \cup Kinds(t)
           /\ s \o t # <<>> =>
                 \/ Len(s \o t) = Len(s) /\ (s \o t)[Len(s \o t)].kind \in Kinds(s)
                 \/ (s \o t)[Len(s \o t)].kind \in Kinds(t)
<1> DEFINE u == s \o t
           a == Len(s)
           b == Len(t)
<1>1. \A i \in DOMAIN u :
          \/ i \in DOMAIN s /\ i <= a /\ u[i] = s[i]
          \/ i - a \in DOMAIN t /\ i > a /\ u[i] = t[i - a]
  BY ConcatAt
<1>2. u \in Seq(Event) /\ Len(u) = a + b /\ a \in Nat /\ b \in Nat
  BY ConcatAt
<1>3. u # <<>> => Len(u) \in DOMAIN u
  <2> HIDE DEF u
  <2> QED BY <1>2
<1> HIDE DEF u, a, b
<1>4. \A i \in DOMAIN u : u[i].kind \in Kinds(s) \cup Kinds(t)
  BY <1>1 DEF Kinds
<1>5. ASSUME u # <<>>
      PROVE  \/ Len(u) = a /\ u[Len(u)].kind \in Kinds(s)
             \/ u[Len(u)].kind \in Kinds(t)
  <2>1. CASE Len(u) \in DOMAIN s /\ Len(u) <= a /\ u[Len(u)] = s[Len(u)]
    <3>1. Len(u) = a
      BY <1>2, <2>1
    <3> QED BY <2>1, <3>1 DEF Kinds
  <2>2. CASE Len(u) - a \in DOMAIN t /\ u[Len(u)] = t[Len(u) - a]
    BY <2>2 DEF Kinds
  <2> QED BY <1>1, <1>3, <1>5, <2>1, <2>2
<1> QED BY <1>4, <1>5 DEF u, a

\* One request: its unread events, and how it ends.
LEMMA UnreadRow ==
    ASSUME NEW q \in Request, NEW g \in Reading, NEW n \in Nat, NEW em,
           Row(q, g, n, em), NEW u, u = q.events \o q.pending
    PROVE  /\ Within(u, g.seq, n) /\ Rising(u)
           /\ ~q.interrupted =>
                 /\ Consecutive(u, g.seq)
                 /\ u # <<>> /\ u[Len(u)].kind = "completed" => g.seq + Len(u) - 1 = n
                 /\ g.end = "completed" => g.seq = n
<1> DEFINE s == q.events
           t == q.pending
<1>1. s \in Seq(Event) /\ t \in Seq(Event) /\ g.seq \in Nat
  BY DEF Request, Reading
<1>2. /\ Within(s, g.seq, n) /\ Within(t, g.seq, n)
      /\ Rising(s) /\ Rising(t) /\ Below(s, t)
  BY DEF Row, InOrder
<1>3. Within(u, g.seq, n) /\ Rising(u)
  <2> HIDE DEF s, t
  <2>1. Within(s \o t, g.seq, n) /\ Rising(s \o t)
    BY <1>1, <1>2, ConcatRising
  <2> QED BY <2>1 DEF s, t
<1>4. ASSUME ~q.interrupted
      PROVE  /\ Consecutive(u, g.seq)
             /\ u # <<>> /\ u[Len(u)].kind = "completed" => g.seq + Len(u) - 1 = n
             /\ g.end = "completed" => g.seq = n
  <2>1. /\ Consecutive(s, g.seq) /\ Consecutive(t, g.seq + Len(s))
        /\ "completed" \in Kinds(t) => n = g.seq + Len(s) + Len(t) - 1
        /\ "completed" \in Kinds(s) => n = g.seq + Len(s) - 1
        /\ g.end = "completed" => n = g.seq
    BY <1>4 DEF Row, Gapless
  <2>2. u = s \o t
    OBVIOUS
  <2> HIDE DEF s, t
  <2>3. Consecutive(u, g.seq)
    BY <1>1, <2>1, <2>2, ConcatConsecutive
  <2>4. /\ Len(u) = Len(s) + Len(t) /\ Len(s) \in Nat /\ Len(t) \in Nat
    BY <1>1, <2>2, ConcatAt
  <2>5. u # <<>> => \/ Len(u) = Len(s) /\ u[Len(u)].kind \in Kinds(s)
                    \/ u[Len(u)].kind \in Kinds(t)
    BY <1>1, <2>2, ConcatKinds
  <2>6. ASSUME u # <<>>, u[Len(u)].kind = "completed"
        PROVE  g.seq + Len(u) - 1 = n
    <3>1. \/ Len(u) = Len(s) /\ n = g.seq + Len(s) - 1
          \/ n = g.seq + Len(s) + Len(t) - 1
      BY <2>1, <2>5, <2>6
    <3> QED BY <1>1, <2>4, <3>1
  <2> QED BY <2>1, <2>3, <2>6
<1> QED BY <1>3, <1>4

\* NothingLost follows.
LEMMA DeliveredInOrder ==
    ASSUME IInv, DeliveryInv
    PROVE  NothingLost
<1> SUFFICES ASSUME NEW r \in Streams
             PROVE  LET u == Unread(r)
                        values == { i \in DOMAIN u : ~IsEnd(u[i]) } IN
        /\ \A i \in values : /\ u[i].seq > got[r].seq
                              /\ \A j \in values : j < i => u[j].seq < u[i].seq
        /\ ~req[r].interrupted =>
              /\ \A i \in values : u[i].seq = got[r].seq + i
              /\ (u # <<>> /\ u[Len(u)].kind = "completed")
                    => got[r].seq + Len(u) - 1 = produced[r]
              /\ got[r].end = "completed" => got[r].seq = produced[r]
  BY DEF NothingLost
<1> DEFINE u == Unread(r)
           q == req[r]
           g == got[r]
           n == produced[r]
           em == emitted[r]
<1>1. q \in Request /\ g \in Reading /\ n \in Nat
  BY RowContext
<1>2. Row(q, g, n, em)
  BY DeliveryParts
<1>3. u = q.events \o q.pending
  BY DEF Unread
<1>4. u \in Seq(Event)
  BY <1>1, ConcatAt DEF Unread, Request
<1> HIDE DEF u, q, g, n, em
<1>5. /\ Within(u, g.seq, n) /\ Rising(u)
      /\ ~q.interrupted =>
            /\ Consecutive(u, g.seq)
            /\ u # <<>> /\ u[Len(u)].kind = "completed" => g.seq + Len(u) - 1 = n
            /\ g.end = "completed" => g.seq = n
  BY <1>1, <1>2, <1>3, UnreadRow
<1>6. ASSUME NEW i \in DOMAIN u, ~IsEnd(u[i])
      PROVE  u[i].seq > g.seq
  <2>1. g.seq < u[i].seq
    BY <1>5, <1>6 DEF Within
  <2>2. u[i].seq \in Nat /\ g.seq \in Nat
    BY <1>1, <1>4, EventParts DEF Reading
  <2> QED BY <2>1, <2>2
<1>7. ASSUME NEW i \in DOMAIN u, NEW j \in DOMAIN u, ~IsEnd(u[i]), ~IsEnd(u[j]), j < i
      PROVE  u[j].seq < u[i].seq
  BY <1>5, <1>7 DEF Rising
<1>8. ~q.interrupted => \A i \in DOMAIN u : ~IsEnd(u[i]) => u[i].seq = g.seq + i
  BY <1>5 DEF Consecutive
<1> QED BY <1>5, <1>6, <1>7, <1>8 DEF u, q, g, n

\* Back-pressure reorders nothing and loses nothing: a consumer reads 1, 2, 3...
\* and a request that completes has handed over all its values, unless cancel()
\* was called on it.
THEOREM NothingIsLost == NoOrphans /\ Spec => []NothingLost
<1> SUFFICES ASSUME NoOrphans PROVE Spec => []NothingLost
  OBVIOUS
<1>1. IInv /\ DeliveryInv => NothingLost
  BY DeliveredInOrder
<1> QED BY <1>1, Delivery, PTL

\* The kinds of the unread events and of the one that was read last.
LEMMA UnreadKinds ==
    ASSUME IInv, DeliveryInv, NEW r \in Streams
    PROVE  /\ \A i \in DOMAIN Unread(r) :
                 Unread(r)[i].kind \in Kinds(req[r].events) \cup Kinds(req[r].pending)
           /\ EndInv(req[r], got[r], emitted[r])
<1>1. req[r].events \in Seq(Event) /\ req[r].pending \in Seq(Event)
  BY RowContext DEF Request
<1> QED BY <1>1, ConcatKinds DEF Unread, DeliveryInv

\* A request that cancel() took hold of never reports success, although the
\* engine runs it on and may be about to complete it.
THEOREM CancelAlwaysSticks == NoOrphans /\ Spec => []CancelSticks
<1> SUFFICES ASSUME NoOrphans PROVE Spec => []CancelSticks
  OBVIOUS
<1>1. ASSUME IInv, DeliveryInv
      PROVE  CancelSticks
  <2> SUFFICES ASSUME NEW r \in Streams, req[r].cancelling
               PROVE  /\ got[r].end # "completed"
                      /\ \A i \in DOMAIN Unread(r) : Unread(r)[i].kind # "completed"
    BY DEF CancelSticks
  <2> QED BY <1>1, UnreadKinds DEF EndInv
<1>2. IInv /\ DeliveryInv => CancelSticks
  BY <1>1
<1> QED BY <1>2, Delivery, PTL

(***************************************************************************)
(* What is never taken back: a request stays cancelled, finished and       *)
(* admitted, and whoever cancelled it first owns its terminal event.       *)
(***************************************************************************)
OwnedByCancel(q) == q.cancelling /\ q.failure # "deadline_exceeded"

Onward(q, p) ==
    /\ OwnedByCancel(q) => OwnedByCancel(p)
    /\ q.cancelling => p.cancelling
    /\ q.finished => p.finished
    /\ p.admitted <=> q.admitted

\* A change of the queues alone.
LEMMA OnwardFields ==
    \A q, p : /\ p.cancelling <=> q.cancelling
              /\ p.failure = q.failure
              /\ p.admitted <=> q.admitted
              /\ q.finished => p.finished
              => Onward(q, p)
BY DEF Onward, OwnedByCancel

\* cancel()
LEMMA CancelOnward ==
    ASSUME NEW r \in Streams, NEW q \in Request, OutboxInv(q, r)
    PROVE  Onward(q, Cancel(q, r))
<1> DEFINE p == Cancel(q, r)
<1>1. p.failure = q.failure /\ (p.cancelling <=> q.cancelling \/ ~q.finished)
  BY CancelShape
<1>2. p.admitted = q.admitted /\ (q.finished => p.finished)
  BY CancelKeeps
<1> HIDE DEF p
<1>3. Onward(q, p)
  BY <1>1, <1>2 DEF Onward, OwnedByCancel
<1> QED BY <1>3 DEF p

\* The failure that comes with a cancel() of an unfinished request.
LEMMA FailureOnward ==
    ASSUME NEW r \in Streams, NEW q \in Request, OutboxInv(q, r),
           NEW k \in Failures, ~q.cancelling \/ k # "deadline_exceeded"
    PROVE  Onward(q, Cancel([q EXCEPT !.failure = k], r))
<1> DEFINE f == [q EXCEPT !.failure = k]
           p == Cancel(f, r)
<1>1. /\ f \in Request /\ f.events = q.events /\ f.bytes = q.bytes
      /\ f.pending = q.pending /\ f.failure = k
      /\ f.terminal = q.terminal /\ f.finished = q.finished
      /\ f.cancelling = q.cancelling /\ f.admitted = q.admitted
  BY DEF Request
<1> HIDE DEF f
<1>2. OutboxInv(f, r)
  BY <1>1 DEF OutboxInv
<1>3. Onward(f, p)
  BY <1>1, <1>2, CancelOnward
<1>4. p.failure = k
  BY <1>1, <1>2, CancelShape
<1> HIDE DEF p
<1>5. Onward(q, p)
  BY <1>1, <1>3, <1>4 DEF Onward, OwnedByCancel
<1> QED BY <1>5 DEF f, p

\* expire()
LEMMA ExpireOnward ==
    ASSUME NEW r \in Streams, NEW q \in Request, OutboxInv(q, r)
    PROVE  Onward(q, Expire(q, r))
<1>1. "deadline_exceeded" \in Failures
  BY DEF Failures
<1>2. Onward(q, q)
  BY DEF Onward
<1>3. CASE ~q.cancelling /\ ~q.finished
  <2>1. Onward(q, Cancel([q EXCEPT !.failure = "deadline_exceeded"], r))
    BY <1>1, <1>3, FailureOnward
  <2> QED BY <1>3, <2>1 DEF Expire
<1> QED BY <1>2, <1>3 DEF Expire

\* publish() of a terminal event
LEMMA EndOnward ==
    ASSUME NEW q \in Request, NEW e \in Event, IsEnd(e)
    PROVE  Onward(q, PublishEnd(q, e))
<1> DEFINE p == PublishEnd(q, e)
<1>1. CASE q.terminal
  BY <1>1 DEF PublishEnd, Onward
<1>2. CASE ~q.terminal
  <2>1. /\ p.finished /\ p.failure = q.failure
        /\ p.admitted <=> q.admitted
        /\ p.cancelling <=> q.cancelling
    BY <1>2, PublishEndShape
  <2> HIDE DEF p
  <2>2. Onward(q, p)
    BY <2>1, OnwardFields
  <2> QED BY <2>2 DEF p
<1> QED BY <1>1, <1>2

\* publish()
LEMMA PublishOnward ==
    ASSUME NEW r \in Streams, NEW q \in Request, OutboxInv(q, r), NEW e \in Event
    PROVE  Onward(q, Publish(q, e, r))
<1>1. CASE IsEnd(e)
  BY <1>1, EndOnward DEF Publish
<1>2. CASE ~IsEnd(e)
  <2>1. "output_limit" \in Failures
    BY DEF Failures
  <2>2. Onward(q, Cancel([q EXCEPT !.failure = "output_limit"], r))
    BY <2>1, FailureOnward
  <2>3. Onward(q, q)
    BY DEF Onward
  <2>4. Onward(q, Deliver(q, e))
    <3> DEFINE p == Deliver(q, e)
    <3>1. /\ p.cancelling = q.cancelling /\ p.failure = q.failure
          /\ p.admitted = q.admitted /\ p.finished = q.finished
      BY DEF Deliver, Request
    <3> HIDE DEF p
    <3>2. Onward(q, p)
      BY <3>1, OnwardFields
    <3> QED BY <3>2 DEF p
  <2>5. Onward(q, Withhold(q, e))
    <3> DEFINE p == Withhold(q, e)
    <3>1. /\ p.cancelling = q.cancelling /\ p.failure = q.failure
          /\ p.admitted = q.admitted /\ p.finished = q.finished
      BY DEF Withhold, Request
    <3> HIDE DEF p
    <3>2. Onward(q, p)
      BY <3>1, OnwardFields
    <3> QED BY <3>2 DEF p
  <2> QED BY <1>2, <2>2, <2>3, <2>4, <2>5 DEF Publish, PublishValue
<1> QED BY <1>1, <1>2

\* No step takes any of it back; only admit() admits.
LEMMA OnwardStep ==
    ASSUME IInv, [Next]_vars, NEW r \in Streams, ~AdmitAccepted(r)
    PROVE  Onward(req[r], req'[r])
<1> DEFINE q == req[r]
<1>0. q \in Request /\ OutboxInv(q, r)
  BY RowContext
<1>1. Onward(q, q)
  BY DEF Onward
<1>2. Onward(q, Cancel(q, r)) /\ Onward(q, Expire(q, r))
  BY <1>0, CancelOnward, ExpireOnward
<1>3. Onward(q, PublishEnd(q, End(r, "failed")))
  <2>1. End(r, "failed") \in Event /\ IsEnd(End(r, "failed"))
    BY EventFacts DEF EndKinds, End
  <2> QED BY <1>0, <2>1, EndOnward
<1>4. ASSUME NEW s \in Streams, Wait(s)
      PROVE  Onward(q, req'[r])
  <2>1. CASE s = r
    <3> DEFINE p == [q EXCEPT !.events = <<>>, !.bytes = 0]
    <3>1. req'[r] = p
      BY <1>4, <2>1 DEF Wait, IInv, TypeOK
    <3>2. /\ p.cancelling = q.cancelling /\ p.failure = q.failure
          /\ p.admitted = q.admitted /\ p.finished = q.finished
      BY <1>0 DEF Request
    <3> HIDE DEF p, q
    <3> QED BY <3>1, <3>2, OnwardFields
  <2>2. CASE s # r
    <3>1. req'[r] = q
      BY <1>4, <2>2 DEF Wait, IInv, TypeOK
    <3> QED BY <1>1, <3>1
  <2> QED BY <2>1, <2>2
<1>5. ASSUME NEW S, CancelAll(S)
      PROVE  Onward(q, req'[r])
  <2>1. req'[r] = q \/ req'[r] = Cancel(q, r)
    BY <1>5 DEF CancelAll
  <2> QED BY <1>1, <1>2, <2>1
<1>6. ASSUME NEW s \in Streams, Flush(s)
      PROVE  Onward(q, req'[r])
  <2> DEFINE p == Deliver([q EXCEPT !.pending = Tail(@)], q.pending[1])
  <2>1. req'[r] = q \/ (req'[r] = p /\ q.pending # <<>>)
    BY <1>6 DEF Flush, IInv, TypeOK
  <2>2. /\ p.cancelling = q.cancelling /\ p.failure = q.failure
        /\ p.admitted = q.admitted /\ p.finished = q.finished
    BY <1>0 DEF Deliver, Request
  <2> HIDE DEF p, q
  <2> QED BY <1>1, <2>1, <2>2, OnwardFields
<1>7. ASSUME NEW s \in Streams, ExamineEnding(s) \/ AdmitRejected(s)
      PROVE  Onward(q, req'[r])
  <2>1. \/ req'[r] = q
        \/ req'[r] = Cancel(q, r) \/ req'[r] = Expire(q, r)
        \/ req'[r] = PublishEnd(q, End(r, "failed"))
    BY <1>7 DEF ExamineEnding, Swept, AdmitRejected, IInv, TypeOK
  <2> QED BY <1>1, <1>2, <1>3, <2>1
<1>8. ASSUME NEW s \in Streams, AdmitAccepted(s)
      PROVE  Onward(q, req'[r])
  <2>1. s # r
    BY <1>8
  <2>2. req'[r] = q
    BY <1>8, <2>1 DEF AdmitAccepted, IInv, TypeOK
  <2> QED BY <1>1, <2>2
<1>9. ASSUME NEW s \in Streams, ExamineOngoing(s) \/ AdmitDeferred(s) \/ AdmitThrows(s)
      PROVE  Onward(q, req'[r])
  BY <1>1, <1>9 DEF ExamineOngoing, AdmitDeferred, AdmitThrows
<1>10. ASSUME NEW s \in Streams, PublishNext(s)
       PROVE  Onward(q, req'[r])
  <2> DEFINE e == emitted[s][1]
  <2>1. req'[r] = q \/ req'[r] = Publish(q, e, r)
    BY <1>10 DEF PublishNext
  <2>2. e \in Event
    <3>1. emitted[s] \in Seq(Event) /\ emitted[s] # <<>>
      BY <1>10, RowContext DEF PublishNext
    <3> QED BY <3>1
  <2> HIDE DEF e, q
  <2>3. Onward(q, Publish(q, e, r))
    BY <1>0, <2>2, PublishOnward
  <2> QED BY <1>1, <2>1, <2>3
<1>11. ASSUME Recover \/ RecoverUnknown
       PROVE  Onward(q, req'[r])
  <2>1. req'[r] = q \/ req'[r] = PublishEnd(q, End(r, "failed"))
    BY <1>11 DEF Recover, RecoverUnknown, FailUnfinished
  <2> QED BY <1>1, <1>3, <2>1
<1>12. ASSUME CancelCommand \/ ReloadCommand
       PROVE  Onward(q, req'[r])
  <2>1. (\E S : CancelAll(S)) \/ UNCHANGED req
    BY <1>12 DEF CancelCommand, ReloadCommand
  <2> QED BY <1>1, <1>5, <2>1
<1>13. ASSUME \/ Swap \/ Submit \/ Control \/ Session \/ Status \/ BeginScan \/ EndScan
              \/ EngineStep \/ EndPublish \/ Erase \/ Exit
       PROVE  Onward(q, req'[r])
  BY <1>1, <1>13 DEF Swap, Submit, Control, Session, Status, BeginScan, EndScan, EngineStep,
                     EndPublish, Erase, Exit
<1>14. ASSUME \/ \E c \in Calls : Enqueue(c)
              \/ \E s \in Streams : Elapse(s)
              \/ Shutdown \/ Stopped \/ UNCHANGED vars
       PROVE  Onward(q, req'[r])
  BY <1>1, <1>14 DEF Enqueue, Elapse, Shutdown, Stopped, vars
<1> HIDE DEF q
<1>15. Onward(q, req'[r])
  BY <1>4, <1>6, <1>7, <1>8, <1>9, <1>10, <1>11, <1>12, <1>13, <1>14 DEF Next, Loop, Scan
<1> QED BY <1>15 DEF q

\* admit() changes nothing but what it is for.
LEMMA AdmitOnward ==
    ASSUME IInv, NEW r \in Streams, AdmitAccepted(r)
    PROVE  /\ req'[r].cancelling <=> req[r].cancelling
           /\ req'[r].failure = req[r].failure
           /\ req'[r].finished <=> req[r].finished
           /\ req'[r].admitted
<1> DEFINE q == req[r]
           p == [q EXCEPT !.admitted = TRUE]
<1>1. q \in Request /\ req'[r] = p
  BY DEF AdmitAccepted, IInv, TypeOK
<1>2. /\ p.cancelling = q.cancelling /\ p.failure = q.failure
      /\ p.finished = q.finished /\ p.admitted
  BY <1>1 DEF Request
<1> HIDE DEF p
<1> QED BY <1>1, <1>2

\* A cancel() that took hold of a request before its deadline keeps its own
\* terminal event: the consumer is never told of a timeout, however long the
\* engine takes and whatever deadline passes meanwhile.
THEOREM CancelOwnsTheEnd == NoOrphans /\ Spec => CancelOwnsEnd
<1> SUFFICES ASSUME NoOrphans PROVE Spec => CancelOwnsEnd
  OBVIOUS
<1> SUFFICES ASSUME NEW r \in Streams
             PROVE  Spec => [](req[r].cancelling /\ req[r].failure # "deadline_exceeded"
                               => []~ReportsDeadline(r))
  BY DEF CancelOwnsEnd
<1> DEFINE P == req[r].cancelling /\ req[r].failure # "deadline_exceeded"
<1>1. ASSUME IInv, [Next]_vars, P
      PROVE  P'
  <2>1. CASE AdmitAccepted(r)
    BY <1>1, <2>1, AdmitOnward
  <2>2. CASE ~AdmitAccepted(r)
    <3>1. Onward(req[r], req'[r])
      BY <1>1, <2>2, OnwardStep
    <3> QED BY <1>1, <3>1 DEF Onward, OwnedByCancel
  <2> QED BY <2>1, <2>2
<1>2. ASSUME IInv, DeliveryInv, P
      PROVE  ~ReportsDeadline(r)
  <2>1. /\ "deadline_exceeded" \notin Kinds(req[r].events) \cup Kinds(req[r].pending)
        /\ got[r].end # "deadline_exceeded"
    BY <1>2, UnreadKinds DEF EndInv
  <2>2. \A i \in DOMAIN Unread(r) :
           Unread(r)[i].kind \in Kinds(req[r].events) \cup Kinds(req[r].pending)
    BY <1>2, UnreadKinds
  <2> QED BY <2>1, <2>2 DEF ReportsDeadline
<1>3. IInv /\ P /\ [Next]_vars => P'
  BY <1>1
<1>4. IInv /\ DeliveryInv /\ P => ~ReportsDeadline(r)
  BY <1>2
<1> HIDE DEF P
<1>5. Spec => [](P => []~ReportsDeadline(r))
  BY <1>3, <1>4, Delivery, PTL DEF Spec
<1> QED BY <1>5 DEF P

(***************************************************************************)
(* Admission follows the priorities.                                       *)
(***************************************************************************)

\* What waits after a step has waited before it.
LEMMA WaitingBefore ==
    ASSUME IInv, [Next]_vars, NEW t \in Streams, t \in live, Waiting(t)'
    PROVE  Waiting(t)
<1>1. ~req'[t].admitted /\ ~req'[t].cancelling /\ ~req'[t].finished
  BY DEF Waiting
<1>2. ~AdmitAccepted(t)
  BY <1>1, AdmitOnward
<1>3. Onward(req[t], req'[t])
  BY <1>2, OnwardStep
<1> QED BY <1>1, <1>3 DEF Onward, Waiting

\* A step of the scan that leaves what decides about admission alone, and passes
\* over at most a request that does not wait.
LEMMA ScanFrame ==
    ASSUME IInv, ScanInv, [Next]_vars, pc \in {"flush", "examine"},
           UNCHANGED << live, reload, blocked, running, engine >>,
           NEW r, todo \subseteq todo' \cup {r}, ~Waiting(r)'
    PROVE  ScanInv'
<1>1. Available' = Available
  BY DEF Available
<1> SUFFICES ASSUME NEW t \in live \ todo', Waiting(t)'
             PROVE  blocked \/ reload # {} \/ ~(Available > 0)
  BY <1>1 DEF ScanInv
<1>2. t \in live \ todo /\ t \in Streams
  BY DEF IInv, TypeOK
<1>3. Waiting(t)
  BY <1>2, WaitingBefore
<1> QED BY <1>2, <1>3 DEF ScanInv

\* The scan
LEMMA ScanKeepsOrder ==
    ASSUME IInv, ScanInv, [Next]_vars, NEW r \in Streams, Scan(r)
    PROVE  ScanInv'
<1>0. pc \in {"flush", "examine"} /\ r \in todo /\ r \in live
  BY DEF Scan, Flush, Locked, IsCurrent, ExamineEnding, ExamineOngoing, AdmitAccepted,
         AdmitDeferred, AdmitRejected, AdmitThrows, Examining, IInv, TypeOK
<1>1. CASE Flush(r)
  <2>1. UNCHANGED << live, reload, blocked, running, engine, todo >>
    BY <1>1 DEF Flush, executorVars
  <2>2. Available' = Available
    BY <2>1 DEF Available
  <2> SUFFICES ASSUME NEW t \in live \ todo, Waiting(t)'
               PROVE  blocked \/ reload # {} \/ ~(Available > 0)
    BY <2>1, <2>2 DEF ScanInv
  <2>3. t \in Streams
    BY DEF IInv, TypeOK
  <2> QED BY <1>0, <2>3, WaitingBefore DEF ScanInv
<1>2. CASE ExamineEnding(r)
  <2>1. UNCHANGED << live, reload, blocked, running, engine >> /\ todo' = todo \ {r}
    BY <1>2 DEF ExamineEnding, Scanned
  <2>2. req'[r] = Swept(r) /\ (Swept(r).finished \/ Swept(r).cancelling)
    BY <1>2 DEF ExamineEnding, Ending, IInv, TypeOK
  <2>3. ~Waiting(r)'
    BY <2>2 DEF Waiting
  <2> QED BY <1>0, <2>1, <2>3, ScanFrame
<1>3. CASE ExamineOngoing(r)
  <2>1. /\ UNCHANGED << live, reload, blocked, running, engine, req >> /\ todo' = todo \ {r}
        /\ req[r].admitted \/ reload # {} \/ blocked \/ ~(Available > 0)
    BY <1>3 DEF ExamineOngoing, AttemptsAdmission, Scanned, executorVars
  <2>2. CASE req[r].admitted
    <3>1. ~Waiting(r)'
      BY <2>1, <2>2 DEF Waiting
    <3> QED BY <1>0, <2>1, <3>1, ScanFrame
  <2>3. CASE reload # {} \/ blocked \/ ~(Available > 0)
    <3>1. Available' = Available
      BY <2>1 DEF Available
    <3> QED BY <2>1, <2>3, <3>1 DEF ScanInv
  <2> QED BY <2>1, <2>2, <2>3
<1>4. CASE AdmitAccepted(r)
  <2>1. /\ UNCHANGED live /\ todo' = todo \ {r}
        /\ ~blocked /\ reload = {} /\ Available > 0
    BY <1>4 DEF AdmitAccepted, AttemptsAdmission, Scanned
  <2>2. ~Waiting(r)'
    BY <1>4, AdmitOnward DEF Waiting
  <2>3. ASSUME NEW t \in live \ todo', Waiting(t)'
        PROVE  FALSE
    <3>1. t \in live \ todo /\ t \in Streams
      BY <2>1, <2>2, <2>3 DEF IInv, TypeOK
    <3>2. Waiting(t)
      BY <2>3, <3>1, WaitingBefore
    <3> QED BY <1>0, <2>1, <3>1, <3>2 DEF ScanInv
  <2> QED BY <2>1, <2>3 DEF ScanInv
<1>5. CASE AdmitDeferred(r)
  BY <1>5 DEF AdmitDeferred, ScanInv
<1>6. CASE AdmitRejected(r)
  <2>1. UNCHANGED << live, reload, blocked, running, engine >> /\ todo' = todo \ {r}
    BY <1>6 DEF AdmitRejected, Scanned, executorVars
  <2>2. req'[r] = PublishEnd(req[r], End(r, "failed"))
    BY <1>6 DEF AdmitRejected, IInv, TypeOK
  <2>3. PublishEnd(req[r], End(r, "failed")).finished
    <3>1. End(r, "failed") \in Event /\ IsEnd(End(r, "failed"))
      BY EventFacts DEF EndKinds, End
    <3>2. req[r] \in Request /\ OutboxInv(req[r], r)
      BY RowContext
    <3>3. CASE req[r].terminal
      BY <3>2, <3>3 DEF PublishEnd, OutboxInv
    <3>4. CASE ~req[r].terminal
      BY <3>1, <3>2, <3>4, PublishEndShape
    <3> QED BY <3>3, <3>4
  <2>4. ~Waiting(r)'
    BY <2>2, <2>3 DEF Waiting
  <2> QED BY <1>0, <2>1, <2>4, ScanFrame
<1>7. CASE AdmitThrows(r)
  BY <1>7 DEF AdmitThrows, ScanInv
<1> QED BY <1>1, <1>2, <1>3, <1>4, <1>5, <1>6, <1>7 DEF Scan

\* Every step
LEMMA ScanNext ==
    ASSUME IInv, ScanInv, [Next]_vars
    PROVE  ScanInv'
<1>1. CASE pc' \notin {"flush", "examine"}
  BY <1>1 DEF ScanInv
<1>2. CASE BeginScan
  BY <1>2 DEF BeginScan, ScanInv
<1>3. CASE \E r \in Streams : Scan(r)
  BY <1>3, ScanKeepsOrder
<1>4. CASE UNCHANGED << pc, todo, live, reload, blocked, running, engine >>
  <2>1. Available' = Available
    BY <1>4 DEF Available
  <2> SUFFICES ASSUME pc \in {"flush", "examine"}, NEW t \in live \ todo, Waiting(t)'
               PROVE  blocked \/ reload # {} \/ ~(Available > 0)
    BY <1>4, <2>1 DEF ScanInv
  <2>2. t \in Streams
    BY DEF IInv, TypeOK
  <2> QED BY <2>2, WaitingBefore DEF ScanInv
<1>5. ASSUME \/ \E c \in Calls : Enqueue(c)
             \/ \E s \in Streams : Elapse(s) \/ Wait(s)
             \/ Shutdown \/ Stopped \/ UNCHANGED vars
      PROVE  UNCHANGED << pc, todo, live, reload, blocked, running, engine >>
  BY <1>5 DEF Enqueue, Elapse, Wait, Shutdown, Stopped, vars, clientVars, loopVars, executorVars
<1>6. ASSUME \/ Submit \/ CancelCommand \/ Control \/ Session \/ Status \/ ReloadCommand
      PROVE  pc' \notin {"flush", "examine"}
  BY <1>6 DEF Submit, CancelCommand, Control, Session, Status, ReloadCommand, Take
<1>7. ASSUME Swap \/ EndScan \/ EngineStep \/ EndPublish \/ Recover \/ RecoverUnknown \/ Erase \/ Exit
      PROVE  pc' \notin {"flush", "examine"}
  BY <1>7 DEF Swap, EndScan, EngineStep, EndPublish, Recover, RecoverUnknown, Erase, Exit
<1>8. ASSUME NEW s \in Streams, PublishNext(s)
      PROVE  pc' \notin {"flush", "examine"}
  BY <1>8 DEF PublishNext, loopVars
<1> QED BY <1>1, <1>2, <1>3, <1>4, <1>5, <1>6, <1>7, <1>8 DEF Next, Loop

\* The request that is admitted comes first among the ones that wait.
LEMMA AdmitsFirst ==
    ASSUME IInv, ScanInv, [Next]_vars, NEW r \in Streams, ~req[r].admitted, req'[r].admitted,
           NEW t \in Streams, Waiting(t)
    PROVE  Priority[t] <= Priority[r]
<1>1. AdmitAccepted(r)
  BY OnwardStep DEF Onward
<1>2. /\ pc = "examine" /\ IsCurrent(r)
      /\ ~blocked /\ reload = {} /\ Available > 0
  BY <1>1 DEF AdmitAccepted, Examining, AttemptsAdmission
<1>3. t \in live
  BY DEF Waiting
<1>4. t \in todo
  BY <1>2, <1>3 DEF ScanInv
<1>5. Priority[t] \in Int /\ Priority[r] \in Int
  BY SchedulerAssumption
<1>6. t = r \/ Priority[r] > Priority[t] \/ Priority[r] = Priority[t]
  BY <1>2, <1>4 DEF IsCurrent, Precedes
<1> QED BY <1>5, <1>6

\* No request is admitted over a waiting one of higher priority, in whatever order
\* they were submitted and rotated and whatever ends or is rejected meanwhile.
THEOREM PriorityIsRespected == NoOrphans /\ Spec => PriorityRespected
<1> SUFFICES ASSUME NoOrphans PROVE Spec => PriorityRespected
  OBVIOUS
<1> DEFINE A == \A r \in Streams : ~req[r].admitted /\ req'[r].admitted =>
                    \A t \in Streams : Waiting(t) => Priority[t] <= Priority[r]
<1>1. Init => ScanInv
  BY DEF Init, ScanInv
<1>2. IInv /\ ScanInv /\ [Next]_vars => ScanInv'
  BY ScanNext
<1>3. IInv /\ ScanInv /\ [Next]_vars => [A]_vars
  BY AdmitsFirst
<1> HIDE DEF A
<1>4. Spec => [][A]_vars
  BY <1>1, <1>2, <1>3, Safety, PTL DEF Spec
<1> QED BY <1>4 DEF A, PriorityRespected
==============================================================================
