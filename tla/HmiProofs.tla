----------------------------- MODULE HmiProofs -----------------------------
(***************************************************************************)
(* Theorems about an HMI's commands, for every set of values, every length *)
(* of the command file and any number of starts of the client.             *)
(***************************************************************************)
EXTENDS Hmi, TLAPS

\* Why the order holds: whatever was sent was read, in this run or before; what
\* is read and waits comes after it, in the order of the file, except that the
\* first of it is what the last tries sent; and nothing waits when the client
\* reads again.
Statuses == [last : Nat, events : Seq(Nat)]
QueueOK ==
    /\ queue \in Seq(Commands)
    /\ opened \in Nat /\ offset \in Nat
    /\ opened <= offset /\ offset <= Len(queue)
BatchOK ==
    /\ batch \in Seq(Nat)
    /\ \A i \in DOMAIN batch : opened < batch[i] /\ batch[i] <= offset
    /\ \A i, j \in DOMAIN batch : i < j => batch[i] < batch[j]
    /\ phase # "execute" => batch = <<>>
SentOK ==
    /\ sent \in Seq(Nat)
    /\ tries \in 0 .. Resends + 1 /\ tries <= Len(sent)
    /\ batch = <<>> => tries = 0
    /\ \A i \in DOMAIN sent : sent[i] <= offset
    /\ \A i \in DOMAIN sent, j \in DOMAIN batch :
          /\ sent[i] <= batch[j]
          /\ i <= Len(sent) - tries => sent[i] < batch[j]
    /\ CommandsAreSentInOrder
ViewOK ==
    /\ view \in Statuses
    /\ Len(view.events) <= MaxEvents
    /\ \A n \in DOMAIN view.events :
          view.events[n] = 0 \/ (opened < view.events[n] /\ view.events[n] <= offset)
    /\ view.last = 0 \/ (opened < view.last /\ view.last <= offset)
RestOK ==
    /\ process \in {"down", "booting", "up"}
    /\ device \in Values
    /\ phase \in {"read", "execute", "write"}
    /\ boots \in 0 .. MaxBoots
    /\ process = "down" => boots < MaxBoots

HmiInv == QueueOK /\ BatchOK /\ SentOK /\ ViewOK /\ RestOK

-----------------------------------------------------------------------------
LEMMA InitHmiInv == HmiInit => HmiInv
BY HmiAssumption
   DEF HmiInit, HmiInv, QueueOK, BatchOK, SentOK, ViewOK, RestOK, FirstView, NoCommand, Statuses,
       CommandsAreSentInOrder

\* What changes the file or the process only.
LEMMA SendCommandKeepsHmiInv ==
    ASSUME HmiInv, SendCommand
    PROVE  HmiInv'
<1>1. PICK v \in Commands : queue' = Append(queue, v)
  BY DEF SendCommand
<1>2. QueueOK'
  BY <1>1 DEF SendCommand, clientVars, HmiInv, QueueOK
<1> QED
  BY <1>2 DEF SendCommand, clientVars, HmiInv, BatchOK, SentOK, ViewOK, RestOK,
              CommandsAreSentInOrder

\* A new run starts at the end of the file, beyond all that was sent before.
LEMMA BootKeepsHmiInv ==
    ASSUME HmiInv, Boot
    PROVE  HmiInv'
<1>1. /\ offset' = Len(queue) /\ opened' = Len(queue) /\ offset <= Len(queue)
      /\ Len(queue) \in Nat /\ offset \in Nat
      /\ batch' = <<>> /\ phase' = "read" /\ tries' = 0 /\ view' = FirstView
      /\ UNCHANGED <<device, queue, sent, boots>> /\ process' = "up"
  BY DEF Boot, OpenedAt, HmiInv, QueueOK
<1>2. QueueOK' /\ BatchOK'
  BY <1>1 DEF HmiInv, QueueOK, BatchOK
<1>3. SentOK'
  <2>1. /\ sent \in Seq(Nat) /\ Len(sent) \in Nat
        /\ \A i \in DOMAIN sent : sent[i] \in Nat /\ sent[i] <= offset
    BY DEF HmiInv, SentOK
  <2> QED
    BY <1>1, <2>1, HmiAssumption DEF HmiInv, SentOK, CommandsAreSentInOrder
<1>4. ViewOK' /\ RestOK'
  BY <1>1, HmiAssumption DEF HmiInv, ViewOK, RestOK, FirstView, NoCommand, Statuses
<1> QED
  BY <1>2, <1>3, <1>4 DEF HmiInv

\* What is told stays within what was read, and the deque within its bound.
LEMMA TellKeepsView ==
    ASSUME HmiInv, UNCHANGED <<opened, offset>>,
           NEW last \in Nat, last = 0 \/ (opened < last /\ last <= offset),
           NEW event \in Nat, event = 0 \/ (opened < event /\ event <= offset),
           Tell(last, event)
    PROVE  ViewOK'
<1> DEFINE all == Append(view.events, event)
<1>1. /\ view.events \in Seq(Nat) /\ Len(view.events) \in Nat
      /\ Len(view.events) <= MaxEvents
      /\ \A n \in DOMAIN view.events :
            view.events[n] = 0 \/ (opened < view.events[n] /\ view.events[n] <= offset)
  BY DEF HmiInv, ViewOK, Statuses
<1>2. /\ all \in Seq(Nat) /\ Len(all) = Len(view.events) + 1
      /\ \A n \in 1 .. Len(view.events) : all[n] = view.events[n]
      /\ all[Len(view.events) + 1] = event
  BY <1>1
<1>3. \A n \in 1 .. Len(all) : all[n] = 0 \/ (opened < all[n] /\ all[n] <= offset)
  BY <1>1, <1>2
<1> HIDE DEF all
<1>4. /\ Tail(all) \in Seq(Nat) /\ Len(Tail(all)) = Len(all) - 1
      /\ \A n \in 1 .. Len(all) - 1 : Tail(all)[n] = all[n + 1]
  BY <1>1, <1>2
<1>5. CASE Len(all) > MaxEvents
  <2>1. view' = [last |-> last, events |-> Tail(all)]
    BY <1>5 DEF Tell, Logged, all
  <2>2. \A n \in 1 .. Len(Tail(all)) :
           Tail(all)[n] = 0 \/ (opened < Tail(all)[n] /\ Tail(all)[n] <= offset)
    <3> SUFFICES ASSUME NEW n \in 1 .. Len(Tail(all))
                 PROVE  Tail(all)[n] = 0 \/ (opened < Tail(all)[n] /\ Tail(all)[n] <= offset)
      OBVIOUS
    <3>1. n + 1 \in 1 .. Len(all) /\ Tail(all)[n] = all[n + 1]
      BY <1>1, <1>2, <1>4
    <3> QED
      BY <1>3, <3>1
  <2>3. Len(Tail(all)) <= MaxEvents
    BY <1>1, <1>2, <1>4, HmiAssumption
  <2>4. view' \in Statuses /\ view'.events = Tail(all) /\ view'.last = last
    BY <1>4, <2>1 DEF Statuses
  <2> QED
    BY <1>4, <2>2, <2>3, <2>4 DEF ViewOK
<1>6. CASE ~ (Len(all) > MaxEvents)
  <2>1. view' = [last |-> last, events |-> all]
    BY <1>6 DEF Tell, Logged, all
  <2>2. Len(all) <= MaxEvents
    BY <1>1, <1>2, <1>6, HmiAssumption
  <2>3. view' \in Statuses /\ view'.events = all /\ view'.last = last
    BY <1>2, <2>1 DEF Statuses
  <2> QED
    BY <1>2, <1>3, <2>2, <2>3 DEF ViewOK
<1> QED
  BY <1>5, <1>6

LEMMA ProcessKeepsHmiInv ==
    ASSUME HmiInv, StartClient \/ Exit \/ OtherClient
    PROVE  HmiInv'
<1>1. RestOK'
  <2>1. CASE StartClient
    BY <2>1, HmiAssumption DEF StartClient, clientVars, HmiInv, RestOK
  <2>2. CASE Exit
    BY <2>2, HmiAssumption DEF Exit, clientVars, HmiInv, RestOK
  <2>3. CASE OtherClient
    BY <2>3 DEF OtherClient, clientVars, webVars, HmiInv, RestOK
  <2> QED
    BY <2>1, <2>2, <2>3
<1>2. UNCHANGED <<queue, opened, offset, batch, phase, tries, view, sent>>
  BY DEF StartClient, Exit, OtherClient, webVars, clientVars
<1> QED
  BY <1>1, <1>2 DEF HmiInv, QueueOK, BatchOK, SentOK, ViewOK, CommandsAreSentInOrder

LEMMA ReadPendingKeepsHmiInv ==
    ASSUME HmiInv, ReadPending, UNCHANGED webVars
    PROVE  HmiInv'
<1>1. /\ batch' = [i \in 1 .. Len(queue) - offset |-> offset + i]
      /\ offset' = Len(queue) /\ phase' = "execute" /\ phase = "read"
      /\ UNCHANGED <<device, tries, view, sent, process, queue, opened, boots>>
  BY DEF ReadPending, Pending, webVars
<1>2. /\ Len(queue) \in Nat /\ offset \in Nat /\ opened \in Nat
      /\ opened <= offset /\ offset <= Len(queue)
  BY DEF HmiInv, QueueOK
<1>3. /\ batch' \in Seq(Nat) /\ DOMAIN batch' = 1 .. Len(queue) - offset
      /\ \A i \in DOMAIN batch' : batch'[i] = offset + i
  BY <1>1, <1>2
<1>4. QueueOK'
  BY <1>1, <1>2 DEF HmiInv, QueueOK
<1>5. BatchOK'
  BY <1>1, <1>2, <1>3 DEF BatchOK
<1>6. SentOK'
  <2>1. /\ sent \in Seq(Nat) /\ tries = 0 /\ Len(sent) \in Nat
        /\ \A i \in DOMAIN sent : sent[i] \in Nat /\ sent[i] <= offset
    BY <1>1 DEF HmiInv, SentOK, BatchOK
  <2>2. \A i \in DOMAIN sent, j \in DOMAIN batch' : sent[i] < batch'[j]
    BY <1>2, <1>3, <2>1
  <2>3. CommandsAreSentInOrder'
    BY <1>1 DEF HmiInv, SentOK, CommandsAreSentInOrder
  <2>4. \A i \in DOMAIN sent : sent[i] <= Len(queue)
    BY <1>2, <2>1
  <2>5. \A i \in DOMAIN sent, j \in DOMAIN batch' : sent[i] <= batch'[j]
    BY <1>2, <1>3, <2>1
  <2> QED
    BY <1>1, <2>1, <2>2, <2>3, <2>4, <2>5, HmiAssumption DEF SentOK
<1>7. ViewOK' /\ RestOK'
  <2>1. view.last \in Nat /\ \A n \in DOMAIN view.events : view.events[n] \in Nat
    BY DEF HmiInv, ViewOK, Statuses
  <2> QED
    BY <1>1, <1>2, <2>1 DEF HmiInv, ViewOK, RestOK
<1> QED
  BY <1>4, <1>5, <1>6, <1>7 DEF HmiInv

\* The head of the batch is the next position.
LEMMA CurrentFacts ==
    ASSUME HmiInv, Executing
    PROVE  /\ Current = batch[1] /\ 1 \in DOMAIN batch /\ Len(batch) \in Nat
           /\ Current \in Nat /\ opened < Current /\ Current <= offset
           /\ Current \in DOMAIN queue
<1>1. /\ batch \in Seq(Nat) /\ Len(batch) \in Nat /\ Len(batch) > 0
      /\ Head(batch) = batch[1] /\ 1 \in DOMAIN batch
  BY DEF Executing, HmiInv, BatchOK
<1>2. batch[1] \in Nat /\ opened < batch[1] /\ batch[1] <= offset
  BY <1>1 DEF HmiInv, BatchOK
<1>3. batch[1] \in 1 .. Len(queue)
  BY <1>2 DEF HmiInv, QueueOK
<1> QED
  BY <1>1, <1>2, <1>3 DEF Current, HmiInv, QueueOK

\* It comes after all that was sent, but for its own tries; these are few.
LEMMA SendFacts ==
    ASSUME HmiInv, Send
    PROVE  /\ sent' \in Seq(Nat) /\ Len(sent') = Len(sent) + 1 /\ Len(sent) \in Nat
           /\ \A i \in DOMAIN sent : sent'[i] = sent[i]
           /\ sent'[Len(sent) + 1] = batch[1]
           /\ CommandsAreSentInOrder'
<1>1. /\ Current = batch[1] /\ 1 \in DOMAIN batch /\ batch[1] \in Nat
      /\ sent' = Append(sent, batch[1]) /\ tries <= Resends
  BY CurrentFacts DEF Send
<1>2. /\ sent \in Seq(Nat) /\ Len(sent) \in Nat /\ tries \in Nat /\ Resends \in Nat
      /\ \A i \in DOMAIN sent : /\ sent[i] \in Nat /\ sent[i] <= batch[1]
                                /\ i <= Len(sent) - tries => sent[i] < batch[1]
  BY <1>1, HmiAssumption DEF HmiInv, SentOK
<1>3. /\ sent' \in Seq(Nat) /\ Len(sent') = Len(sent) + 1
      /\ DOMAIN sent' = 1 .. Len(sent) + 1 /\ DOMAIN sent = 1 .. Len(sent)
      /\ \A i \in DOMAIN sent : sent'[i] = sent[i]
      /\ sent'[Len(sent) + 1] = batch[1]
  BY <1>1, <1>2
<1>4. ASSUME NEW i \in DOMAIN sent', NEW j \in DOMAIN sent'
      PROVE  /\ i < j => sent'[i] <= sent'[j]
             /\ i + Resends < j => sent'[i] < sent'[j]
  <2>1. CASE i \in DOMAIN sent /\ j \in DOMAIN sent
    BY <1>3, <2>1 DEF HmiInv, SentOK, CommandsAreSentInOrder
  <2>2. CASE i \in DOMAIN sent /\ j = Len(sent) + 1
    <3>1. i + Resends < j => i <= Len(sent) - tries
      BY <1>1, <1>2, <2>2
    <3> QED
      BY <1>2, <1>3, <2>2, <3>1
  <2>3. CASE i = Len(sent) + 1
    BY <1>2, <1>3, <2>3
  <2> QED
    BY <1>3, <2>1, <2>2, <2>3
<1> QED
  BY <1>2, <1>3, <1>4 DEF CommandsAreSentInOrder

LEMMA SendInVainKeepsHmiInv ==
    ASSUME HmiInv, SendInVain, UNCHANGED webVars
    PROVE  HmiInv'
<1>1. /\ Executing /\ Send /\ tries <= Resends /\ tries' = tries + 1
      /\ queue[Current] # Bad /\ device' \in {device, queue[Current]}
      /\ UNCHANGED <<offset, batch, phase, view, process, queue, opened, boots>>
  BY DEF SendInVain, Send, webVars
<1>2. /\ 1 \in DOMAIN batch /\ batch[1] <= offset /\ Current \in DOMAIN queue
      /\ batch[1] \in Nat /\ batch \in Seq(Nat)
  BY <1>1, CurrentFacts DEF HmiInv, BatchOK
<1>3. /\ sent' \in Seq(Nat) /\ Len(sent') = Len(sent) + 1 /\ Len(sent) \in Nat
      /\ \A i \in DOMAIN sent : sent'[i] = sent[i]
      /\ sent'[Len(sent) + 1] = batch[1]
      /\ CommandsAreSentInOrder'
  BY <1>1, SendFacts
<1>4. SentOK'
  <2>1. DOMAIN sent' = DOMAIN sent \cup {Len(sent) + 1} /\ DOMAIN sent = 1 .. Len(sent)
    BY <1>3 DEF HmiInv, SentOK
  <2>2. \A j \in DOMAIN batch : batch[j] \in Nat /\ batch[1] <= batch[j]
    <3>1. \A j \in DOMAIN batch : j \in Nat /\ (j = 1 \/ 1 < j)
      BY <1>2
    <3> QED
      BY <1>2, <3>1 DEF HmiInv, BatchOK
  <2>3. tries \in Nat /\ Resends \in Nat /\ tries <= Len(sent)
    BY HmiAssumption DEF HmiInv, SentOK
  <2>4. ASSUME NEW i \in DOMAIN sent'
        PROVE  /\ sent'[i] <= offset
               /\ \A j \in DOMAIN batch :
                     /\ sent'[i] <= batch[j]
                     /\ i <= Len(sent') - tries' => sent'[i] < batch[j]
    <3>1. CASE i \in DOMAIN sent
      <4>1. i <= Len(sent') - tries' => i <= Len(sent) - tries
        BY <1>1, <1>3, <2>1, <2>3
      <4> QED
        BY <1>3, <3>1, <4>1 DEF HmiInv, SentOK
    <3>2. CASE i = Len(sent) + 1
      <4>1. ~ (i <= Len(sent') - tries')
        BY <1>1, <1>3, <2>3, <3>2
      <4> QED
        BY <1>2, <1>3, <2>2, <3>2, <4>1
    <3> QED
      BY <2>1, <3>1, <3>2
  <2>5. batch # <<>>
    BY <1>1 DEF Executing
  <2> QED
    BY <1>1, <1>3, <2>3, <2>4, <2>5 DEF SentOK
<1>5. device' \in Values
  <2>1. queue[Current] \in Commands
    BY <1>2 DEF HmiInv, QueueOK
  <2> QED
    BY <1>1, <2>1, HmiAssumption DEF HmiInv, RestOK
<1>6. RestOK'
  BY <1>1, <1>5 DEF HmiInv, RestOK
<1> QED
  BY <1>1, <1>4, <1>6 DEF HmiInv, QueueOK, BatchOK, ViewOK

\* Whatever the history of the sent ones has become, what waits after the head of
\* the batch comes after all of them.
LEMMA EndCommandFacts ==
    ASSUME HmiInv, EndCommand, UNCHANGED webVars,
           \/ UNCHANGED sent
           \/ Send
    PROVE  QueueOK' /\ BatchOK' /\ SentOK'
<1>1. /\ batch # <<>> /\ phase = "execute" /\ Executing
      /\ batch' = Tail(batch) /\ tries' = 0
      /\ UNCHANGED <<offset, phase, queue, opened>>
  BY DEF EndCommand, Executing, webVars
<1>2. /\ batch \in Seq(Nat) /\ Len(batch) \in Nat /\ 1 \in DOMAIN batch
      /\ batch[1] \in Nat /\ batch[1] <= offset
  BY <1>1, CurrentFacts DEF HmiInv, BatchOK
<1>3. /\ Tail(batch) \in Seq(Nat) /\ DOMAIN Tail(batch) = 1 .. Len(batch) - 1
      /\ \A i \in DOMAIN Tail(batch) : i + 1 \in DOMAIN batch /\ Tail(batch)[i] = batch[i + 1]
  BY <1>1, <1>2
<1>4. /\ DOMAIN batch = 1 .. Len(batch)
      /\ \A i \in DOMAIN batch : opened < batch[i] /\ batch[i] <= offset
      /\ \A i, j \in DOMAIN batch : i < j => batch[i] < batch[j]
  BY <1>2 DEF HmiInv, BatchOK
<1>5. \A i \in DOMAIN Tail(batch) : Tail(batch)[i] \in Nat /\ batch[1] < Tail(batch)[i]
  BY <1>2, <1>3, <1>4
<1>6. QueueOK'
  BY <1>1 DEF HmiInv, QueueOK
<1>7. BatchOK'
  <2>1. \A i \in DOMAIN Tail(batch) : opened < Tail(batch)[i] /\ Tail(batch)[i] <= offset
    BY <1>3, <1>4
  <2>2. \A i, j \in DOMAIN Tail(batch) : i < j => Tail(batch)[i] < Tail(batch)[j]
    BY <1>2, <1>3, <1>4
  <2> QED
    BY <1>1, <1>3, <2>1, <2>2 DEF BatchOK
<1>8. /\ sent' \in Seq(Nat) /\ CommandsAreSentInOrder'
      /\ \A i \in DOMAIN sent' : sent'[i] \in Nat /\ sent'[i] <= batch[1]
  <2>1. \A i \in DOMAIN sent : sent[i] \in Nat /\ sent[i] <= batch[1]
    BY <1>2 DEF HmiInv, SentOK
  <2>2. CASE UNCHANGED sent
    BY <2>1, <2>2 DEF HmiInv, SentOK, CommandsAreSentInOrder
  <2>3. CASE Send
    <3>1. /\ sent' \in Seq(Nat) /\ Len(sent') = Len(sent) + 1 /\ Len(sent) \in Nat
          /\ \A i \in DOMAIN sent : sent'[i] = sent[i]
          /\ sent'[Len(sent) + 1] = batch[1]
          /\ CommandsAreSentInOrder'
      BY <2>3, SendFacts
    <3>2. DOMAIN sent' = DOMAIN sent \cup {Len(sent) + 1}
      BY <3>1 DEF HmiInv, SentOK
    <3> QED
      BY <1>2, <2>1, <3>1, <3>2
  <2> QED
    BY <2>2, <2>3
<1>9. SentOK'
  <2>1. \A i \in DOMAIN sent' : sent'[i] <= offset
    BY <1>2, <1>8 DEF HmiInv, QueueOK
  <2>2. \A i \in DOMAIN sent', j \in DOMAIN Tail(batch) :
           sent'[i] <= Tail(batch)[j] /\ sent'[i] < Tail(batch)[j]
    BY <1>2, <1>5, <1>8
  <2>3. Len(sent') \in Nat
    BY <1>8
  <2> QED
    BY <1>1, <1>8, <2>1, <2>2, <2>3, HmiAssumption DEF SentOK
<1> QED
  BY <1>6, <1>7, <1>9

LEMMA ExecuteKeepsHmiInv ==
    ASSUME HmiInv, Execute \/ ExecuteFails, UNCHANGED webVars
    PROVE  HmiInv'
<1>1. /\ EndCommand /\ (UNCHANGED sent \/ Send) /\ Executing
      /\ UNCHANGED <<offset, phase, process, opened, boots>>
  BY DEF Execute, ExecuteFails, EndCommand, webVars
<1>2. QueueOK' /\ BatchOK' /\ SentOK'
  BY <1>1, EndCommandFacts
<1>3. /\ Current \in Nat /\ opened < Current /\ Current <= offset
      /\ Current \in DOMAIN queue
  BY <1>1, CurrentFacts
<1>4. ViewOK'
  <2>1. PICK l \in {Current, view.last} : Tell(l, Current)
    BY DEF Execute, ExecuteFails
  <2>2. l \in Nat /\ (l = 0 \/ (opened < l /\ l <= offset))
    BY <1>3 DEF HmiInv, ViewOK, Statuses
  <2> QED
    BY <1>1, <1>3, <2>1, <2>2, TellKeepsView
<1>5. device' \in Values
  <2>1. queue[Current] \in Values \cup {Bad}
    BY <1>3, HmiAssumption DEF HmiInv, QueueOK
  <2> QED
    BY <2>1 DEF Execute, Send, ExecuteFails, HmiInv, RestOK
<1>6. RestOK'
  BY <1>1, <1>5 DEF HmiInv, RestOK
<1> QED
  BY <1>2, <1>4, <1>6 DEF HmiInv

LEMMA PollKeepsHmiInv ==
    ASSUME HmiInv, Poll \/ PollNotDue \/ FinishTurn, UNCHANGED webVars
    PROVE  HmiInv'
<1>1. /\ UNCHANGED <<device, offset, batch, tries, sent, process, queue, opened, boots>>
      /\ phase' \in {"read", "write"} /\ batch = <<>>
  BY DEF Poll, PollNotDue, PollStep, FinishTurn, webVars, HmiInv, BatchOK
<1>2. ViewOK'
  <2>1. view' = view \/ Tell(view.last, NoCommand)
    BY DEF Poll, PollNotDue, FinishTurn, PollStep
  <2>2. CASE view' = view
    BY <1>1, <2>2 DEF HmiInv, ViewOK
  <2>3. CASE Tell(view.last, NoCommand)
    <3>1. view.last \in Nat /\ (view.last = 0 \/ (opened < view.last /\ view.last <= offset))
      BY DEF HmiInv, ViewOK, Statuses
    <3>2. /\ NoCommand \in Nat
          /\ NoCommand = 0 \/ (opened < NoCommand /\ NoCommand <= offset)
      BY DEF NoCommand
    <3> QED
      BY <1>1, <2>3, <3>1, <3>2, TellKeepsView
  <2> QED
    BY <2>1, <2>2, <2>3
<1>3. QueueOK' /\ BatchOK' /\ SentOK' /\ RestOK'
  BY <1>1 DEF HmiInv, QueueOK, BatchOK, SentOK, RestOK, CommandsAreSentInOrder
<1> QED
  BY <1>2, <1>3 DEF HmiInv

LEMMA NextKeepsHmiInv == HmiInv /\ [HmiNext]_hmiVars => HmiInv'
<1> SUFFICES ASSUME HmiInv, [HmiNext]_hmiVars PROVE HmiInv'
  OBVIOUS
<1>1. CASE LoopStep
  BY <1>1, ReadPendingKeepsHmiInv, SendInVainKeepsHmiInv, ExecuteKeepsHmiInv,
     PollKeepsHmiInv DEF LoopStep
<1>2. CASE UNCHANGED hmiVars
  BY <1>2 DEF hmiVars, clientVars, webVars, HmiInv, QueueOK, BatchOK, SentOK, ViewOK,
              RestOK, CommandsAreSentInOrder
<1> QED
  BY <1>1, <1>2, SendCommandKeepsHmiInv, BootKeepsHmiInv, ProcessKeepsHmiInv DEF HmiNext

\* The client only ever reads, executes and tells of the part of the file that
\* was written after it opened it (hmi_client.py, CommandQueue and main).
THEOREM HmiTypeCorrect == HmiSpec => []HmiTypeOK
<1>1. HmiInv => HmiTypeOK
  BY DEF HmiInv, QueueOK, SentOK, ViewOK, RestOK, Statuses, HmiTypeOK
<1> QED
  BY <1>1, InitHmiInv, NextKeepsHmiInv, PTL DEF HmiSpec

\* The commands of the file are sent in its order, each for one call of execute()
\* and so at most once and Resends times again, across any number of failures,
\* lost answers and restarts (hmi_client.py, main).
THEOREM CommandsKeepTheirOrder == HmiSpec => []CommandsAreSentInOrder
<1>1. HmiInv => CommandsAreSentInOrder
  BY DEF HmiInv, SentOK
<1> QED
  BY <1>1, InitHmiInv, NextKeepsHmiInv, PTL DEF HmiSpec
=============================================================================
