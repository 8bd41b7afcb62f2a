--------------------------- MODULE InternalProofs ---------------------------
(***************************************************************************)
(* What the packages under internal/ that plugins share promise: the mail  *)
(* queue (Mailer.tla), for any number of mails, any capacity of the        *)
(* channel and any number of retries; the event bus (EventBus.tla), for    *)
(* any handlers and publications; the bootstrap (Bootstrap.tla), for any   *)
(* plugins, registered in any order and any number of times.               *)
(*                                                                         *)
(* SendsBounded is not inductive: Counted says how the sends of a mail     *)
(* follow from its retries and its place.  With it, every step of the      *)
(* queue is a step of MailService, or none.                                *)
(*                                                                         *)
(* The three components share neither variables nor steps: each has its    *)
(* specification, its invariant and its theorems to itself.                *)
(***************************************************************************)
EXTENDS Mailer, EventBus, Bootstrap, FiniteSetTheorems, TLAPS

USE MailerAssumption DEF Underway, Ended

\* The places of a mail whose last send has been counted.
Counted ==
    \A m \in Mail :
        /\ sends[m] = retries[m] + (IF place[m] \in {"accepted", "unnoticed", "failed", "givenUp"}
                                    THEN 1 ELSE 0)
        /\ place[m] \in {"new", "direct", "failed"} => retries[m] = 0
        /\ place[m] = "givenUp" => retries[m] = MaxRetries

IInv == TypeOK /\ OnePlace /\ Counted

-----------------------------------------------------------------------------
(* The channel as a sequence without repetition.                           *)

LEMMA AppendOne ==
    ASSUME NEW S, NEW s \in Seq(S), NEW m \in S, m \notin ToSet(s), IsInjective(s)
    PROVE  /\ Append(s, m) \in Seq(S)
           /\ Len(Append(s, m)) = Len(s) + 1
           /\ ToSet(Append(s, m)) = ToSet(s) \cup {m}
           /\ IsInjective(Append(s, m))
<1>1. /\ Append(s, m) \in Seq(S)
      /\ Len(Append(s, m)) = Len(s) + 1
      /\ \A i \in 1 .. Len(s) : Append(s, m)[i] = s[i]
      /\ Append(s, m)[Len(s) + 1] = m
  OBVIOUS
<1>2. DOMAIN s = 1 .. Len(s) /\ DOMAIN Append(s, m) = 1 .. (Len(s) + 1)
  BY <1>1
<1>3. ToSet(Append(s, m)) = ToSet(s) \cup {m}
  BY <1>1, <1>2 DEF ToSet
<1>4. IsInjective(Append(s, m))
  BY <1>1, <1>2 DEF ToSet, IsInjective
<1> QED BY <1>1, <1>3, <1>4

LEMMA TailOne ==
    ASSUME NEW S, NEW s \in Seq(S), s # <<>>, IsInjective(s)
    PROVE  /\ Tail(s) \in Seq(S)
           /\ Len(Tail(s)) = Len(s) - 1
           /\ Head(s) \in S
           /\ Head(s) \in ToSet(s)
           /\ ToSet(Tail(s)) = ToSet(s) \ {Head(s)}
           /\ IsInjective(Tail(s))
<1>1. /\ Tail(s) \in Seq(S)
      /\ Len(s) >= 1
      /\ Len(Tail(s)) = Len(s) - 1
      /\ \A i \in 1 .. Len(s) - 1 : Tail(s)[i] = s[i + 1]
      /\ Head(s) = s[1]
  OBVIOUS
<1>2. DOMAIN s = 1 .. Len(s) /\ DOMAIN Tail(s) = 1 .. (Len(s) - 1)
  BY <1>1
<1>3. ToSet(Tail(s)) = ToSet(s) \ {Head(s)}
  <2>1. ASSUME NEW x \in ToSet(Tail(s)) PROVE x \in ToSet(s) \ {Head(s)}
    <3>1. PICK i \in 1 .. Len(s) - 1 : x = s[i + 1]
      BY <1>1, <1>2 DEF ToSet
    <3> QED BY <1>1, <1>2, <3>1 DEF ToSet, IsInjective
  <2>2. ASSUME NEW x \in ToSet(s) \ {Head(s)} PROVE x \in ToSet(Tail(s))
    <3>1. PICK i \in 1 .. Len(s) : x = s[i] /\ i # 1
      BY <1>1, <1>2 DEF ToSet
    <3>2. i - 1 \in 1 .. Len(s) - 1 /\ Tail(s)[i - 1] = x
      BY <1>1, <3>1
    <3> QED BY <1>2, <3>2 DEF ToSet
  <2> QED BY <2>1, <2>2
<1>4. IsInjective(Tail(s))
  BY <1>1, <1>2 DEF IsInjective
<1>5. Head(s) \in S /\ Head(s) \in ToSet(s)
  BY <1>1, <1>2 DEF ToSet
<1> QED BY <1>1, <1>3, <1>4, <1>5

-----------------------------------------------------------------------------
(* The invariant holds initially and is kept by every action.              *)

LEMMA InitIInv == Init => IInv
<1> SUFFICES ASSUME Init PROVE IInv
  OBVIOUS
<1>1. TypeOK
  BY DEF Init, TypeOK
<1>2. OnePlace
  BY DEF Init, OnePlace, ToSet, IsInjective
<1>3. Counted
  BY DEF Init, Counted
<1> QED BY <1>1, <1>2, <1>3 DEF IInv

\* A mail moves, and the channel stays as it is.
LEMMA MoveKeepsOnePlace ==
    ASSUME IInv, NEW m \in Mail, NEW to, Moves(m, to), UNCHANGED jobQueue,
           place[m] # "queued", to \notin {"queued", "sending"}
    PROVE  OnePlace'
<1>1. place'[m] = to /\ \A n \in Mail \ {m} : place'[n] = place[n]
  BY DEF Moves, IInv, TypeOK
<1>2. {n \in Mail : place'[n] = "queued"} = {n \in Mail : place[n] = "queued"}
  BY <1>1
<1> QED BY <1>1, <1>2 DEF IInv, OnePlace

\* A mail is put into the channel.
LEMMA AppendKeepsOnePlace ==
    ASSUME IInv, NEW m \in Mail, Moves(m, "queued"), jobQueue' = Append(jobQueue, m),
           place[m] # "queued", HasRoom
    PROVE  /\ OnePlace'
           /\ jobQueue' \in Seq(Mail) /\ Len(jobQueue') <= Capacity
<1>1. place'[m] = "queued" /\ \A n \in Mail \ {m} : place'[n] = place[n]
  BY DEF Moves, IInv, TypeOK
<1>2. jobQueue \in Seq(Mail) /\ m \notin ToSet(jobQueue) /\ IsInjective(jobQueue)
  BY DEF IInv, TypeOK, OnePlace
<1>3. /\ jobQueue' \in Seq(Mail) /\ Len(jobQueue') = Len(jobQueue) + 1
      /\ ToSet(jobQueue') = ToSet(jobQueue) \cup {m}
      /\ IsInjective(jobQueue')
  BY <1>2, AppendOne
<1>4. Len(jobQueue') <= Capacity
  BY <1>2, <1>3 DEF HasRoom
<1>5. OnePlace'
  BY <1>1, <1>3 DEF IInv, OnePlace
<1> QED BY <1>3, <1>4, <1>5

LEMMA QueueKeeps ==
    ASSUME IInv, NEW m \in Mail, Queue(m)
    PROVE  IInv'
<1>1. place[m] = "new" /\ UNCHANGED <<retries, sends>>
  BY DEF Queue
<1>2. CASE HasRoom /\ jobQueue' = Append(jobQueue, m) /\ Moves(m, "queued")
  <2>1. OnePlace' /\ jobQueue' \in Seq(Mail) /\ Len(jobQueue') <= Capacity
    BY <1>1, <1>2, AppendKeepsOnePlace
  <2> QED BY <1>1, <1>2, <2>1 DEF IInv, TypeOK, Counted, Moves
<1>3. CASE ~HasRoom /\ Moves(m, "direct") /\ UNCHANGED jobQueue
  <2>1. OnePlace'
    BY <1>1, <1>3, MoveKeepsOnePlace
  <2> QED BY <1>1, <1>3, <2>1 DEF IInv, TypeOK, Counted, Moves
<1> QED BY <1>2, <1>3 DEF Queue

LEMMA ReceiveKeeps ==
    ASSUME IInv, Receive
    PROVE  IInv'
<1> DEFINE m == Head(jobQueue)
<1>1. /\ jobQueue # <<>> /\ jobQueue' = Tail(jobQueue)
      /\ \A n \in Mail : place[n] # "sending"
      /\ place' = [place EXCEPT ![m] = "sending"]
      /\ UNCHANGED <<retries, sends>>
  BY DEF Receive, Moves
<1>2. /\ jobQueue' \in Seq(Mail) /\ Len(jobQueue') = Len(jobQueue) - 1
      /\ m \in Mail /\ m \in ToSet(jobQueue)
      /\ ToSet(jobQueue') = ToSet(jobQueue) \ {m}
      /\ IsInjective(jobQueue')
  BY <1>1, TailOne DEF IInv, TypeOK, OnePlace
<1>3. place[m] = "queued"
  BY <1>2 DEF IInv, OnePlace
<1> HIDE DEF m
<1>4. place'[m] = "sending" /\ \A n \in Mail \ {m} : place'[n] = place[n]
  BY <1>1, <1>2 DEF IInv, TypeOK
<1>5. TypeOK'
  BY <1>1, <1>2 DEF IInv, TypeOK
<1>6. OnePlace'
  BY <1>1, <1>2, <1>4 DEF IInv, OnePlace
<1>7. Counted'
  BY <1>1, <1>2, <1>3, <1>4 DEF IInv, Counted
<1> QED BY <1>5, <1>6, <1>7 DEF IInv

LEMMA SendingKeeps ==
    ASSUME IInv, NEW m \in Mail, Sending(m)
    PROVE  IInv'
<1>1. CASE SendSucceeds(m)
  <2>1. PICK end \in {"accepted", "unnoticed"} : Moves(m, end)
    BY <1>1 DEF SendSucceeds
  <2>2. place[m] \in {"sending", "direct"} /\ UNCHANGED <<jobQueue, retries>>
        /\ sends' = [sends EXCEPT ![m] = @ + 1]
    BY <1>1 DEF SendSucceeds
  <2>3. OnePlace'
    BY <2>1, <2>2, MoveKeepsOnePlace
  <2> QED BY <2>1, <2>2, <2>3 DEF IInv, TypeOK, Counted, Moves
<1>2. CASE SendFails(m)
  <2>1. place[m] = "sending" /\ UNCHANGED jobQueue /\ sends' = [sends EXCEPT ![m] = @ + 1]
    BY <1>2 DEF SendFails
  <2>2. CASE /\ retries[m] < MaxRetries
             /\ retries' = [retries EXCEPT ![m] = @ + 1]
             /\ Moves(m, "pausing")
    <3>1. OnePlace'
      BY <2>1, <2>2, MoveKeepsOnePlace
    <3> QED BY <2>1, <2>2, <3>1 DEF IInv, TypeOK, Counted, Moves
  <2>3. CASE retries[m] >= MaxRetries /\ Moves(m, "givenUp") /\ UNCHANGED retries
    <3>1. OnePlace'
      BY <2>1, <2>3, MoveKeepsOnePlace
    <3> QED BY <2>1, <2>3, <3>1 DEF IInv, TypeOK, Counted, Moves
  <2> QED BY <1>2, <2>2, <2>3 DEF SendFails
<1>3. CASE DirectSendFails(m)
  <2>1. OnePlace'
    BY <1>3, MoveKeepsOnePlace DEF DirectSendFails
  <2> QED BY <1>3, <2>1 DEF DirectSendFails, IInv, TypeOK, Counted, Moves
<1> QED BY <1>1, <1>2, <1>3 DEF Sending

LEMMA RequeueKeeps ==
    ASSUME IInv, NEW m \in Mail, Requeue(m)
    PROVE  IInv'
<1>1. place[m] = "pausing" /\ UNCHANGED <<retries, sends>>
  BY DEF Requeue
<1>2. CASE HasRoom /\ jobQueue' = Append(jobQueue, m) /\ Moves(m, "queued")
  <2>1. OnePlace' /\ jobQueue' \in Seq(Mail) /\ Len(jobQueue') <= Capacity
    BY <1>1, <1>2, AppendKeepsOnePlace
  <2> QED BY <1>1, <1>2, <2>1 DEF IInv, TypeOK, Counted, Moves
<1>3. CASE ~HasRoom /\ Moves(m, "dropped") /\ UNCHANGED jobQueue
  <2>1. OnePlace'
    BY <1>1, <1>3, MoveKeepsOnePlace
  <2> QED BY <1>1, <1>3, <2>1 DEF IInv, TypeOK, Counted, Moves
<1> QED BY <1>2, <1>3 DEF Requeue

LEMMA RestartKeeps ==
    ASSUME IInv, Restart
    PROVE  IInv'
<1>1. PICK through \in SUBSET {m \in Mail : place[m] \in {"sending", "direct"}} :
          /\ place' = [m \in Mail |-> IF m \in through THEN "accepted"
                                      ELSE IF place[m] \in Underway THEN "lost"
                                      ELSE place[m]]
          /\ sends' = [m \in Mail |-> IF m \in through THEN sends[m] + 1 ELSE sends[m]]
  BY DEF Restart
<1>2. jobQueue' = <<>> /\ UNCHANGED retries
  BY DEF Restart
<1>3. TypeOK'
  BY <1>1, <1>2 DEF IInv, TypeOK
<1>4. OnePlace'
  <2>1. \A m \in Mail : place'[m] \notin {"queued", "sending"}
    BY <1>1 DEF IInv, TypeOK
  <2> QED BY <1>2, <2>1 DEF OnePlace, ToSet, IsInjective
<1>5. Counted'
  BY <1>1, <1>2 DEF IInv, TypeOK, Counted
<1> QED BY <1>3, <1>4, <1>5 DEF IInv

LEMMA NextKeeps == IInv /\ [Next]_vars => IInv'
<1> SUFFICES ASSUME IInv, [Next]_vars PROVE IInv'
  OBVIOUS
<1>1. CASE UNCHANGED vars
  BY <1>1 DEF vars, IInv, TypeOK, OnePlace, Counted
<1>2. CASE Next
  BY <1>2, QueueKeeps, ReceiveKeeps, SendingKeeps, RequeueKeeps, RestartKeeps DEF Next
<1> QED BY <1>1, <1>2

-----------------------------------------------------------------------------
(* The queue implements the service.                                       *)

\* What one mail's move is to its caller.
LEMMA MoveSeen ==
    ASSUME IInv, NEW m \in Mail, NEW to, Moves(m, to)
    PROVE  [n \in Mail |-> Outcome(place[n])]'
             = [[n \in Mail |-> Outcome(place[n])] EXCEPT ![m] = Outcome(to)]
BY DEF Moves, IInv, TypeOK

LEMMA OutcomeValues ==
    /\ Outcome("new") = "new"
    /\ \A p \in {"queued", "sending", "pausing", "direct"} : Outcome(p) = "accepted"
    /\ \A p \in {"accepted", "unnoticed"} : Outcome(p) = "sent"
    /\ \A p \in {"failed", "givenUp"} : Outcome(p) = "failed"
    /\ \A p \in {"dropped", "lost"} : Outcome(p) = "lost"
BY DEF Outcome

Seen == [m \in Mail |-> Outcome(place[m])]

\* What the channel does with a mail between two sends its caller cannot see.
LEMMA UnseenMove ==
    ASSUME IInv, NEW m \in Mail, NEW to \in Underway, Moves(m, to),
           place[m] \in Underway, UNCHANGED sends
    PROVE  UNCHANGED Service!vars
<1>1. Seen' = [Seen EXCEPT ![m] = Outcome(to)]
  BY MoveSeen DEF Seen
<1>2. Seen[m] = Outcome(to)
  BY OutcomeValues DEF Seen
<1>3. Seen' = Seen
  BY <1>1, <1>2 DEF Seen
<1> QED BY <1>3 DEF Service!vars, Seen

\* A mail on its way is one more try away from the bound.
LEMMA TriesLeft ==
    ASSUME IInv, NEW m \in Mail, place[m] \in {"sending", "direct"}
    PROVE  sends[m] < MaxRetries + 1
<1>1. place[m] \notin {"accepted", "unnoticed", "failed", "givenUp"}
  OBVIOUS
<1>2. retries[m] \in 0 .. MaxRetries
  BY DEF IInv, TypeOK
<1>3. sends[m] = retries[m] + 0
  BY <1>1 DEF IInv, Counted
<1> QED BY <1>2, <1>3

\* A send that ends a mail, and one that does not.
LEMMA EndIsSeen ==
    ASSUME IInv, NEW m \in Mail, place[m] \in {"sending", "direct"},
           NEW to, Moves(m, to), sends' = [sends EXCEPT ![m] = @ + 1]
    PROVE  /\ to \in {"accepted", "unnoticed"} => Service!Send(m)
           /\ to \in {"failed", "givenUp"} => Service!Fail(m)
           /\ to = "pausing" => Service!TryInVain(m)
<1>1. Seen[m] = "accepted"
  BY OutcomeValues DEF Seen
<1>2. Seen' = [Seen EXCEPT ![m] = Outcome(to)]
  BY MoveSeen DEF Seen
<1>3. Service!Tries(m)
  BY TriesLeft DEF Service!Tries
<1>4. ASSUME to \in {"accepted", "unnoticed"} PROVE Service!Send(m)
  <2>1. Outcome(to) = "sent"
    BY <1>4, OutcomeValues
  <2> QED BY <1>1, <1>2, <1>3, <2>1 DEF Service!Send, Service!Becomes, Seen
<1>5. ASSUME to \in {"failed", "givenUp"} PROVE Service!Fail(m)
  <2>1. Outcome(to) = "failed"
    BY <1>5, OutcomeValues
  <2> QED BY <1>1, <1>2, <1>3, <2>1 DEF Service!Fail, Service!Becomes, Seen
<1>6. ASSUME to = "pausing" PROVE Service!TryInVain(m)
  <2>1. Outcome(to) = "accepted"
    BY <1>6, OutcomeValues
  <2>2. Seen' = Seen
    BY <1>1, <1>2, <2>1 DEF Seen
  <2> QED BY <1>1, <1>3, <2>2 DEF Service!TryInVain, Seen
<1> QED BY <1>4, <1>5, <1>6

LEMMA QueueServes ==
    ASSUME IInv, NEW m \in Mail, Queue(m)
    PROVE  Service!Accept(m)
<1>1. PICK to \in {"queued", "direct"} : Moves(m, to)
  BY DEF Queue
<1>2. Seen' = [Seen EXCEPT ![m] = "accepted"]
  BY <1>1, MoveSeen, OutcomeValues DEF Seen
<1>3. Seen[m] = "new" /\ UNCHANGED sends
  BY OutcomeValues DEF Queue, Seen
<1> QED BY <1>2, <1>3 DEF Service!Accept, Service!Becomes, Seen

LEMMA ReceiveServes ==
    ASSUME IInv, Receive
    PROVE  UNCHANGED Service!vars
<1> DEFINE m == Head(jobQueue)
<1>1. jobQueue # <<>> /\ Moves(m, "sending") /\ UNCHANGED sends
  BY DEF Receive
<1>2. m \in Mail /\ m \in ToSet(jobQueue)
  BY <1>1, TailOne DEF IInv, TypeOK, OnePlace
<1>3. place[m] = "queued"
  BY <1>2 DEF IInv, OnePlace
<1> HIDE DEF m
<1> QED BY <1>1, <1>2, <1>3, UnseenMove

LEMMA SendingServes ==
    ASSUME IInv, NEW m \in Mail, Sending(m)
    PROVE  Service!TryInVain(m) \/ Service!End(m)
<1>1. /\ place[m] \in {"sending", "direct"}
      /\ sends' = [sends EXCEPT ![m] = @ + 1]
  BY DEF Sending, SendSucceeds, SendFails, DirectSendFails
<1>2. PICK to \in {"accepted", "unnoticed", "failed", "givenUp", "pausing"} : Moves(m, to)
  BY DEF Sending, SendSucceeds, SendFails, DirectSendFails
<1> QED BY <1>1, <1>2, EndIsSeen DEF Service!End

LEMMA RequeueServes ==
    ASSUME IInv, NEW m \in Mail, Requeue(m)
    PROVE  UNCHANGED Service!vars \/ Service!Drop(m)
<1>1. place[m] = "pausing" /\ UNCHANGED sends
  BY DEF Requeue
<1>2. CASE Moves(m, "queued")
  BY <1>1, <1>2, UnseenMove
<1>3. CASE Moves(m, "dropped")
  <2>1. Seen' = [Seen EXCEPT ![m] = "lost"]
    BY <1>3, MoveSeen, OutcomeValues DEF Seen
  <2>2. Seen[m] = "accepted"
    BY <1>1, OutcomeValues DEF Seen
  <2> QED BY <1>1, <2>1, <2>2 DEF Service!Drop, Service!Becomes, Seen
<1> QED BY <1>2, <1>3 DEF Requeue

LEMMA RestartServes ==
    ASSUME IInv, Restart
    PROVE  Service!Crash
<1>1. PICK through \in SUBSET {m \in Mail : place[m] \in {"sending", "direct"}} :
          /\ place' = [m \in Mail |-> IF m \in through THEN "accepted"
                                      ELSE IF place[m] \in Underway THEN "lost"
                                      ELSE place[m]]
          /\ sends' = [m \in Mail |-> IF m \in through THEN sends[m] + 1 ELSE sends[m]]
  BY DEF Restart
<1>2. \A m \in Mail : Seen[m] = "accepted" <=> place[m] \in Underway
  BY OutcomeValues DEF Seen, IInv, TypeOK
<1>3. through \in SUBSET {m \in Mail : Seen[m] = "accepted" /\ sends[m] < MaxRetries + 1}
  BY <1>1, <1>2, TriesLeft
<1>4. Seen' = [m \in Mail |-> IF m \in through THEN "sent"
                              ELSE IF Seen[m] = "accepted" THEN "lost"
                              ELSE Seen[m]]
  <2>1. ASSUME NEW m \in Mail
        PROVE  Outcome(place'[m]) = IF m \in through THEN "sent"
                                    ELSE IF Seen[m] = "accepted" THEN "lost"
                                    ELSE Seen[m]
    BY <1>1, <1>2, OutcomeValues DEF Seen
  <2> QED BY <2>1 DEF Seen
<1> QED BY <1>1, <1>3, <1>4 DEF Service!Crash, Seen

LEMMA StepServes == IInv /\ [Next]_vars => [Service!Next]_Service!vars
<1> SUFFICES ASSUME IInv, [Next]_vars PROVE [Service!Next]_Service!vars
  OBVIOUS
<1>1. CASE UNCHANGED vars
  BY <1>1 DEF vars, Service!vars
<1>2. CASE Receive
  BY <1>2, ReceiveServes
<1>3. CASE Restart
  BY <1>3, RestartServes DEF Service!Next
<1>4. ASSUME NEW m \in Mail, Queue(m) \/ Sending(m) \/ Requeue(m)
      PROVE  [Service!Next]_Service!vars
  BY <1>4, QueueServes, SendingServes, RequeueServes DEF Service!Next, Service!End
<1> QED BY <1>1, <1>2, <1>3, <1>4 DEF Next

LEMMA InitServes == Init => Service!Init
BY OutcomeValues DEF Init, Service!Init

-----------------------------------------------------------------------------
(* The event bus: what a Publish has left to start, has started and has    *)
(* called are apart, and together they are who was subscribed when it      *)
(* began.                                                                  *)

LeftOf(e) == IF publishing[e] = None THEN {} ELSE ToSet(publishing[e])
StartedOf(e) == {h \in Handler : <<e, h>> \in started}
CalledOf(e) == ToSet(called[e])

Apart(e) ==
    /\ publishing[e] = None => called[e] = <<>> /\ StartedOf(e) = {}
    /\ publishing[e] # None => IsInjective(publishing[e])
    /\ IsInjective(called[e])
    /\ LeftOf(e) \cap StartedOf(e) = {}
    /\ LeftOf(e) \cap CalledOf(e) = {}
    /\ StartedOf(e) \cap CalledOf(e) = {}
    /\ publishing[e] # None =>
          LeftOf(e) \cup StartedOf(e) \cup CalledOf(e) = subscribers[e]

\* As long as the calls nest, every handler is where its function captured it.
InPlace ==
    nested => /\ ToSet(handlers) = Subscribed \ dismissed
              /\ \A h \in Subscribed \ dismissed :
                    index[h] \in 1 .. Len(handlers) /\ handlers[index[h]] = h

BusIInv ==
    /\ BusTypeOK
    /\ IsInjective(handlers) /\ ToSet(handlers) \subseteq Subscribed
    /\ InPlace
    /\ \A e \in Publication : Apart(e)

LEMMA RemoveOne ==
    ASSUME NEW S, NEW s \in Seq(S), NEW k \in 1 .. Len(s), IsInjective(s)
    PROVE  /\ RemoveAt(s, k) \in Seq(S)
           /\ Len(RemoveAt(s, k)) = Len(s) - 1
           /\ \A j \in 1 .. Len(s) - 1 : RemoveAt(s, k)[j] = IF j < k THEN s[j] ELSE s[j + 1]
           /\ ToSet(RemoveAt(s, k)) = ToSet(s) \ {s[k]}
           /\ IsInjective(RemoveAt(s, k))
<1> DEFINE a == SubSeq(s, 1, k - 1)
           b == SubSeq(s, k + 1, Len(s))
           r == RemoveAt(s, k)
<1>1. /\ a \in Seq(S) /\ Len(a) = k - 1 /\ \A j \in 1 .. k - 1 : a[j] = s[j]
      /\ b \in Seq(S) /\ Len(b) = Len(s) - k /\ \A j \in 1 .. Len(s) - k : b[j] = s[k + j]
  <2>1. a \in Seq(S) /\ Len(a) = k - 1 /\ \A j \in 1 .. k - 1 : a[j] = s[j]
    OBVIOUS
  <2>2. b \in Seq(S) /\ Len(b) = Len(s) - k /\ \A j \in 1 .. Len(s) - k : b[j] = s[k + j]
    OBVIOUS
  <2> QED BY <2>1, <2>2
<1>2. r = a \o b
  BY DEF RemoveAt
<1> HIDE DEF a, b, r
<1>3. /\ r \in Seq(S) /\ Len(r) = Len(s) - 1
      /\ \A j \in 1 .. Len(s) - 1 : r[j] = IF j < k THEN s[j] ELSE s[j + 1]
  <2>1. /\ r \in Seq(S) /\ Len(r) = Len(a) + Len(b)
        /\ \A j \in 1 .. Len(a) : r[j] = a[j]
        /\ \A j \in 1 .. Len(b) : r[Len(a) + j] = b[j]
    <3>1. a \in Seq(S) /\ b \in Seq(S)
      BY <1>1
    <3>2. a \o b \in Seq(S) /\ Len(a \o b) = Len(a) + Len(b)
      BY <3>1
    <3>3. \A j \in 1 .. Len(a) + Len(b) :
             (a \o b)[j] = IF j <= Len(a) THEN a[j] ELSE b[j - Len(a)]
      BY <3>1
    <3>4. Len(a) \in Nat /\ Len(b) \in Nat
      BY <3>1
    <3>5. \A j \in 1 .. Len(b) : (a \o b)[Len(a) + j] = b[j]
      <4> SUFFICES ASSUME NEW j \in 1 .. Len(b) PROVE (a \o b)[Len(a) + j] = b[j]
        OBVIOUS
      <4>1. /\ Len(a) + j \in 1 .. Len(a) + Len(b) /\ ~(Len(a) + j <= Len(a))
            /\ Len(a) + j - Len(a) = j
        BY <3>4
      <4> QED BY <3>3, <4>1
    <3> QED BY <1>2, <3>2, <3>3, <3>4, <3>5
  <2>2. Len(r) = Len(s) - 1
    BY <1>1, <2>1
  <2>3. ASSUME NEW j \in 1 .. Len(s) - 1
        PROVE  r[j] = IF j < k THEN s[j] ELSE s[j + 1]
    <3>1. CASE j < k
      BY <1>1, <2>1, <3>1
    <3>2. CASE ~(j < k)
      <4>1. j - (k - 1) \in 1 .. Len(b) /\ j = Len(a) + (j - (k - 1))
        BY <1>1, <3>2
      <4>2. r[j] = b[j - (k - 1)]
        BY <2>1, <4>1
      <4>3. j - (k - 1) \in 1 .. Len(s) - k /\ k + (j - (k - 1)) = j + 1
        BY <1>1, <4>1
      <4>4. b[j - (k - 1)] = s[j + 1]
        BY <1>1, <4>3
      <4> QED BY <3>2, <4>2, <4>4
    <3> QED BY <3>1, <3>2
  <2> QED BY <2>1, <2>2, <2>3
<1>4. DOMAIN s = 1 .. Len(s) /\ DOMAIN r = 1 .. (Len(s) - 1)
  BY <1>3
<1>5. IsInjective(r)
  <2> SUFFICES ASSUME NEW x \in 1 .. Len(s) - 1, NEW y \in 1 .. Len(s) - 1, r[x] = r[y]
               PROVE  x = y
    BY <1>4 DEF IsInjective
  <2>1. \A m, n \in 1 .. Len(s) : s[m] = s[n] => m = n
    BY <1>4 DEF IsInjective
  <2>2. /\ r[x] = IF x < k THEN s[x] ELSE s[x + 1]
        /\ r[y] = IF y < k THEN s[y] ELSE s[y + 1]
    BY <1>3
  <2>3. x \in 1 .. Len(s) /\ x + 1 \in 1 .. Len(s) /\ y \in 1 .. Len(s) /\ y + 1 \in 1 .. Len(s)
    OBVIOUS
  <2>4. CASE x < k /\ y < k
    BY <2>1, <2>2, <2>3, <2>4
  <2>5. CASE x < k /\ ~(y < k)
    <3>1. s[x] = s[y + 1]
      BY <2>2, <2>5
    <3>2. x = y + 1
      BY <2>1, <2>3, <3>1
    <3> QED BY <2>5, <3>2
  <2>6. CASE ~(x < k) /\ y < k
    <3>1. s[x + 1] = s[y]
      BY <2>2, <2>6
    <3>2. x + 1 = y
      BY <2>1, <2>3, <3>1
    <3> QED BY <2>6, <3>2
  <2>7. CASE ~(x < k) /\ ~(y < k)
    <3>1. s[x + 1] = s[y + 1]
      BY <2>2, <2>7
    <3>2. x + 1 = y + 1
      BY <2>1, <2>3, <3>1
    <3> QED BY <2>7, <3>2
  <2> QED BY <2>4, <2>5, <2>6, <2>7
<1>6. ToSet(r) = ToSet(s) \ {s[k]}
  <2>1. ASSUME NEW x \in ToSet(r) PROVE x \in ToSet(s) \ {s[k]}
    <3>1. PICK j \in 1 .. Len(s) - 1 : x = r[j]
      BY <1>4 DEF ToSet
    <3>2. PICK m \in 1 .. Len(s) : x = s[m] /\ m # k
      BY <1>3, <3>1
    <3> QED BY <1>4, <3>2 DEF ToSet, IsInjective
  <2>2. ASSUME NEW x \in ToSet(s) \ {s[k]} PROVE x \in ToSet(r)
    <3>1. PICK m \in 1 .. Len(s) : x = s[m] /\ m # k
      BY <1>4 DEF ToSet
    <3>2. \E j \in 1 .. Len(s) - 1 : x = r[j]
      <4>1. CASE m < k
        <5>1. m \in 1 .. Len(s) - 1 /\ r[m] = s[m]
          BY <1>3, <4>1
        <5> QED BY <3>1, <5>1
      <4>2. CASE m > k
        <5>1. m - 1 \in 1 .. Len(s) - 1 /\ r[m - 1] = s[m]
          BY <1>3, <4>2
        <5> QED BY <3>1, <5>1
      <4> QED BY <3>1, <4>1, <4>2
    <3> QED BY <1>4, <3>2 DEF ToSet
  <2> QED BY <2>1, <2>2
<1> QED BY <1>3, <1>5, <1>6 DEF r

\* The parts are looked at only where they change.
LEMMA ApartKept ==
    ASSUME NEW e \in Publication, Apart(e),
           publishing'[e] = publishing[e], called'[e] = called[e],
           subscribers'[e] = subscribers[e],
           \A h \in Handler : <<e, h>> \in started' <=> <<e, h>> \in started
    PROVE  Apart(e)'
BY DEF Apart, LeftOf, StartedOf, CalledOf

LEMMA SubscribeKeeps ==
    ASSUME BusIInv, NEW h \in Handler, Subscribe(h)
    PROVE  BusIInv'
<1>1. /\ h \notin Subscribed /\ handlers' = Append(handlers, h)
      /\ index' = [index EXCEPT ![h] = Len(handlers) + 1]
      /\ UNCHANGED <<publishing, started, called, subscribers, dismissed, nested>>
  BY DEF Subscribe
<1>2. handlers \in Seq(Handler) /\ Len(handlers) \in Nat /\ h \notin ToSet(handlers)
  BY <1>1 DEF BusIInv, BusTypeOK
<1>3. /\ handlers' \in Seq(Handler) /\ Len(handlers') = Len(handlers) + 1
      /\ ToSet(handlers') = ToSet(handlers) \cup {h} /\ IsInjective(handlers')
      /\ handlers'[Len(handlers) + 1] = h
      /\ \A k \in 1 .. Len(handlers) : handlers'[k] = handlers[k]
  BY <1>1, <1>2, AppendOne DEF BusIInv
<1>4. index' \in [Handler -> (Nat \ {0}) \cup {None}] /\ index'[h] = Len(handlers) + 1
  BY <1>1, <1>2 DEF BusIInv, BusTypeOK
<1>5. Subscribed' = Subscribed \cup {h}
  BY BusAssumption, <1>1, <1>2, <1>4 DEF Subscribed, BusIInv, BusTypeOK
<1>6. BusTypeOK'
  BY <1>1, <1>3, <1>4, <1>5 DEF BusIInv, BusTypeOK
<1>7. InPlace'
  <2> SUFFICES ASSUME nested PROVE InPlace'
    BY <1>1 DEF InPlace
  <2>1. h \notin dismissed
    BY <1>1 DEF BusIInv, BusTypeOK
  <2>2. ToSet(handlers') = Subscribed' \ dismissed'
    BY <1>1, <1>3, <1>5, <2>1 DEF BusIInv, InPlace
  <2>3. ASSUME NEW g \in Subscribed' \ dismissed'
        PROVE  index'[g] \in 1 .. Len(handlers') /\ handlers'[index'[g]] = g
    <3>1. CASE g = h
      BY <1>2, <1>3, <1>4, <3>1
    <3>2. CASE g # h
      <4>1. g \in Subscribed \ dismissed /\ index'[g] = index[g]
        BY <1>1, <1>5, <2>3, <3>2 DEF Subscribed, BusIInv, BusTypeOK
      <4>2. index[g] \in 1 .. Len(handlers) /\ handlers[index[g]] = g
        BY <4>1 DEF BusIInv, InPlace
      <4> QED BY <1>2, <1>3, <4>1, <4>2
    <3> QED BY <3>1, <3>2
  <2> QED BY <2>2, <2>3 DEF InPlace
<1>8. \A e \in Publication : Apart(e)'
  BY <1>1, ApartKept DEF BusIInv
<1> QED BY <1>3, <1>5, <1>6, <1>7, <1>8 DEF BusIInv

LEMMA UnsubscribeKeeps ==
    ASSUME BusIInv, NEW h \in Handler, Unsubscribe(h)
    PROVE  BusIInv'
<1>1. /\ h \in Subscribed /\ dismissed' = dismissed \cup {h}
      /\ handlers' = IF index[h] \in 1 .. Len(handlers) THEN RemoveAt(handlers, index[h])
                                                         ELSE handlers
      /\ nested' <=> /\ nested
                     /\ h \notin dismissed
                     /\ \A g \in Subscribed \ dismissed : index[g] <= index[h]
      /\ UNCHANGED <<index, publishing, started, called, subscribers>>
  BY DEF Unsubscribe
<1>2. handlers \in Seq(Handler) /\ Len(handlers) \in Nat
  BY DEF BusIInv, BusTypeOK
<1>3. /\ handlers' \in Seq(Handler) /\ IsInjective(handlers')
      /\ ToSet(handlers') \subseteq ToSet(handlers)
  BY <1>1, <1>2, RemoveOne DEF BusIInv
<1>4. Subscribed' = Subscribed
  BY <1>1 DEF Subscribed
<1>5. BusTypeOK'
  <2>1. nested' \in BOOLEAN
    BY DEF Unsubscribe
  <2> QED BY <1>1, <1>3, <1>4, <2>1 DEF BusIInv, BusTypeOK
<1>6. InPlace'
  <2> SUFFICES ASSUME nested' PROVE InPlace'
    BY DEF InPlace
  <2>1. /\ h \in Subscribed \ dismissed
        /\ \A g \in Subscribed \ dismissed : index[g] <= index[h]
        /\ ToSet(handlers) = Subscribed \ dismissed
        /\ \A g \in Subscribed \ dismissed :
              index[g] \in 1 .. Len(handlers) /\ handlers[index[g]] = g
    BY <1>1 DEF BusIInv, InPlace
  <2>2. DOMAIN handlers = 1 .. Len(handlers)
    BY <1>2
  <2>3. index[h] = Len(handlers)
    <3> DEFINE last == handlers[Len(handlers)]
    <3>1. Len(handlers) \in 1 .. Len(handlers)
      BY <1>2, <2>1
    <3>2. last \in ToSet(handlers)
      BY <2>2, <3>1 DEF ToSet
    <3>3. index[last] \in 1 .. Len(handlers) /\ handlers[index[last]] = last
      BY <2>1, <3>2
    <3>4. index[last] = Len(handlers)
      BY <2>2, <3>1, <3>3 DEF BusIInv, IsInjective
    <3> QED BY <1>2, <2>1, <3>2, <3>4
  <2>4. handlers' = RemoveAt(handlers, index[h])
    BY <1>1, <2>1
  <2>5. /\ Len(handlers') = Len(handlers) - 1
        /\ ToSet(handlers') = ToSet(handlers) \ {h}
        /\ \A j \in 1 .. Len(handlers) - 1 : handlers'[j] = handlers[j]
    BY <1>2, <2>1, <2>3, <2>4, RemoveOne DEF BusIInv
  <2>6. ASSUME NEW g \in Subscribed' \ dismissed'
        PROVE  index'[g] \in 1 .. Len(handlers') /\ handlers'[index'[g]] = g
    <3>1. g \in Subscribed \ dismissed /\ g # h /\ index'[g] = index[g]
      BY <1>1, <1>4, <2>6
    <3>2. index[g] \in 1 .. Len(handlers) /\ handlers[index[g]] = g
      BY <2>1, <3>1
    <3>3. index[g] # Len(handlers)
      BY <2>1, <2>3, <3>1, <3>2
    <3> QED BY <1>2, <2>5, <3>1, <3>2, <3>3
  <2>7. ToSet(handlers') = Subscribed' \ dismissed'
    BY <1>1, <1>4, <2>1, <2>5
  <2> QED BY <2>6, <2>7 DEF InPlace
<1>7. \A e \in Publication : Apart(e)'
  BY <1>1, ApartKept DEF BusIInv
<1> QED BY <1>3, <1>4, <1>5, <1>6, <1>7 DEF BusIInv

\* What the bus itself holds is left alone by a publication.
LEMMA PublicationKeeps ==
    ASSUME BusIInv, BusTypeOK', UNCHANGED <<handlers, index, dismissed, nested>>,
           NEW e \in Publication, Apart(e)',
           \A d \in Publication \ {e} :
              /\ publishing'[d] = publishing[d] /\ called'[d] = called[d]
              /\ subscribers'[d] = subscribers[d]
              /\ \A h \in Handler : <<d, h>> \in started' <=> <<d, h>> \in started
    PROVE  BusIInv'
<1>1. Subscribed' = Subscribed
  BY DEF Subscribed
<1>2. InPlace'
  BY <1>1 DEF BusIInv, InPlace
<1>3. \A d \in Publication : Apart(d)'
  BY ApartKept DEF BusIInv
<1> QED BY <1>1, <1>2, <1>3 DEF BusIInv

LEMMA PublishKeeps ==
    ASSUME BusIInv, NEW e \in Publication, Publish(e)
    PROVE  BusIInv'
<1>1. /\ publishing[e] = None /\ publishing' = [publishing EXCEPT ![e] = handlers]
      /\ subscribers' = [subscribers EXCEPT ![e] = ToSet(handlers)]
      /\ UNCHANGED <<handlers, index, started, called, dismissed, nested>>
  BY DEF Publish
<1>2. handlers \in Seq(Handler) /\ ToSet(handlers) \subseteq Handler
  BY DEF BusIInv, BusTypeOK, ToSet
<1>3. BusTypeOK'
  BY <1>1, <1>2 DEF BusIInv, BusTypeOK, Subscribed
<1>4. /\ publishing'[e] = handlers /\ publishing'[e] # None
      /\ subscribers'[e] = ToSet(handlers)
      /\ called'[e] = <<>> /\ StartedOf(e)' = {}
  BY BusAssumption, <1>1, <1>2 DEF BusIInv, BusTypeOK, Apart, StartedOf
<1>5. LeftOf(e)' = ToSet(handlers) /\ CalledOf(e)' = {} /\ IsInjective(called'[e])
  BY <1>4 DEF LeftOf, CalledOf, ToSet, IsInjective
<1>6. Apart(e)'
  BY <1>4, <1>5 DEF BusIInv, Apart
<1> QED BY <1>1, <1>3, <1>6, PublicationKeeps DEF BusIInv, BusTypeOK

LEMMA StartKeeps ==
    ASSUME BusIInv, NEW e \in Publication, Start(e)
    PROVE  BusIInv'
<1> DEFINE left == publishing[e]
           h == Head(left)
<1>1. /\ left \notin {None, <<>>} /\ started' = started \cup {<<e, h>>}
      /\ publishing' = [publishing EXCEPT ![e] = Tail(left)]
      /\ UNCHANGED <<handlers, index, called, subscribers, dismissed, nested>>
  BY DEF Start
<1>2. left \in Seq(Handler) /\ IsInjective(left)
  BY <1>1 DEF BusIInv, BusTypeOK, Apart
<1>3. /\ Tail(left) \in Seq(Handler) /\ h \in Handler /\ h \in ToSet(left)
      /\ ToSet(Tail(left)) = ToSet(left) \ {h} /\ IsInjective(Tail(left))
  BY <1>1, <1>2, TailOne
<1> HIDE DEF h
<1>4. BusTypeOK'
  BY <1>1, <1>3 DEF BusIInv, BusTypeOK, Subscribed
<1>5. publishing'[e] = Tail(left) /\ publishing'[e] # None
  BY BusAssumption, <1>1, <1>3 DEF BusIInv, BusTypeOK
<1>6. /\ LeftOf(e)' = LeftOf(e) \ {h} /\ h \in LeftOf(e)
      /\ StartedOf(e)' = StartedOf(e) \cup {h} /\ CalledOf(e)' = CalledOf(e)
  BY <1>1, <1>3, <1>5 DEF LeftOf, StartedOf, CalledOf
<1>7. Apart(e)'
  BY <1>1, <1>3, <1>5, <1>6 DEF BusIInv, Apart
<1>8. \A d \in Publication \ {e} :
         /\ publishing'[d] = publishing[d]
         /\ \A g \in Handler : <<d, g>> \in started' <=> <<d, g>> \in started
  BY <1>1 DEF BusIInv, BusTypeOK
<1> QED BY <1>1, <1>4, <1>7, <1>8, PublicationKeeps

LEMMA CallKeeps ==
    ASSUME BusIInv, NEW e \in Publication, NEW h \in Handler, Call(e, h)
    PROVE  BusIInv'
<1>1. /\ <<e, h>> \in started /\ started' = started \ {<<e, h>>}
      /\ called' = [called EXCEPT ![e] = Append(@, h)]
      /\ UNCHANGED <<handlers, index, publishing, subscribers, dismissed, nested>>
  BY DEF Call
<1>2. h \in StartedOf(e) /\ called[e] \in Seq(Handler) /\ IsInjective(called[e])
  BY <1>1 DEF BusIInv, BusTypeOK, Apart, StartedOf
<1>3. publishing[e] # None /\ h \notin CalledOf(e) /\ h \notin LeftOf(e)
  BY <1>2 DEF BusIInv, Apart
<1>4. /\ called'[e] \in Seq(Handler) /\ IsInjective(called'[e])
      /\ ToSet(called'[e]) = ToSet(called[e]) \cup {h}
  BY <1>1, <1>2, <1>3, AppendOne DEF BusIInv, BusTypeOK, CalledOf
<1>5. BusTypeOK'
  BY <1>1, <1>4 DEF BusIInv, BusTypeOK, Subscribed
<1>6. /\ LeftOf(e)' = LeftOf(e) /\ StartedOf(e)' = StartedOf(e) \ {h}
      /\ CalledOf(e)' = CalledOf(e) \cup {h}
  BY <1>1, <1>4 DEF LeftOf, StartedOf, CalledOf
<1>7. Apart(e)'
  BY <1>1, <1>2, <1>3, <1>4, <1>6 DEF BusIInv, Apart
<1>8. \A d \in Publication \ {e} :
         /\ called'[d] = called[d]
         /\ \A g \in Handler : <<d, g>> \in started' <=> <<d, g>> \in started
  BY <1>1 DEF BusIInv, BusTypeOK
<1> QED BY <1>1, <1>5, <1>7, <1>8, PublicationKeeps

LEMMA BusStutterKeeps == ASSUME BusIInv, UNCHANGED busVars PROVE BusIInv'
<1>1. UNCHANGED <<handlers, index, publishing, started, called, subscribers, dismissed, nested>>
  BY DEF busVars
<1>2. BusTypeOK' /\ InPlace' /\ Subscribed' = Subscribed
  BY <1>1 DEF BusIInv, BusTypeOK, InPlace, Subscribed
<1>3. \A e \in Publication : Apart(e)'
  BY <1>1, ApartKept DEF BusIInv
<1> QED BY <1>1, <1>2, <1>3 DEF BusIInv

LEMMA BusNextKeeps == ASSUME BusIInv, [BusNext]_busVars PROVE BusIInv'
BY SubscribeKeeps, UnsubscribeKeeps, PublishKeeps, StartKeeps, CallKeeps, BusStutterKeeps
DEF BusNext

LEMMA InitBusIInv == ASSUME BusInit PROVE BusIInv
<1>1. /\ handlers = <<>> /\ index = [h \in Handler |-> None] /\ started = {}
      /\ publishing = [e \in Publication |-> None] /\ called = [e \in Publication |-> <<>>]
      /\ subscribers = [e \in Publication |-> {}] /\ dismissed = {} /\ nested = TRUE
  BY DEF BusInit
<1>2. Subscribed = {}
  BY <1>1 DEF Subscribed
<1>3. ToSet(<<>>) = {} /\ IsInjective(<<>>)
  BY DEF ToSet, IsInjective
<1>4. BusTypeOK
  BY <1>1 DEF BusTypeOK
<1>5. \A e \in Publication : Apart(e)
  BY <1>1, <1>3 DEF Apart, LeftOf, StartedOf, CalledOf
<1>6. InPlace
  BY <1>1, <1>2, <1>3 DEF InPlace
<1> QED BY <1>1, <1>3, <1>4, <1>5, <1>6 DEF BusIInv

-----------------------------------------------------------------------------
(* The bootstrap: what has been put together by the time of each step.     *)

\* RegisterServices has given plugin p its database, and on a server its store.
Served(p) == deps[p] \in [db : {TRUE}, store : IF program = "server" THEN {TRUE} ELSE BOOLEAN]
AllServed == \A k \in 1 .. Len(registered) : Served(registered[k])

BootIInv ==
    /\ registered \in Seq(Plugins) /\ DOMAIN deps = Plugins /\ past \in Nat /\ store \in BOOLEAN
    /\ program \in {"server", "console"}
    /\ stage \in {"storage", "services"} => db = TRUE
    /\ program = "server" /\ stage \in {"keydb", "router", "register", "middleware", "services"}
          => db = TRUE /\ store = TRUE
    /\ program = "console" => stage \notin {"keydb", "router", "middleware", "routes", "serving"}
    /\ stage = "services" => past <= Len(registered) /\ \A k \in 1 .. past : Served(registered[k])
    /\ stage \in {"routes", "seed", "serving"} \/ seeded # <<>> => AllServed
    /\ seeded # <<>> => stage \in {"seed", "done", "failed"}

\* A step on the way to the services, when nothing is seeded yet.
LEMMA OnTheWay ==
    ASSUME BootIInv, UNCHANGED <<program, registered, deps, seeded>>,
           past' \in Nat, store' \in BOOLEAN, seeded = <<>>,
           stage' \notin {"routes", "seed", "serving"},
           stage' = "services" => past' = 0,
           stage' \in {"storage", "services"} => db' = TRUE,
           program = "server" /\ stage' \in {"keydb", "router", "register", "middleware", "services"}
               => db' = TRUE /\ store' = TRUE,
           program = "console" => stage' \notin {"keydb", "router", "middleware"}
    PROVE  BootIInv'
<1>1. /\ registered' \in Seq(Plugins) /\ DOMAIN deps' = Plugins
      /\ program' \in {"server", "console"}
  BY DEF BootIInv
<1>2. stage' = "services" => past' <= Len(registered') /\ \A k \in 1 .. past' : Served(registered[k])'
  BY <1>1
<1> QED BY <1>1, <1>2 DEF BootIInv

LEMMA OpenDBKeeps == ASSUME BootIInv, OpenDB PROVE BootIInv'
<1>1. /\ stage = "db" /\ UNCHANGED <<program, store, registered, deps, seeded>>
      /\ \/ db' = TRUE /\ stage' = "storage" /\ past' = 0
         \/ stage' = "failed" /\ past' = past
  BY DEF OpenDB, Goto, Fail
<1>2. seeded = <<>> /\ past \in Nat /\ store \in BOOLEAN
  BY <1>1 DEF BootIInv
<1>3. past' \in Nat /\ store' \in BOOLEAN /\ (stage' = "storage" => db' = TRUE)
  BY <1>1, <1>2
<1>4. stage' \in {"storage", "failed"}
  BY <1>1
<1> QED BY <1>1, <1>2, <1>3, <1>4, OnTheWay

LEMMA OpenStoreKeeps == ASSUME BootIInv, OpenStore PROVE BootIInv'
<1>1. /\ stage = "storage" /\ UNCHANGED <<program, db, registered, deps, seeded>>
  BY DEF OpenStore
<1>2. seeded = <<>> /\ past \in Nat /\ db = TRUE /\ program \in {"server", "console"}
  BY <1>1 DEF BootIInv
<1>3. store' \in BOOLEAN
  BY DEF OpenStore, LoadsConfig, OpensStore
<1>4. CASE program = "console"
  <2>1. stage' = "services" /\ past' = 0
    BY <1>4 DEF OpenStore, Goto
  <2> QED BY <1>1, <1>2, <1>3, <1>4, <2>1, OnTheWay
<1>5. CASE program = "server"
  <2>1. \/ store' /\ stage' = "keydb" /\ past' = 0
        \/ stage' = "failed" /\ past' = past
    BY <1>5 DEF OpenStore, Goto, Fail
  <2>2. stage' = "keydb" => store' = TRUE
    BY <1>3, <2>1
  <2>3. past' \in Nat /\ db' = TRUE /\ stage' \in {"keydb", "failed"}
    BY <1>1, <1>2, <2>1
  <2> QED BY <1>1, <1>2, <1>3, <1>5, <2>2, <2>3, OnTheWay
<1> QED BY <1>2, <1>4, <1>5

LEMMA InitKeyDBKeeps == ASSUME BootIInv, InitKeyDB PROVE BootIInv'
<1>1. /\ stage = "keydb" /\ stage' = "router" /\ past' = 0
      /\ UNCHANGED <<program, db, store, registered, deps, seeded>>
  BY DEF InitKeyDB, Goto
<1>2. /\ seeded = <<>> /\ store \in BOOLEAN /\ program = "server"
      /\ db = TRUE /\ store = TRUE
  BY <1>1 DEF BootIInv
<1> QED BY <1>1, <1>2, OnTheWay

LEMMA MakeRouterKeeps == ASSUME BootIInv, MakeRouter PROVE BootIInv'
<1>1. /\ stage = "router"
      /\ \/ stage' = "register" /\ past' = 0
         \/ stage' = "failed" /\ past' = past
      /\ UNCHANGED <<program, db, store, registered, deps, seeded>>
  BY DEF MakeRouter, Goto, Fail
<1>2. /\ seeded = <<>> /\ past \in Nat /\ store \in BOOLEAN /\ program = "server"
      /\ db = TRUE /\ store = TRUE
  BY <1>1 DEF BootIInv
<1> QED BY <1>1, <1>2, OnTheWay

LEMMA RegisterPluginsKeeps ==
    ASSUME BootIInv, RegisterPlugins
    PROVE  BootIInv'
<1>1. registered' \in Seq(Plugins)
  BY BootAssumption DEF RegisterPlugins, Lists
<1> QED BY <1>1 DEF BootIInv, RegisterPlugins, Goto, Fail

LEMMA AttachMiddlewareKeeps == ASSUME BootIInv, AttachMiddleware PROVE BootIInv'
<1>1. /\ stage = "middleware" /\ stage' = "services" /\ past' = 0
      /\ UNCHANGED <<program, db, store, registered, deps, seeded>>
  BY DEF AttachMiddleware, Goto
<1>2. /\ seeded = <<>> /\ store \in BOOLEAN /\ program = "server"
      /\ db = TRUE /\ store = TRUE
  BY <1>1 DEF BootIInv
<1> QED BY <1>1, <1>2, OnTheWay

LEMMA RegisterServicesKeeps == ASSUME BootIInv, RegisterServices PROVE BootIInv'
<1>1. /\ stage = "services" /\ past < Len(registered) /\ seeded = <<>>
      /\ UNCHANGED <<program, db, store, registered, seeded>>
      /\ db = TRUE /\ (program = "server" => store = TRUE)
  BY DEF RegisterServices, BootIInv
<1>2. CASE /\ deps' = [deps EXCEPT ![registered[past + 1]] = [db |-> db, store |-> store]]
           /\ past' = past + 1 /\ stage' = stage
  <2> DEFINE p == registered[past + 1]
             gift == [db |-> db, store |-> store]
  <2>1. past + 1 \in 1 .. Len(registered) /\ p \in Plugins
    BY <1>1 DEF BootIInv
  <2>2. gift \in [db : {TRUE}, store : IF program = "server" THEN {TRUE} ELSE BOOLEAN]
    BY <1>1 DEF BootIInv
  <2>3. DOMAIN deps' = Plugins /\ deps'[p] = gift /\ \A q \in Plugins \ {p} : deps'[q] = deps[q]
    BY <1>2, <2>1 DEF BootIInv
  <2> HIDE DEF gift, p
  <2>4. \A q \in Plugins : Served(q) => Served(q)'
    BY <1>1, <2>2, <2>3 DEF Served
  <2>5. deps'[p] \in [db : {TRUE}, store : IF program' = "server" THEN {TRUE} ELSE BOOLEAN]
    BY <1>1, <2>2, <2>3
  <2>6. ASSUME NEW k \in 1 .. past'
        PROVE  Served(registered[k])'
    <3>1. registered[k] \in Plugins /\ registered'[k] = registered[k]
      BY <1>1, <1>2, <2>1, <2>6 DEF BootIInv
    <3>2. CASE k = past + 1
      BY <1>1, <2>5, <3>1, <3>2 DEF p, Served
    <3>3. CASE k # past + 1
      <4>1. Served(registered[k])
        BY <1>1, <1>2, <2>6, <3>3 DEF BootIInv
      <4>2. Served(registered[k])'
        BY <1>1, <2>4, <3>1, <4>1 DEF Served
      <4> QED BY <4>2
    <3> QED BY <3>2, <3>3
  <2> QED BY <1>1, <1>2, <2>1, <2>3, <2>6 DEF BootIInv
<1>3. CASE stage' = "failed" /\ UNCHANGED <<past, deps>>
  BY <1>1, <1>3 DEF BootIInv, AllServed, Served
<1> QED BY <1>2, <1>3 DEF RegisterServices, Refused, Fail

LEMMA ServicesRegisteredKeeps == ASSUME BootIInv, ServicesRegistered PROVE BootIInv'
<1>1. /\ stage = "services" /\ past = Len(registered) /\ past' = 0
      /\ stage' = IF program = "server" THEN "routes" ELSE "seed"
      /\ UNCHANGED <<program, db, store, registered, deps, seeded>>
  BY DEF ServicesRegistered, Goto
<1>2. AllServed'
  BY <1>1 DEF BootIInv, AllServed, Served
<1> QED BY <1>1, <1>2 DEF BootIInv

LEMMA RegisterRoutesKeeps == ASSUME BootIInv, RegisterRoutes PROVE BootIInv'
<1>1. /\ stage = "routes" /\ past' \in Nat /\ stage' \in {"routes", "failed"}
      /\ UNCHANGED <<program, db, store, registered, deps, seeded>>
  BY DEF RegisterRoutes, Fail, BootIInv
<1> QED BY <1>1 DEF BootIInv, AllServed, Served

LEMMA ListenKeeps == ASSUME BootIInv, Listen PROVE BootIInv'
<1>1. /\ stage = "routes" /\ past' \in Nat /\ stage' \in {"serving", "failed"}
      /\ UNCHANGED <<program, db, store, registered, deps, seeded>>
  BY DEF Listen, Goto, Fail, BootIInv
<1> QED BY <1>1 DEF BootIInv, AllServed, Served

LEMMA CommandKeeps ==
    ASSUME BootIInv, SeedFromFile \/ SeedByServices
    PROVE  BootIInv'
<1>1. /\ stage = "command" /\ past' \in Nat /\ stage' \in {"done", "failed", "db"}
      /\ UNCHANGED <<program, db, store, registered, deps, seeded>>
  BY DEF SeedFromFile, SeedByServices, Goto, Fail, BootIInv
<1>2. seeded = <<>> /\ store \in BOOLEAN
  BY <1>1 DEF BootIInv
<1> QED BY <1>1, <1>2, OnTheWay

LEMMA SeedKeeps == ASSUME BootIInv, SeedOne \/ SeedAll PROVE BootIInv'
<1>1. /\ stage = "seed" /\ past' \in Nat /\ stage' \in {"seed", "done", "failed"}
      /\ UNCHANGED <<program, db, store, registered, deps>>
  BY DEF SeedOne, SeedAll, Goto, Fail, BootIInv
<1> QED BY <1>1 DEF BootIInv, AllServed, Served

LEMMA BootNextKeeps ==
    ASSUME BootIInv, [BootNext]_bootVars
    PROVE  BootIInv'
<1>1. CASE UNCHANGED bootVars
  BY <1>1 DEF bootVars, BootIInv, AllServed, Served
<1>2. CASE BootNext
  BY <1>2, OpenDBKeeps, OpenStoreKeeps, InitKeyDBKeeps, MakeRouterKeeps, RegisterPluginsKeeps,
     AttachMiddlewareKeeps, RegisterServicesKeeps, ServicesRegisteredKeeps, RegisterRoutesKeeps,
     ListenKeeps, CommandKeeps, SeedKeeps
  DEF BootNext
<1> QED BY <1>1, <1>2

LEMMA InitBoot == ASSUME BootInit PROVE BootIInv
<1>1. /\ program \in {"server", "console"} /\ stage \in {"db", "register"}
      /\ stage = "register" => program = "console"
      /\ past = 0 /\ db = FALSE /\ store = FALSE /\ registered = <<>> /\ seeded = <<>>
      /\ deps = [p \in Plugins |-> NoDeps]
  BY DEF BootInit
<1>2. /\ registered \in Seq(Plugins)
      /\ DOMAIN deps = Plugins
      /\ past \in Nat /\ store \in BOOLEAN
  <2>1. <<>> \in Seq(Plugins)
    OBVIOUS
  <2> QED BY <1>1, <2>1
<1>3. stage \notin {"storage", "services", "keydb", "router", "middleware", "routes", "seed", "serving"}
  BY <1>1
<1> QED BY <1>1, <1>2, <1>3 DEF BootIInv

-----------------------------------------------------------------------------
(* The chains of the bootstrap.  First, that ranks list a finite set in    *)
(* the order they come from, and that FlattenSeq gives a sequence.         *)

\* A set of numbers that is not empty has a least one.
LEMMA Least ==
    ASSUME NEW S \in SUBSET Nat, S # {}
    PROVE  \E x \in S : \A y \in S : x <= y
<1> DEFINE R == OpToRel(<, Nat)
<1>1. IsWellFoundedOn(R, Nat)
  BY NatLessThanWellFounded
<1>2. PICK x \in S : \A y \in S : ~(<<y, x>> \in R)
  <2> HIDE DEF R
  <2> QED BY <1>1, WFMin
<1>3. \A y \in S : ~(y < x)
  BY <1>2 DEF R, OpToRel
<1> QED BY <1>3

\* Whatever holds of 1 and of the successor of each up to n, holds up to n.
LEMMA UpTo ==
    ASSUME NEW n \in Nat, NEW Z, 1 \in Z, \A k \in 1 .. n : k \in Z => k + 1 \in Z
    PROVE  \A k \in 1 .. n : k \in Z
<1> SUFFICES ASSUME NEW b \in 1 .. n, b \notin Z PROVE FALSE
  OBVIOUS
<1> DEFINE S == {k \in 1 .. n : k \notin Z}
<1>1. PICK x \in S : \A y \in S : x <= y
  <2>1. S \in SUBSET Nat /\ S # {}
    OBVIOUS
  <2> HIDE DEF S
  <2> QED BY <2>1, Least
<1>2. x # 1 /\ x - 1 \in 1 .. n /\ x - 1 \notin S
  BY <1>1
<1>3. x - 1 \in Z /\ (x - 1) + 1 = x
  BY <1>1, <1>2
<1> QED BY <1>1, <1>2, <1>3

\* FlattenSeq takes the last value of a function f that Flattens.
Flattens(s, f) ==
    f = [k \in 1 .. Len(s) |-> IF k = 1 THEN s[k] ELSE f[k - 1] \o s[k]]

LEMMA FlattenChooses ==
    ASSUME NEW s
    PROVE  FlattenSeq(s) = IF Len(s) = 0 THEN s ELSE (CHOOSE f : Flattens(s, f))[Len(s)]
BY DEF FlattenSeq, Flattens

\* There is such a function: each step up to n has one.
FlattensTo(s, n, f) ==
    f = [k \in 1 .. n |-> IF k = 1 THEN s[k] ELSE f[k - 1] \o s[k]]

LEMMA FlattenExists ==
    ASSUME NEW s, NEW n \in Nat, n >= 1
    PROVE  \E f : FlattensTo(s, n, f)
<1> DEFINE Z == {k \in Nat : k >= 1 /\ \E f : FlattensTo(s, k, f)}
<1>1. 1 \in Z
  <2> DEFINE f == [k \in 1 .. 1 |-> s[k]]
  <2>1. f = [k \in 1 .. 1 |-> IF k = 1 THEN s[k] ELSE f[k - 1] \o s[k]]
    OBVIOUS
  <2> HIDE DEF f
  <2>2. FlattensTo(s, 1, f)
    BY <2>1 DEF FlattensTo
  <2>3. 1 \in Nat /\ 1 >= 1
    OBVIOUS
  <2> QED BY <2>2, <2>3
<1>2. ASSUME NEW k \in 1 .. n, k \in Z
      PROVE  k + 1 \in Z
  <2>1. PICK f : FlattensTo(s, k, f)
    BY <1>2
  <2> DEFINE g == [j \in 1 .. k + 1 |-> IF j = k + 1 THEN f[k] \o s[j] ELSE f[j]]
  <2>2. ASSUME NEW j \in 1 .. k + 1
        PROVE  g[j] = IF j = 1 THEN s[j] ELSE g[j - 1] \o s[j]
    <3>1. \A m \in 1 .. k : f[m] = IF m = 1 THEN s[m] ELSE f[m - 1] \o s[m]
      BY <2>1 DEF FlattensTo
    <3>2. CASE j = k + 1
      <4>1. j # 1 /\ j - 1 = k /\ k \in 1 .. k + 1 /\ k # k + 1
        BY <3>2
      <4>2. g[k] = f[k]
        BY <4>1
      <4>3. g[j] = f[k] \o s[j]
        BY <3>2
      <4> QED BY <4>1, <4>2, <4>3
    <3>3. CASE j # k + 1
      <4>1. j \in 1 .. k /\ g[j] = f[j]
        BY <3>3
      <4>2. CASE j = 1
        BY <3>1, <4>1, <4>2
      <4>3. CASE j # 1
        <5>1. j - 1 \in 1 .. k + 1 /\ j - 1 # k + 1
          BY <4>1, <4>3
        <5>2. g[j - 1] = f[j - 1]
          BY <5>1
        <5> QED BY <3>1, <4>1, <4>3, <5>2
      <4> QED BY <4>2, <4>3
    <3> QED BY <3>2, <3>3
  <2>3. g = [j \in 1 .. k + 1 |-> IF j = 1 THEN s[j] ELSE g[j - 1] \o s[j]]
    BY <2>2
  <2> HIDE DEF g
  <2>4. FlattensTo(s, k + 1, g)
    BY <2>3 DEF FlattensTo
  <2>5. k + 1 \in Nat /\ k + 1 >= 1
    OBVIOUS
  <2> QED BY <2>4, <2>5
<1>3. n \in Z
  <2> HIDE DEF Z
  <2> QED BY <1>1, <1>2, UpTo
<1> QED BY <1>3

LEMMA FlattenIsSeq ==
    ASSUME NEW S, NEW s \in Seq(Seq(S))
    PROVE  FlattenSeq(s) \in Seq(S)
<1>1. CASE Len(s) = 0
  <2>1. s = <<>>
    BY <1>1
  <2>2. <<>> \in Seq(S)
    OBVIOUS
  <2> QED BY <1>1, <2>1, <2>2, FlattenChooses
<1>2. CASE Len(s) # 0
  <2> DEFINE n == Len(s)
             f == CHOOSE h : Flattens(s, h)
             Z == {k \in Nat : k >= 1 /\ (k <= n => f[k] \in Seq(S))}
  <2>1. n \in Nat /\ n >= 1 /\ \A k \in 1 .. n : s[k] \in Seq(S)
    BY <1>2
  <2>2. \E h : Flattens(s, h)
    BY <2>1, FlattenExists DEF Flattens, FlattensTo
  <2>3. Flattens(s, f)
    BY <2>2
  <2> HIDE DEF f
  <2>4. \A k \in 1 .. n : f[k] = IF k = 1 THEN s[k] ELSE f[k - 1] \o s[k]
    BY <2>3 DEF Flattens
  <2>5. 1 \in Z
    BY <2>1, <2>4
  <2>6. ASSUME NEW k \in 1 .. n, k \in Z PROVE k + 1 \in Z
    <3>1. k + 1 \in Nat /\ k + 1 >= 1 /\ f[k] \in Seq(S)
      BY <2>6
    <3>2. ASSUME k + 1 <= n PROVE f[k + 1] \in Seq(S)
      <4>1. k + 1 \in 1 .. n /\ k + 1 # 1 /\ (k + 1) - 1 = k
        BY <3>2
      <4>2. f[k + 1] = f[k] \o s[k + 1] /\ s[k + 1] \in Seq(S)
        BY <2>1, <2>4, <4>1
      <4> QED BY <3>1, <4>2
    <3> QED BY <3>1, <3>2
  <2>7. n \in Z
    <3>1. n \in 1 .. n
      BY <2>1
    <3> HIDE DEF Z, n
    <3> QED BY <2>1, <2>5, <2>6, <3>1, UpTo
  <2>8. f[n] \in Seq(S)
    BY <2>1, <2>7
  <2> QED BY <1>2, <2>8, FlattenChooses DEF f
<1> QED BY <1>1, <1>2

\* R is a strict and total order on S.
Orders(R, S) ==
    /\ \A j \in S : <<j, j>> \notin R
    /\ \A j, k \in S : j # k => <<j, k>> \in R \/ <<k, j>> \in R
    /\ \A j, k, m \in S : <<j, k>> \in R /\ <<k, m>> \in R => <<j, m>> \in R

RankIn(R, S, k) == Cardinality({j \in S : <<j, k>> \in R})

\* Each member has the rank of how many come before it, and every rank is taken.
LEMMA Ranks ==
    ASSUME NEW S, NEW R, IsFiniteSet(S), Orders(R, S)
    PROVE  /\ \A k \in S : RankIn(R, S, k) \in 0 .. Cardinality(S) - 1
           /\ \A j, k \in S : <<j, k>> \in R <=> RankIn(R, S, j) < RankIn(R, S, k)
           /\ \A n \in 0 .. Cardinality(S) - 1 : \E k \in S : RankIn(R, S, k) = n
<1> DEFINE Below(k) == {j \in S : <<j, k>> \in R}
           rank(k) == Cardinality(Below(k))
           N == Cardinality(S)
<1>1. N \in Nat
  BY FS_CardinalityType
<1>2. ASSUME NEW k \in S
      PROVE  IsFiniteSet(Below(k)) /\ rank(k) \in 0 .. N - 1
  <2>1. IsFiniteSet(S \ {k}) /\ Cardinality(S \ {k}) = N - 1
    BY FS_RemoveElement
  <2>2. Below(k) \in SUBSET (S \ {k})
    BY DEF Orders
  <2>3. IsFiniteSet(Below(k)) /\ Cardinality(Below(k)) <= N - 1
    <3> HIDE DEF Below, N
    <3> QED BY <2>1, <2>2, FS_Subset
  <2>4. Cardinality(Below(k)) \in Nat
    BY <2>3, FS_CardinalityType
  <2>5. rank(k) \in Nat /\ rank(k) <= N - 1
    BY <2>3, <2>4
  <2> HIDE DEF rank
  <2> QED BY <1>1, <2>3, <2>5
<1>3. ASSUME NEW j \in S, NEW k \in S, <<j, k>> \in R
      PROVE  rank(j) < rank(k)
  <2>1. Below(j) \cup {j} \in SUBSET Below(k) /\ j \notin Below(j)
    BY <1>3 DEF Orders
  <2>2. IsFiniteSet(Below(j)) /\ IsFiniteSet(Below(k))
    BY <1>2
  <2>3. Cardinality(Below(j) \cup {j}) = Cardinality(Below(j)) + 1
    BY <2>1, <2>2, FS_AddElement
  <2>4. Cardinality(Below(j) \cup {j}) <= Cardinality(Below(k))
    <3> HIDE DEF Below
    <3> QED BY <2>1, <2>2, FS_Subset
  <2>5. Cardinality(Below(j)) \in Nat /\ Cardinality(Below(k)) \in Nat
    BY <2>2, FS_CardinalityType
  <2> QED BY <2>3, <2>4, <2>5
<1>4. \A j, k \in S : <<j, k>> \in R <=> rank(j) < rank(k)
  <2> SUFFICES ASSUME NEW j \in S, NEW k \in S PROVE <<j, k>> \in R <=> rank(j) < rank(k)
    OBVIOUS
  <2>1. rank(j) \in Nat /\ rank(k) \in Nat
    <3>1. rank(j) \in 0 .. N - 1 /\ rank(k) \in 0 .. N - 1
      BY <1>2
    <3> HIDE DEF rank
    <3> QED BY <3>1
  <2>2. <<j, k>> \in R => rank(j) < rank(k)
    BY <1>3
  <2>3. <<k, j>> \in R => rank(k) < rank(j)
    BY <1>3
  <2>4. j = k \/ <<j, k>> \in R \/ <<k, j>> \in R
    BY DEF Orders
  <2>5. CASE j = k
    <3>1. <<j, k>> \notin R
      BY <2>5 DEF Orders
    <3> HIDE DEF rank
    <3> QED BY <2>1, <2>5, <3>1
  <2> HIDE DEF rank
  <2> QED BY <2>1, <2>2, <2>3, <2>4, <2>5
<1>5. ASSUME NEW n \in 0 .. N - 1
      PROVE  \E k \in S : rank(k) = n
  <2> SUFFICES ASSUME \A k \in S : rank(k) # n PROVE FALSE
    OBVIOUS
  <2> DEFINE I == 0 .. N - 1
             T == I \ {n}
             f == [k \in S |-> rank(k)]
  <2>1. IsFiniteSet(I) /\ Cardinality(I) = N
    BY <1>1, <1>5, FS_Interval
  <2>2. IsFiniteSet(T) /\ Cardinality(T) = N - 1
    <3>1. n \in I
      BY <1>5
    <3> HIDE DEF N, I
    <3> QED BY <2>1, <3>1, FS_RemoveElement
  <2>3. f \in [S -> T]
    <3>1. \A k \in S : rank(k) \in T
      BY <1>2
    <3> HIDE DEF rank, T
    <3> QED BY <3>1
  <2>4. \A j, k \in S : j # k => f[j] # f[k]
    <3> SUFFICES ASSUME NEW j \in S, NEW k \in S, j # k PROVE f[j] # f[k]
      OBVIOUS
    <3>1. rank(j) < rank(k) \/ rank(k) < rank(j)
      BY <1>4 DEF Orders
    <3>2. rank(j) \in Nat /\ rank(k) \in Nat
      <4>1. rank(j) \in 0 .. N - 1 /\ rank(k) \in 0 .. N - 1
        BY <1>2
      <4> HIDE DEF rank
      <4> QED BY <4>1
    <3>3. f[j] = rank(j) /\ f[k] = rank(k)
      OBVIOUS
    <3> HIDE DEF f, rank
    <3> QED BY <3>1, <3>2, <3>3
  <2>5. N - 1 < N
    BY <1>1
  <2>6. Cardinality(T) < Cardinality(S)
    BY <2>2, <2>5
  <2>7. \E j, k \in S : j # k /\ f[j] = f[k]
    <3> HIDE DEF f, T
    <3> QED BY <2>2, <2>3, <2>6, FS_PigeonHole
  <2> QED BY <2>4, <2>7
<1> HIDE DEF N, rank
<1>6. \A k \in S : RankIn(R, S, k) = rank(k)
  BY DEF RankIn, rank
<1>7. /\ \A k \in S : RankIn(R, S, k) \in 0 .. N - 1
      /\ \A j, k \in S : <<j, k>> \in R <=> RankIn(R, S, j) < RankIn(R, S, k)
      /\ \A n \in 0 .. N - 1 : \E k \in S : RankIn(R, S, k) = n
  BY <1>2, <1>4, <1>5, <1>6
<1> QED BY <1>7 DEF N

-----------------------------------------------------------------------------
(* AttachMiddleware: what a group is given, from all that is offered.      *)

UsedOf(g, all) == {k \in DOMAIN all : all[k].target = g /\ all[k].handler}

\* A list of rows of `all`, each position of `used` once, by rising priority
\* and then by position.
RowsOf(all, used, rows) ==
    /\ Len(rows) = Cardinality(used)
    /\ \A n \in 1 .. Len(rows) :
         rows[n].order \in used /\ rows[n].priority = all[rows[n].order].priority
    /\ \A k \in used : \E n \in 1 .. Len(rows) : rows[n].order = k
    /\ \A m, n \in 1 .. Len(rows) : m < n => Before(all, rows[m].order, rows[n].order)

LEMMA UsedByRows ==
    ASSUME NEW all \in Seq(Descriptors), NEW g
    PROVE  /\ RowsOf(all, UsedOf(g, all), UsedBy(g, all))
           /\ \E T : UsedBy(g, all) \in Seq(T)
           /\ Cardinality(UsedOf(g, all)) \in Nat
<1> DEFINE S == UsedOf(g, all)
           R == {p \in S \X S : Before(all, p[1], p[2])}
           rank(k) == RankIn(R, S, k)
           N == Cardinality(S)
           at(n) == Nth(all, S, n)
           u == UsedBy(g, all)
<1>1. IsFiniteSet(S) /\ S \in SUBSET (1 .. Len(all)) /\ N \in Nat
  <2>1. S \in SUBSET (1 .. Len(all)) /\ Len(all) \in Nat
    BY DEF UsedOf
  <2>2. IsFiniteSet(1 .. Len(all))
    BY <2>1, FS_Interval
  <2>3. IsFiniteSet(S)
    <3> HIDE DEF S
    <3> QED BY <2>1, <2>2, FS_Subset
  <2> HIDE DEF S
  <2> QED BY <2>1, <2>3, FS_CardinalityType
<1>2. \A j \in S : j \in Nat /\ all[j].priority \in Int
  <2>1. \A j \in 1 .. Len(all) : all[j] \in Descriptors
    OBVIOUS
  <2>2. \A d \in Descriptors : d.priority \in Int
    BY DescriptorsAssumption
  <2> HIDE DEF S
  <2> QED BY <1>1, <2>1, <2>2
<1>3. \A j, k \in S : <<j, k>> \in R <=> Before(all, j, k)
  OBVIOUS
<1>4. Orders(R, S)
  <2> HIDE DEF R, S
  <2> QED BY <1>2, <1>3 DEF Orders, Before
<1>5. /\ \A k \in S : rank(k) \in 0 .. N - 1
      /\ \A j, k \in S : <<j, k>> \in R <=> rank(j) < rank(k)
      /\ \A n \in 0 .. N - 1 : \E k \in S : rank(k) = n
  <2> HIDE DEF R, S
  <2>1. /\ \A k \in S : RankIn(R, S, k) \in 0 .. Cardinality(S) - 1
        /\ \A j, k \in S : <<j, k>> \in R <=> RankIn(R, S, j) < RankIn(R, S, k)
        /\ \A n \in 0 .. Cardinality(S) - 1 : \E k \in S : RankIn(R, S, k) = n
    <3>1. IsFiniteSet(S)
      BY <1>1
    <3> QED BY <1>4, <3>1, Ranks
  <2> QED BY <2>1
<1>6. \A k \in S : Cardinality({j \in S : Before(all, j, k)}) = rank(k)
  <2> SUFFICES ASSUME NEW k \in S
               PROVE  Cardinality({j \in S : Before(all, j, k)}) = rank(k)
    OBVIOUS
  <2>1. {j \in S : Before(all, j, k)} = {j \in S : <<j, k>> \in R}
    <3> HIDE DEF R, S
    <3> QED BY <1>3
  <2> HIDE DEF R, S
  <2> QED BY <2>1 DEF RankIn
<1>7. ASSUME NEW n \in 1 .. N
      PROVE  at(n) \in S /\ rank(at(n)) = n - 1
  <2>1. n - 1 \in 0 .. N - 1
    <3> HIDE DEF N
    <3> QED BY <1>1
  <2>2. \E k \in S : Cardinality({j \in S : Before(all, j, k)}) = n - 1
    <3> HIDE DEF S, R, N, rank
    <3> QED BY <1>5, <1>6, <2>1
  <2>3. at(n) \in S /\ Cardinality({j \in S : Before(all, j, at(n))}) = n - 1
    <3> HIDE DEF S, N
    <3> QED BY <2>2 DEF Nth
  <2> HIDE DEF S, R, N, rank, at
  <2> QED BY <1>6, <2>3
<1>8. /\ u = [n \in 1 .. N |-> Row(all, at(n))]
  BY DEF UsedBy, UsedOf
<1>9. ASSUME NEW n \in 1 .. N
      PROVE  u[n].order = at(n) /\ u[n].priority = all[at(n)].priority
  <2> HIDE DEF N, at, u
  <2>1. u[n] = Row(all, at(n))
    BY <1>8
  <2> QED BY <2>1 DEF Row
<1>10. \E T : u \in Seq(T)
  <2> DEFINE T == {Row(all, at(n)) : n \in 1 .. N}
  <2>1. u \in [1 .. N -> T]
    <3> HIDE DEF N, at, u
    <3> QED BY <1>8
  <2>2. u \in Seq(T)
    <3> HIDE DEF T, u, N
    <3> QED BY <1>1, <2>1
  <2> HIDE DEF T, u
  <2> QED BY <2>2
<1>11. Len(u) = N
  <2>1. DOMAIN u = 1 .. N
    <3> HIDE DEF N, at, u
    <3> QED BY <1>8
  <2> HIDE DEF u, N
  <2> QED BY <1>1, <1>10, <2>1
<1>12. \A k \in S : \E n \in 1 .. N : at(n) = k
  <2> SUFFICES ASSUME NEW k \in S PROVE \E n \in 1 .. N : at(n) = k
    OBVIOUS
  <2> DEFINE n == rank(k) + 1
  <2>1. rank(k) \in 0 .. N - 1
    BY <1>5
  <2>2. n \in 1 .. N /\ n - 1 = rank(k)
    <3> HIDE DEF rank, N
    <3> QED BY <1>1, <2>1
  <2>3. at(n) \in S /\ rank(at(n)) = rank(k)
    <3> HIDE DEF S, R, N, rank, n, at
    <3> QED BY <1>7, <2>2
  <2>4. ~(rank(at(n)) < rank(k)) /\ ~(rank(k) < rank(at(n)))
    <3> HIDE DEF rank, N, n, at
    <3> QED BY <1>1, <2>1, <2>3
  <2>5. at(n) = k
    <3> HIDE DEF S, R, N, rank, n, at
    <3> QED BY <1>4, <1>5, <2>3, <2>4 DEF Orders
  <2> HIDE DEF n, N, at
  <2> QED BY <2>2, <2>5
<1>13. ASSUME NEW m \in 1 .. N, NEW n \in 1 .. N, m < n
       PROVE  Before(all, at(m), at(n))
  <2>1. m \in Nat /\ n \in Nat
    <3> HIDE DEF N
    <3> QED BY <1>1
  <2>2. /\ at(m) \in S /\ rank(at(m)) = m - 1
        /\ at(n) \in S /\ rank(at(n)) = n - 1
    <3> HIDE DEF S, R, N, rank, at
    <3> QED BY <1>7
  <2>3. rank(at(m)) < rank(at(n))
    <3> HIDE DEF S, R, N, rank, at
    <3> QED BY <1>13, <2>1, <2>2
  <2> HIDE DEF S, R, N, rank, at
  <2> QED BY <1>3, <1>5, <2>2, <2>3
<1> HIDE DEF S, N, at, u
<1>14. RowsOf(all, S, u)
  <2>1. \A n \in 1 .. N : u[n].order \in S /\ u[n].priority = all[u[n].order].priority
    BY <1>7, <1>9
  <2>2. \A k \in S : \E n \in 1 .. N : u[n].order = k
    BY <1>9, <1>12
  <2>3. \A m, n \in 1 .. N : m < n => Before(all, u[m].order, u[n].order)
    BY <1>9, <1>13
  <2>4. Len(u) = Cardinality(S)
    BY <1>11 DEF N
  <2> QED BY <1>11, <2>1, <2>2, <2>3, <2>4 DEF RowsOf
<1> QED BY <1>1, <1>10, <1>14 DEF S, N, u

LEMMA CollectedIsSeq ==
    ASSUME NEW lists, registered \in Seq(Plugins),
           lists \in [Plugins -> Lists(Descriptors, MaxDescriptors)]
    PROVE  Collected(lists) \in Seq(Descriptors)
<1> DEFINE each == [k \in 1 .. Len(registered) |-> lists[registered[k]]]
<1>1. \A l \in Lists(Descriptors, MaxDescriptors) : l \in Seq(Descriptors)
  BY BootAssumption DEF Lists
<1>2. \A k \in 1 .. Len(registered) : lists[registered[k]] \in Seq(Descriptors)
  BY <1>1
<1>3. each \in Seq(Seq(Descriptors))
  <2>1. each \in [1 .. Len(registered) -> Seq(Descriptors)] /\ Len(registered) \in Nat
    BY <1>2
  <2> HIDE DEF each
  <2> QED BY <2>1
<1>4. FlattenSeq(each) \in Seq(Descriptors)
  <2> HIDE DEF each
  <2> QED BY <1>3, FlattenIsSeq
<1> QED BY <1>4 DEF Collected

-----------------------------------------------------------------------------
(* The chains of a group and of its routes, at each stage of the server.   *)

ChainOver(used, chain) ==
    /\ chain[1] = Cors
    /\ {chain[n].order : n \in 2 .. Len(chain)} = used
    /\ Len(chain) = 1 + Cardinality(used)
    /\ \A m, n \in 2 .. Len(chain) : m < n =>
         \/ chain[m].priority < chain[n].priority
         \/ chain[m].priority = chain[n].priority /\ chain[m].order < chain[n].order

InChain(g, chain) == ChainOver(Aimed(g), chain)

Guarded == {"admin", "api"}
Chains ==
    /\ program = "server" /\ stage \in {"register", "middleware"} =>
         \A g \in Guarded : uses[g] = <<Cors>>
    /\ program = "server" /\ stage \in {"services", "routes", "serving"} =>
         \A g \in Guarded : InChain(g, uses[g])
    /\ \A r \in routes : r.group \in Guarded =>
         /\ stage \in {"routes", "serving", "failed"}
         /\ stage # "failed" => InChain(r.group, r.chain)

\* CORS and then the rows a group is given are its chain.
LEMMA RowsChain ==
    ASSUME NEW T, NEW rows \in Seq(T), NEW all, NEW g,
           Cardinality(UsedOf(g, all)) \in Nat,
           RowsOf(all, UsedOf(g, all), rows)
    PROVE  ChainOver(UsedOf(g, all), <<Cors>> \o rows)
<1> DEFINE ch == <<Cors>> \o rows
           used == UsedOf(g, all)
<1>2. /\ Len(ch) = 1 + Len(rows) /\ Len(rows) \in Nat
      /\ ch[1] = Cors
      /\ \A n \in 2 .. Len(ch) : n - 1 \in 1 .. Len(rows) /\ ch[n] = rows[n - 1]
      /\ \A n \in 1 .. Len(rows) : n + 1 \in 2 .. Len(ch) /\ ch[n + 1] = rows[n]
  OBVIOUS
<1> HIDE DEF ch, used
<1>3. RowsOf(all, used, rows) /\ Cardinality(used) \in Nat
  BY DEF used
<1>4. {ch[n].order : n \in 2 .. Len(ch)} = used
  <2>1. \A n \in 2 .. Len(ch) : ch[n].order \in used
    BY <1>2, <1>3 DEF RowsOf
  <2>2. \A k \in used : \E n \in 2 .. Len(ch) : ch[n].order = k
    BY <1>2, <1>3 DEF RowsOf
  <2> QED BY <2>1, <2>2
<1>5. Len(ch) = 1 + Cardinality(used)
  BY <1>2, <1>3 DEF RowsOf
<1>6. ASSUME NEW m \in 2 .. Len(ch), NEW n \in 2 .. Len(ch), m < n
      PROVE  \/ ch[m].priority < ch[n].priority
             \/ ch[m].priority = ch[n].priority /\ ch[m].order < ch[n].order
  <2>1. /\ m - 1 \in 1 .. Len(rows) /\ ch[m] = rows[m - 1]
        /\ n - 1 \in 1 .. Len(rows) /\ ch[n] = rows[n - 1]
        /\ m - 1 < n - 1
    BY <1>2, <1>6
  <2>2. Before(all, ch[m].order, ch[n].order)
    BY <1>3, <2>1 DEF RowsOf
  <2>3. /\ ch[m].priority = all[ch[m].order].priority
        /\ ch[n].priority = all[ch[n].order].priority
    BY <1>3, <2>1 DEF RowsOf
  <2> QED BY <2>2, <2>3 DEF Before
<1>7. ChainOver(used, ch)
  BY <1>2, <1>4, <1>5, <1>6 DEF ChainOver
<1> QED BY <1>7 DEF ch, used

LEMMA AimedKept ==
    ASSUME UNCHANGED <<registered, offered>>
    PROVE  \A g : (Aimed(g))' = Aimed(g)
BY DEF Aimed, Collected

\* A step that attaches nothing and adds no route, and does not come to the
\* plugins' turn on its own.
LEMMA ChainsPass ==
    ASSUME Chains, UNCHANGED <<program, registered, offered, uses, routes>>,
           program = "server" /\ stage' \in {"register", "middleware"}
               => stage \in {"register", "middleware"},
           program = "server" /\ stage' \in {"services", "routes", "serving"}
               => stage \in {"services", "routes", "serving"},
           stage # "failed",
           stage \in {"routes", "serving"} => stage' \in {"routes", "serving", "failed"}
    PROVE  Chains'
BY AimedKept DEF Chains, Guarded, InChain

LEMMA MakeRouterChains == ASSUME Chains, MakeRouter PROVE Chains'
<1>1. CASE /\ uses' = [g \in Groups |-> <<Cors>>]
           /\ routes' = {Route("core", "engine", <<Cors>>)}
           /\ stage' = "register"
  BY <1>1 DEF Chains, Guarded, Groups, Route
<1>2. CASE /\ stage = "router" /\ stage' = "failed" /\ UNCHANGED routes
  BY <1>2 DEF Chains
<1> QED BY <1>1, <1>2 DEF MakeRouter, Goto, Fail

LEMMA RegisterPluginsChains ==
    ASSUME BootIInv, Chains, RegisterPlugins
    PROVE  Chains'
<1>1. /\ stage = "register" /\ UNCHANGED <<program, uses, routes>>
      /\ stage' = IF program = "server" THEN "middleware" ELSE "command"
  BY DEF RegisterPlugins, Goto
<1> QED BY <1>1 DEF Chains

LEMMA AttachMiddlewareChains ==
    ASSUME BootIInv, Chains, AttachMiddleware
    PROVE  Chains'
<1>1. /\ stage = "middleware" /\ stage' = "services"
      /\ UNCHANGED <<program, registered, routes>>
      /\ offered' \in [Plugins -> Lists(Descriptors, MaxDescriptors)]
      /\ uses' = [g \in Groups |-> uses[g] \o UsedBy(g, Collected(offered'))]
  BY DEF AttachMiddleware, Goto
<1>2. program = "server" /\ registered \in Seq(Plugins)
  BY <1>1 DEF BootIInv
<1> DEFINE all == Collected(offered')
<1>3. all \in Seq(Descriptors)
  BY <1>1, <1>2, CollectedIsSeq
<1>4. all = (Collected(offered))'
  BY <1>1 DEF Collected
<1>5. ASSUME NEW g \in Guarded
      PROVE  InChain(g, uses[g])'
  <2>1. uses[g] = <<Cors>> /\ uses'[g] = uses[g] \o UsedBy(g, all)
    BY <1>1, <1>2 DEF Chains, Guarded, Groups
  <2> HIDE DEF all
  <2>2. PICK T : UsedBy(g, all) \in Seq(T)
    BY <1>3, UsedByRows
  <2>3. RowsOf(all, UsedOf(g, all), UsedBy(g, all)) /\ Cardinality(UsedOf(g, all)) \in Nat
    BY <1>3, UsedByRows
  <2> DEFINE rows == UsedBy(g, all)
             ch == <<Cors>> \o rows
             used == UsedOf(g, all)
  <2>4. ChainOver(used, ch)
    BY <2>2, <2>3, RowsChain
  <2>5. (Aimed(g))' = used
    BY <1>4 DEF Aimed, UsedOf
  <2>6. uses'[g] = ch
    BY <2>1
  <2> HIDE DEF ch, used
  <2> QED BY <2>4, <2>5, <2>6 DEF InChain
<1>6. \A r \in routes' : r.group \notin Guarded
  BY <1>1 DEF Chains
<1> QED BY <1>1, <1>5, <1>6 DEF Chains

LEMMA RegisterRoutesChains ==
    ASSUME BootIInv, Chains, RegisterRoutes
    PROVE  Chains'
<1>1. stage = "routes" /\ program = "server" /\ UNCHANGED <<program, registered, offered, uses>>
  BY DEF RegisterRoutes, BootIInv
<1>2. CASE UNCHANGED stage /\ routes' = routes \cup RoutesOf(registered[past + 1])
  <2>1. \A g \in Guarded : InChain(g, uses[g])'
    BY <1>1, AimedKept DEF Chains, InChain
  <2>2. \A r \in RoutesOf(registered[past + 1]) : r.chain = uses[r.group]
    BY DEF RoutesOf, Route
  <2>3. \A r \in routes : r.group \in Guarded => InChain(r.group, r.chain)'
    BY <1>1, AimedKept DEF Chains, InChain
  <2> QED BY <1>1, <1>2, <2>1, <2>2, <2>3 DEF Chains
<1>3. CASE stage' = "failed" /\ UNCHANGED routes
  BY <1>1, <1>3 DEF Chains
<1> QED BY <1>2, <1>3 DEF RegisterRoutes, Fail

LEMMA ChainsNext ==
    ASSUME BootIInv, Chains, [BootNext]_bootVars
    PROVE  Chains'
<1>1. CASE UNCHANGED bootVars
  BY <1>1, AimedKept DEF bootVars, Chains, InChain
<1>2. CASE OpenDB
  BY <1>2, ChainsPass DEF OpenDB, Goto, Fail
<1>3. CASE OpenStore
  BY <1>3, ChainsPass DEF OpenStore, Goto, Fail
<1>4. CASE InitKeyDB
  BY <1>4, ChainsPass DEF InitKeyDB, Goto
<1>5. CASE RegisterServices
  BY <1>5, ChainsPass DEF RegisterServices, Refused, Fail
<1>6. CASE ServicesRegistered
  BY <1>6, ChainsPass DEF ServicesRegistered, Goto
<1>7. CASE Listen
  BY <1>7, ChainsPass DEF Listen, Goto, Fail
<1>8. CASE SeedFromFile \/ SeedByServices
  BY <1>8, ChainsPass DEF SeedFromFile, SeedByServices, Goto, Fail
<1>9. CASE SeedOne \/ SeedAll
  <2>1. /\ stage = "seed" /\ stage' \in {"seed", "done", "failed"}
        /\ UNCHANGED <<program, registered, offered, uses, routes>>
    BY <1>9 DEF SeedOne, SeedAll, Goto, Fail
  <2> QED BY <2>1, ChainsPass
<1> QED BY <1>1, <1>2, <1>3, <1>4, <1>5, <1>6, <1>7, <1>8, <1>9, MakeRouterChains,
           RegisterPluginsChains, AttachMiddlewareChains, RegisterRoutesChains
        DEF BootNext

-----------------------------------------------------------------------------
(* Theorems.                                                               *)

\* The invariant holds of every reachable state.
THEOREM Invariance == Spec => []IInv
BY InitIInv, NextKeeps, PTL DEF Spec

\* No mail is ever in two places, and the worker has one at most
\* (mailer.go:79-141).
THEOREM OnePlaceEach == Spec => []OnePlace
<1>1. IInv => OnePlace BY DEF IInv
<1> QED BY <1>1, Invariance, PTL

\* However it is retried, a mail is sent MaxRetries + 1 times at most, and given
\* up only after that (mailer.go:102-141).
THEOREM SendsAreBounded == Spec => []SendsBounded
<1>1. IInv => SendsBounded
  BY DEF IInv, TypeOK, Counted, SendsBounded
<1> QED BY <1>1, Invariance, PTL

\* Without its liveness, the queue implements the service its callers see: every
\* step of it hands over, tries or ends a mail, or is hidden from them.
THEOREM Serves == Spec => Service!Spec
BY InitServes, StepServes, Invariance, PTL DEF Spec, Service!Spec

\* The invariant of the bus holds of every reachable state.
THEOREM BusInvariance == BusSpec => []BusIInv
<1>1. BusInit => BusIInv
  BY InitBusIInv
<1>2. BusIInv /\ [BusNext]_busVars => BusIInv'
  BY BusNextKeeps
<1> QED BY <1>1, <1>2, PTL DEF BusSpec

\* Whoever subscribes and unsubscribes while Publish starts its goroutines, it
\* calls only those who were subscribed when it began, each once
\* (events.go: the copy under the lock).
THEOREM BusCallsOnce == BusSpec => []CalledOnce
<1>1. BusIInv => CalledOnce
  <2>1. ToSet(<<>>) = {}
    BY DEF ToSet
  <2> QED BY <2>1 DEF BusIInv, Apart, CalledOf, CalledOnce
<1> QED BY <1>1, BusInvariance, PTL

\* A publication with no goroutine left to start or to run has called everyone
\* who was subscribed when it began, those included that have unsubscribed since:
\* what AllCalled promises, once the goroutines have been scheduled.
NobodyMissed ==
    \A e \in Publication :
        publishing[e] = <<>> /\ (\A h \in Handler : <<e, h>> \notin started) =>
            ToSet(called[e]) = subscribers[e]

\* Nobody subscribed when Publish copied the handlers is left out (events.go).
THEOREM BusMissesNobody == BusSpec => []NobodyMissed
<1>1. BusIInv => NobodyMissed
  <2> SUFFICES ASSUME BusIInv, NEW e \in Publication, publishing[e] = <<>>,
                      \A h \in Handler : <<e, h>> \notin started
               PROVE  ToSet(called[e]) = subscribers[e]
    BY DEF NobodyMissed
  <2>1. <<>> \in Seq(Handler) /\ ToSet(<<>>) = {}
    BY DEF ToSet
  <2>2. publishing[e] # None
    BY <2>1, BusAssumption
  <2>3. LeftOf(e) = {} /\ StartedOf(e) = {}
    BY <2>1, <2>2 DEF LeftOf, StartedOf
  <2> QED BY <2>2, <2>3 DEF BusIInv, Apart, CalledOf
<1> QED BY <1>1, BusInvariance, PTL

\* Unsubscribe functions called like nested defers each remove their own handler.
THEOREM BusUnsubscribesNested == BusSpec => []UnsubscribesNested
<1>1. BusIInv => UnsubscribesNested
  BY DEF BusIInv, InPlace, UnsubscribesNested, UnsubscribesOwn
<1> QED BY <1>1, BusInvariance, PTL

\* Nothing is served or seeded before every plugin has its services: wherever the
\* bootstrap stops, neither a served route nor a Seed meets a plugin without its
\* database, or on a server its store (registry.go: RegisterAllServices).
THEOREM BootServesWithServices == BootSpec => []ServesWithServices
<1>1. BootInit => BootIInv
  BY InitBoot
<1>2. BootIInv /\ [BootNext]_bootVars => BootIInv'
  BY BootNextKeeps
<1>3. BootIInv => ServesWithServices
  <2> SUFFICES ASSUME BootIInv, stage = "serving" \/ seeded # <<>>,
                      NEW p \in Range(registered)
               PROVE  deps[p] # NoDeps /\ deps[p].db /\ (stage = "serving" => deps[p].store)
    BY DEF ServesWithServices
  <2>1. PICK k \in 1 .. Len(registered) : p = registered[k]
    BY DEF BootIInv, Range
  <2>2. Served(p)
    BY <2>1 DEF BootIInv, AllServed
  <2>3. deps[p] \in Deps /\ deps[p].db = TRUE
    BY <2>2 DEF Served, Deps
  <2>4. stage = "serving" => deps[p].store = TRUE
    BY <2>2 DEF Served, BootIInv
  <2> QED BY BootAssumption, <2>3, <2>4
<1> QED BY <1>1, <1>2, <1>3, PTL DEF BootSpec

\* Every route a server serves on /admin or /api runs CORS first and then each
\* middleware a registered plugin aims at that group, once, by rising priority and
\* then in the order of registration: for any list of plugins and any middleware
\* (registry.go: AttachMiddleware before RegisterAllRoutes; SliceStable).
THEOREM BootChainsInOrder == BootSpec => []ChainsInOrder
<1>1. BootInit => BootIInv /\ Chains
  <2>1. BootInit => Chains
    BY DEF BootInit, Chains
  <2> QED BY <2>1, InitBoot
<1>2. BootIInv /\ Chains /\ [BootNext]_bootVars => BootIInv' /\ Chains'
  BY BootNextKeeps, ChainsNext
<1>3. Chains => ChainsInOrder
  <2>1. \A g : Cardinality(Aimed(g)) = Cardinality(Aimed(g))
    OBVIOUS
  <2> QED BY <2>1 DEF Chains, Guarded, InChain, ChainOver, ChainsInOrder
<1> QED BY <1>1, <1>2, <1>3, PTL DEF BootSpec
=============================================================================
