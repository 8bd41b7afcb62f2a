------------------------------- MODULE Mailer -------------------------------
(***************************************************************************)
(* The mail queue (internal/mail/mailer.go): callers put mails into a      *)
(* bounded channel, one worker goroutine sends them and puts those that    *)
(* failed back after a pause, at most three times.                         *)
(*                                                                         *)
(* Goroutines interleave at the channel operations and at the SMTP         *)
(* exchange.  The queue is in memory: what it holds dies with the process. *)
(***************************************************************************)
EXTENDS Integers, Sequences, SequencesExt

CONSTANTS
    Mail,           \* mails, each queued by one call of Queue
    Capacity,       \* of the channel: 200 in the code
    MaxRetries      \* 3 in the code

ASSUME MailerAssumption == Capacity \in Nat \ {0} /\ MaxRetries \in Nat

\* Where a mail is.  "direct": a goroutine of its own sends it once.  The rest
\* is the end of it: "accepted" by the server; reported as sent but refused by
\* the server when the message was complete ("unnoticed": the error of the
\* deferred Close is not looked at); a direct send that "failed"; "givenUp"
\* after the last retry; "dropped" at a full queue; "lost" in a restart.
Underway == {"queued", "sending", "pausing", "direct"}
Ended == {"accepted", "unnoticed", "failed", "givenUp", "dropped", "lost"}

VARIABLES
    jobQueue,       \* the channel: mails
    place,          \* where each mail is
    retries,        \* mailJob.Retries of each mail
    sends           \* calls of Send for each mail so far

vars == <<jobQueue, place, retries, sends>>

TypeOK ==
    /\ jobQueue \in Seq(Mail)
    /\ Len(jobQueue) <= Capacity
    /\ place \in [Mail -> {"new"} \cup Underway \cup Ended]
    /\ retries \in [Mail -> 0..MaxRetries]
    /\ sends \in [Mail -> Nat]

Init ==
    /\ jobQueue = <<>>
    /\ place = [m \in Mail |-> "new"]
    /\ retries = [m \in Mail |-> 0]
    /\ sends = [m \in Mail |-> 0]

HasRoom == Len(jobQueue) < Capacity
Moves(m, to) == place' = [place EXCEPT ![m] = to]

-----------------------------------------------------------------------------
\* (Mutation: the mail is sent directly as well.)
QueueAndSend(m) ==
    /\ place[m] = "new"
    /\ jobQueue' = IF HasRoom THEN Append(jobQueue, m) ELSE jobQueue
    /\ Moves(m, "direct")
    /\ UNCHANGED <<retries, sends>>

\* Queue never blocks its caller: a full channel makes it send directly.
Queue(m) ==
    /\ place[m] = "new"
    /\ \/ /\ HasRoom
          /\ jobQueue' = Append(jobQueue, m)
          /\ Moves(m, "queued")
       \/ /\ ~HasRoom
          /\ Moves(m, "direct")
          /\ UNCHANGED jobQueue
    /\ UNCHANGED <<retries, sends>>

\* The worker, idle, takes the oldest job.
Receive ==
    LET m == Head(jobQueue) IN
    /\ jobQueue # <<>>
    /\ \A n \in Mail : place[n] # "sending"
    /\ jobQueue' = Tail(jobQueue)
    /\ Moves(m, "sending")
    /\ UNCHANGED <<retries, sends>>

\* Send returned nil.
SendSucceeds(m) ==
    /\ place[m] \in {"sending", "direct"}
    /\ sends' = [sends EXCEPT ![m] = @ + 1]
    /\ \E end \in {"accepted", "unnoticed"} : Moves(m, end)
    /\ UNCHANGED <<jobQueue, retries>>

\* (Mutations: one retry too many; the retry is not counted.)
SendFailsOnceMore(m) ==
    /\ place[m] = "sending"
    /\ sends' = [sends EXCEPT ![m] = @ + 1]
    /\ \/ /\ sends[m] < MaxRetries + 1
          /\ retries' = [retries EXCEPT ![m] = IF @ < MaxRetries THEN @ + 1 ELSE @]
          /\ Moves(m, "pausing")
       \/ /\ sends[m] >= MaxRetries + 1
          /\ Moves(m, "givenUp")
          /\ UNCHANGED retries
    /\ UNCHANGED jobQueue
SendFailsForever(m) ==
    /\ place[m] = "sending"
    /\ sends' = [sends EXCEPT ![m] = IF @ <= MaxRetries THEN @ + 1 ELSE @]
    /\ Moves(m, "pausing")
    /\ UNCHANGED <<jobQueue, retries>>

\* Send returned an error to the worker: pause and retry, or give up.
SendFails(m) ==
    /\ place[m] = "sending"
    /\ sends' = [sends EXCEPT ![m] = @ + 1]
    /\ \/ /\ retries[m] < MaxRetries
          /\ retries' = [retries EXCEPT ![m] = @ + 1]
          /\ Moves(m, "pausing")
       \/ /\ retries[m] >= MaxRetries
          /\ Moves(m, "givenUp")
          /\ UNCHANGED retries
    /\ UNCHANGED jobQueue

\* A direct send is not retried.
DirectSendFails(m) ==
    /\ place[m] = "direct"
    /\ sends' = [sends EXCEPT ![m] = @ + 1]
    /\ Moves(m, "failed")
    /\ UNCHANGED <<jobQueue, retries>>

\* (Mutation: the job is put back twice when there is room for it.)
RequeueTwice(m) ==
    /\ place[m] = "pausing"
    /\ IF HasRoom
       THEN /\ jobQueue' = IF Len(jobQueue) + 1 < Capacity THEN jobQueue \o <<m, m>>
                                                          ELSE Append(jobQueue, m)
            /\ Moves(m, "queued")
       ELSE /\ Moves(m, "dropped")
            /\ UNCHANGED jobQueue
    /\ UNCHANGED <<retries, sends>>

\* The goroutine that slept puts the job back, or drops it when there is no room.
Requeue(m) ==
    /\ place[m] = "pausing"
    /\ \/ /\ HasRoom
          /\ jobQueue' = Append(jobQueue, m)
          /\ Moves(m, "queued")
       \/ /\ ~HasRoom
          /\ Moves(m, "dropped")
          /\ UNCHANGED jobQueue
    /\ UNCHANGED <<retries, sends>>

\* The process ends and starts again: a mail being sent may have got through.
Restart ==
    /\ \E m \in Mail : place[m] \in Underway
    /\ jobQueue' = <<>>
    /\ \E through \in SUBSET {m \in Mail : place[m] \in {"sending", "direct"}} :
          /\ place' = [m \in Mail |-> IF m \in through THEN "accepted"
                                      ELSE IF place[m] \in Underway THEN "lost"
                                      ELSE place[m]]
          /\ sends' = [m \in Mail |-> IF m \in through THEN sends[m] + 1 ELSE sends[m]]
    /\ UNCHANGED retries

-----------------------------------------------------------------------------
Sending(m) == SendSucceeds(m) \/ SendFails(m) \/ DirectSendFails(m)

Next ==
    \/ Receive
    \/ Restart
    \/ \E m \in Mail : Queue(m) \/ Sending(m) \/ Requeue(m)

Spec == Init /\ [][Next]_vars

\* Goroutines run on, a pause ends, and an SMTP exchange is answered or fails.
\* (The code sets no deadline for that: the last is a promise of the server
\* and the network.)  No caller has to queue anything.
FairSpec ==
    /\ Spec
    /\ WF_vars(Receive)
    /\ \A m \in Mail : WF_vars(Sending(m)) /\ WF_vars(Requeue(m))

-----------------------------------------------------------------------------
(* Properties.                                                             *)

\* Through retries, a full channel and the direct path no mail is ever in two
\* places: the channel holds exactly the mails that are queued, each once, and
\* the one worker has at most one mail.
OnePlace ==
    /\ ToSet(jobQueue) = {m \in Mail : place[m] = "queued"}
    /\ IsInjective(jobQueue)
    /\ \A m, n \in Mail : place[m] = "sending" /\ place[n] = "sending" => m = n

\* A mail is sent at most once more than it is retried, and given up only after
\* every retry was used; a direct send is the only one of its mail.
SendsBounded ==
    \A m \in Mail :
        /\ sends[m] <= retries[m] + 1
        /\ sends[m] <= MaxRetries + 1
        /\ place[m] = "givenUp" => sends[m] = MaxRetries + 1
        /\ place[m] \in {"direct", "failed"} => sends[m] <= 1 /\ retries[m] = 0

\* Seen from its callers the queue is the service MailService describes, and as
\* lively: a mail that was taken is tried MaxRetries + 1 times at most, comes to
\* one end, also while others fail and the channel is full, and is never sent
\* or moved again after that.
Outcome(p) ==
    CASE p = "new" -> "new"
      [] p \in Underway -> "accepted"
      [] p \in {"accepted", "unnoticed"} -> "sent"
      [] p \in {"failed", "givenUp"} -> "failed"
      [] p \in {"dropped", "lost"} -> "lost"
Service == INSTANCE MailService
             WITH Attempts <- MaxRetries + 1,
                  state <- [m \in Mail |-> Outcome(place[m])],
                  tried <- sends
ServesMail == Service!FairSpec

=============================================================================
