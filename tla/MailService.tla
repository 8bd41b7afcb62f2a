----------------------------- MODULE MailService -----------------------------
(***************************************************************************)
(* What the mail queue promises its callers (internal/mail/mailer.go),     *)
(* whatever it does inside: a mail that was handed over is tried at most   *)
(* Attempts times, comes to exactly one end, and stays there.              *)
(***************************************************************************)
EXTENDS Integers

CONSTANTS
    Mail,           \* the mails
    Attempts        \* the most often one is tried

VARIABLES
    state,          \* "new", "accepted" for delivery, and how it ended
    tried           \* how often each was tried

vars == <<state, tried>>

Init ==
    /\ state = [m \in Mail |-> "new"]
    /\ tried = [m \in Mail |-> 0]

Becomes(m, s) == state' = [state EXCEPT ![m] = s]
Tries(m) ==
    /\ tried[m] < Attempts
    /\ tried' = [tried EXCEPT ![m] = @ + 1]

Accept(m) == state[m] = "new" /\ Becomes(m, "accepted") /\ UNCHANGED tried

Send(m) == state[m] = "accepted" /\ Tries(m) /\ Becomes(m, "sent")

\* A failed attempt is not the last, or the mail has failed.
TryInVain(m) == state[m] = "accepted" /\ Tries(m) /\ UNCHANGED state
Fail(m) == state[m] = "accepted" /\ Tries(m) /\ Becomes(m, "failed")

\* Given up for want of room.
Drop(m) == state[m] = "accepted" /\ Becomes(m, "lost") /\ UNCHANGED tried

\* The process ends: what was not sent by then is lost.
Crash ==
    \E through \in SUBSET {m \in Mail : state[m] = "accepted" /\ tried[m] < Attempts} :
        /\ state' = [m \in Mail |-> IF m \in through THEN "sent"
                                    ELSE IF state[m] = "accepted" THEN "lost"
                                    ELSE state[m]]
        /\ tried' = [m \in Mail |-> IF m \in through THEN tried[m] + 1 ELSE tried[m]]

End(m) == Send(m) \/ Fail(m) \/ Drop(m)

Next == Crash \/ \E m \in Mail : Accept(m) \/ TryInVain(m) \/ End(m)

Spec == Init /\ [][Next]_vars
FairSpec == Spec /\ \A m \in Mail : WF_vars(End(m))
=============================================================================
