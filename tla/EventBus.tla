------------------------------ MODULE EventBus ------------------------------
(***************************************************************************)
(* The event bus (internal/events/events.go), for one event: the handlers  *)
(* of different events are separate entries of the map.                    *)
(*                                                                         *)
(* Subscribe, unsubscribe and the copy that Publish makes run under the    *)
(* bus's mutex, each in one step.  Publish then starts a goroutine for     *)
(* each handler of its copy, one after the other, while others subscribe   *)
(* and unsubscribe; the goroutines run in any order.                       *)
(***************************************************************************)
EXTENDS Integers, Sequences, SequencesExt

CONSTANTS
    Handler,        \* handlers, each subscribed once
    Publication,    \* calls of Publish
    None            \* no index yet

ASSUME BusAssumption == None \notin Nat /\ None \notin Seq(Handler)

VARIABLES
    handlers,       \* the bus's slice for the event
    index,          \* the position each unsubscribe function has captured
    publishing,     \* what each Publish has left to start; None before it begins
    started,        \* goroutines that have not called their handler yet
    called,         \* the handlers called, per publication, in order
    subscribers,    \* history: who was subscribed when each Publish began
    dismissed,      \* history: handlers whose unsubscribe function was called
    nested          \* history: each was called once, newest subscription first

busVars == <<handlers, index, publishing, started, called, subscribers, dismissed, nested>>

Subscribed == {h \in Handler : index[h] # None}

BusTypeOK ==
    /\ handlers \in Seq(Handler)
    /\ index \in [Handler -> (Nat \ {0}) \cup {None}]
    /\ publishing \in [Publication -> Seq(Handler) \cup {None}]
    /\ started \subseteq Publication \X Handler
    /\ called \in [Publication -> Seq(Handler)]
    /\ subscribers \in [Publication -> SUBSET Handler]
    /\ dismissed \subseteq Subscribed
    /\ nested \in BOOLEAN

BusInit ==
    /\ handlers = <<>>
    /\ index = [h \in Handler |-> None]
    /\ publishing = [e \in Publication |-> None]
    /\ started = {}
    /\ called = [e \in Publication |-> <<>>]
    /\ subscribers = [e \in Publication |-> {}]
    /\ dismissed = {}
    /\ nested = TRUE

-----------------------------------------------------------------------------
\* (Mutation: the index is taken before the handler is appended.)
SubscribeIndexFirst(h) ==
    /\ h \notin Subscribed
    /\ index' = [index EXCEPT ![h] = Len(handlers)]
    /\ handlers' = Append(handlers, h)
    /\ UNCHANGED <<publishing, started, called, subscribers, dismissed, nested>>

\* Subscribe; positions count from 1 here.
Subscribe(h) ==
    /\ h \notin Subscribed
    /\ handlers' = Append(handlers, h)
    /\ index' = [index EXCEPT ![h] = Len(handlers) + 1]
    /\ UNCHANGED <<publishing, started, called, subscribers, dismissed, nested>>

\* The function Subscribe returned for h, called any number of times: it removes
\* what is at the captured position now, if there is such a position.
Unsubscribe(h) ==
    /\ h \in Subscribed
    /\ handlers' = IF index[h] \in 1..Len(handlers) THEN RemoveAt(handlers, index[h])
                                                   ELSE handlers
    /\ dismissed' = dismissed \cup {h}
    /\ nested' = /\ nested
                 /\ h \notin dismissed
                 /\ \A g \in Subscribed \ dismissed : index[g] <= index[h]
    /\ UNCHANGED <<index, publishing, started, called, subscribers>>

\* Publish copies the handlers.
Publish(e) ==
    /\ publishing[e] = None
    /\ publishing' = [publishing EXCEPT ![e] = handlers]
    /\ subscribers' = [subscribers EXCEPT ![e] = ToSet(handlers)]
    /\ UNCHANGED <<handlers, index, started, called, dismissed, nested>>

\* (Mutations: what has been started is not gone from what is left; the handlers
\* are not copied, the loop runs over the bus's own slice.)
StartAgain(e) ==
    /\ publishing[e] \notin {None, <<>>}
    /\ started' = started \cup {<<e, Head(publishing[e])>>}
    /\ UNCHANGED <<handlers, index, publishing, called, subscribers, dismissed, nested>>
StartUncopied(e) ==
    LET left == SelectSeq(publishing[e], LAMBDA h : h \in ToSet(handlers)) IN
    /\ publishing[e] \notin {None, <<>>}
    /\ started' = IF left = <<>> THEN started ELSE started \cup {<<e, Head(left)>>}
    /\ publishing' = [publishing EXCEPT ![e] = IF left = <<>> THEN left ELSE Tail(left)]
    /\ UNCHANGED <<handlers, index, called, subscribers, dismissed, nested>>

\* It starts the goroutine of the next handler of its copy.
Start(e) ==
    /\ publishing[e] \notin {None, <<>>}
    /\ started' = started \cup {<<e, Head(publishing[e])>>}
    /\ publishing' = [publishing EXCEPT ![e] = Tail(@)]
    /\ UNCHANGED <<handlers, index, called, subscribers, dismissed, nested>>

\* The goroutine calls the handler.
Call(e, h) ==
    /\ <<e, h>> \in started
    /\ started' = started \ {<<e, h>>}
    /\ called' = [called EXCEPT ![e] = Append(@, h)]
    /\ UNCHANGED <<handlers, index, publishing, subscribers, dismissed, nested>>

BusNext ==
    \/ \E h \in Handler : Subscribe(h) \/ Unsubscribe(h)
    \/ \E e \in Publication : Publish(e) \/ Start(e) \/ \E h \in Handler : Call(e, h)

BusSpec == BusInit /\ [][BusNext]_busVars

\* A Publish that has begun goes on, and its goroutines are scheduled.
BusFairSpec ==
    /\ BusSpec
    /\ \A e \in Publication : WF_busVars(Start(e))
                              /\ \A h \in Handler : WF_busVars(Call(e, h))

-----------------------------------------------------------------------------
(* Properties.                                                             *)

\* Whoever subscribes and unsubscribes while Publish is starting goroutines: it
\* calls nobody but the handlers subscribed when it began, and each only once.
CalledOnce ==
    \A e \in Publication :
        /\ IsInjective(called[e])
        /\ ToSet(called[e]) \subseteq subscribers[e]

\* And all of them, also those that unsubscribe in the meantime.
AllCalled ==
    \A e \in Publication, h \in Handler :
        h \in subscribers[e] ~> h \in ToSet(called[e])

\* The comment on Subscribe says that it returns an unsubscribe function: the
\* bus has the handlers that were subscribed and not unsubscribed, each once.
UnsubscribesOwn ==
    /\ ToSet(handlers) = Subscribed \ dismissed
    /\ IsInjective(handlers)

\* That is so as long as the functions are called like nested defers: each once,
\* the newest subscription first.
UnsubscribesNested == nested => UnsubscribesOwn

=============================================================================
