------------------------------ MODULE ReplyWait ------------------------------
(***************************************************************************)
(* Waiting for replies, pkg/replywait: a call registers a waiter under its *)
(* correlation id, publishes its request and waits; a listener resolves    *)
(* the waiter registered for the id of a reply; Drain lets waiters finish, *)
(* fails those that remain and stops the listener.                         *)
(*                                                                         *)
(* A waiter is named by its call.  What happens under the lock of the      *)
(* registry is one step; between taking a waiter out of the registry and   *)
(* sending to one of its channels, which hold one value each, anything may *)
(* happen.                                                                 *)
(***************************************************************************)
EXTENDS Naturals

CONSTANTS Calls,       \* calls of Request
          Ids,         \* correlation ids
          IdOf,        \* call -> its id; a client that tries again uses the same
          Drainers,    \* goroutines that call Drain
          None,
          MaxReplies   \* bound: replies that reach the listener

ASSUME Calling ==
  /\ IdOf \in [Calls -> Ids]
  /\ None \notin Calls
  /\ MaxReplies \in Nat

VARIABLES entries,   \* id -> the call whose waiter is registered, or None
          call,      \* call -> where it is, or how it ended
          result,    \* calls with a message in their channel
          fail,      \* calls with an error in their channel
          resolving, \* the call the listener is about to send to, or None
          listening, \* does the listener get messages?
          asked,     \* ids of which a request was published
          answers,   \* replies handled so far
          draining,
          drained,
          drainErr,  \* the error of the last Drain that returned
          drain,     \* drainer -> where its call of Drain is, and that error
          todo,      \* drainer -> the waiters it took and has not failed yet
          late,      \* history: calls that registered when a Drain had failed the others
          robbed     \* history: calls whose waiter another call has removed

channels == <<result, fail>>
listener == <<resolving, listening>>
service == <<asked, answers>>
drains == <<draining, drained, drainErr, drain, todo>>
history == <<late, robbed>>
vars == <<entries, call, channels, listener, service, drains, history>>

Ended == {"refused", "duplicate", "replied", "drained", "timedout", "unpublished"}
Goto(c, s) == call' = [call EXCEPT ![c] = s]
DrainGoto(d, s) == drain' = [drain EXCEPT ![d].step = s]
NoError == "nil"
ErrDrained == "drained"
NoEntries == [i \in Ids |-> None]

-----------------------------------------------------------------------------
(* Request *)

\* Register looks at draining first, in a critical section of its own.
Check(c) ==
  /\ call[c] = "new"
  /\ Goto(c, IF draining THEN "refused" ELSE "checked")
  /\ UNCHANGED <<entries, channels, listener, service, drains, history>>

\* Has a Drain taken the waiters it found?
FailedAll == drained \/ \E d \in Drainers : drain[d].step \in {"failing", "stopped"}

Register(c) ==
  /\ call[c] = "checked"
  /\ IF entries[IdOf[c]] = None
     THEN /\ entries' = [entries EXCEPT ![IdOf[c]] = c]
          /\ late' = IF FailedAll THEN late \cup {c} ELSE late
          /\ Goto(c, "publishing")
     ELSE Goto(c, "duplicate") /\ UNCHANGED <<entries, late>>
  /\ UNCHANGED <<channels, listener, service, drains, robbed>>

Publish(c) ==
  /\ call[c] = "publishing"
  /\ asked' = asked \cup {IdOf[c]}
  /\ Goto(c, "waiting")
  /\ UNCHANGED <<entries, channels, listener, answers, drains, history>>

\* The publish returns an error, its request may be out all the same.
PublishFails(c) ==
  /\ call[c] = "publishing"
  /\ asked' \in {asked, asked \cup {IdOf[c]}}
  /\ Goto(c, "cancelling")
  /\ UNCHANGED <<entries, channels, listener, answers, drains, history>>

\* The select of Wait: whatever is ready, in no order.
TakeResult(c) ==
  /\ call[c] = "waiting" /\ c \in result
  /\ result' = result \ {c}
  /\ Goto(c, "replied")
  /\ UNCHANGED <<entries, fail, listener, service, drains, history>>

TakeFailure(c) ==
  /\ call[c] = "waiting" /\ c \in fail
  /\ fail' = fail \ {c}
  /\ Goto(c, "drained")
  /\ UNCHANGED <<entries, result, listener, service, drains, history>>

GiveUp(c) ==
  /\ call[c] = "waiting"
  /\ Goto(c, "leaving")
  /\ UNCHANGED <<entries, channels, listener, service, drains, history>>

\* remove goes by the id: the waiter registered for it may be another call's.
Remove(c) ==
  /\ call[c] \in {"leaving", "cancelling"}
  /\ entries' = [entries EXCEPT ![IdOf[c]] = None]
  /\ robbed' = robbed \cup ({entries[IdOf[c]]} \ {c, None})
  /\ Goto(c, IF call[c] = "leaving" THEN "timedout" ELSE "unpublished")
  /\ UNCHANGED <<channels, listener, service, drains, late>>

-----------------------------------------------------------------------------
(* The other service, and the listener *)

\* Does a reply for the id reach the listener?  A request may be answered more
\* than once, and late.
Reply(i) ==
  /\ listening /\ resolving = None
  /\ i \in asked /\ answers < MaxReplies
  /\ answers' = answers + 1

\* Variant: the waiter stays registered while it is sent to.
ResolveKeeps(i) ==
  /\ Reply(i)
  /\ resolving' = entries[i]
  /\ UNCHANGED <<entries, call, channels, listening, asked, drains, history>>

\* The listener handles one message after the other; a late reply is dropped.
Resolve(i) ==
  /\ Reply(i)
  /\ resolving' = entries[i]
  /\ entries' = [entries EXCEPT ![i] = None]
  /\ UNCHANGED <<call, channels, listening, asked, drains, history>>

SendResult ==
  /\ resolving # None /\ resolving \notin result
  /\ result' = result \cup {resolving}
  /\ resolving' = None
  /\ UNCHANGED <<entries, call, fail, listening, service, drains, history>>

-----------------------------------------------------------------------------
(* Drain *)

BeginDrain ==
  /\ ~draining
  /\ draining' = TRUE
  /\ UNCHANGED <<entries, call, channels, listener, service, drained, drainErr, drain, todo, history>>

\* A Drain that comes after another one has returned returns the same.
Drain(d) ==
  /\ drain[d].step \in {"idle", "returned"}
  /\ IF drained THEN drain' = [drain EXCEPT ![d] = [step |-> "returned", err |-> drainErr]]
                     /\ UNCHANGED draining
                ELSE DrainGoto(d, "polling") /\ draining' = TRUE
  /\ UNCHANGED <<entries, call, channels, listener, service, drained, drainErr, todo, history>>

\* No waiter is left, or the time is up; new ones may register meanwhile.
Polled(d) ==
  /\ drain[d].step = "polling"
  /\ \/ entries = NoEntries /\ DrainGoto(d, "polled")
     \/ drain' = [drain EXCEPT ![d] = [step |-> "polled", err |-> ErrDrained]]
  /\ UNCHANGED <<entries, call, channels, listener, service, draining, drained, drainErr, todo, history>>

Waiters == {c \in Calls : entries[IdOf[c]] = c}

\* Variant: only waiters that have published their request are failed.
FailAllPublished(d) ==
  /\ drain[d].step = "polled"
  /\ todo' = [todo EXCEPT ![d] = {c \in Waiters : call[c] = "waiting"}]
  /\ entries' = NoEntries
  /\ DrainGoto(d, "failing")
  /\ UNCHANGED <<call, channels, listener, service, draining, drained, drainErr, history>>

FailAll(d) ==
  /\ drain[d].step = "polled"
  /\ todo' = [todo EXCEPT ![d] = Waiters]
  /\ entries' = NoEntries
  /\ DrainGoto(d, "failing")
  /\ UNCHANGED <<call, channels, listener, service, draining, drained, drainErr, history>>

\* Variant: the channel has no buffer.
SendFailureUnbuffered(d, c) ==
  /\ drain[d].step = "failing" /\ c \in todo[d]
  /\ call[c] = "waiting" /\ c \notin fail
  /\ fail' = fail \cup {c}
  /\ todo' = [todo EXCEPT ![d] = @ \ {c}]
  /\ UNCHANGED <<entries, call, result, listener, service, draining, drained, drainErr, drain, history>>

SendFailure(d, c) ==
  /\ drain[d].step = "failing" /\ c \in todo[d] /\ c \notin fail
  /\ fail' = fail \cup {c}
  /\ todo' = [todo EXCEPT ![d] = @ \ {c}]
  /\ UNCHANGED <<entries, call, result, listener, service, draining, drained, drainErr, drain, history>>

\* Stop lets the handler of a message finish.
StopListener(d) ==
  /\ drain[d].step = "failing" /\ todo[d] = {}
  /\ listening' = FALSE
  /\ DrainGoto(d, "stopped")
  /\ UNCHANGED <<entries, call, channels, resolving, service, draining, drained, drainErr, todo, history>>

Drained(d) ==
  /\ drain[d].step = "stopped"
  /\ drained' = TRUE /\ drainErr' = drain[d].err
  /\ DrainGoto(d, "returned")
  /\ UNCHANGED <<entries, call, channels, listener, service, draining, todo, history>>

Init ==
  /\ entries = NoEntries
  /\ call = [c \in Calls |-> "new"]
  /\ result = {}
  /\ fail = {}
  /\ resolving = None /\ listening = TRUE
  /\ asked = {} /\ answers = 0
  /\ draining = FALSE /\ drained = FALSE /\ drainErr = NoError
  /\ drain = [d \in Drainers |-> [step |-> "idle", err |-> NoError]]
  /\ todo = [d \in Drainers |-> {}]
  /\ late = {} /\ robbed = {}

Requesting(c) == \/ Check(c) \/ Register(c) \/ Publish(c) \/ PublishFails(c)
                 \/ TakeResult(c) \/ TakeFailure(c) \/ GiveUp(c) \/ Remove(c)
Draining(d) == \/ Drain(d) \/ Polled(d) \/ FailAll(d)
               \/ \E c \in Calls : SendFailure(d, c)
               \/ StopListener(d) \/ Drained(d)

Next ==
  \/ \E c \in Calls : Requesting(c)
  \/ \E i \in Ids : Resolve(i)
  \/ SendResult
  \/ BeginDrain
  \/ \E d \in Drainers : Draining(d)

Spec == Init /\ [][Next]_vars

-----------------------------------------------------------------------------
(* Properties *)

TypeOK ==
  /\ entries \in [Ids -> Calls \cup {None}]
  /\ call \in [Calls -> Ended \cup {"new", "checked", "publishing", "waiting",
                                    "leaving", "cancelling"}]
  /\ result \subseteq Calls /\ fail \subseteq Calls
  /\ resolving \in Calls \cup {None} /\ listening \in BOOLEAN
  /\ asked \subseteq Ids /\ answers \in Nat
  /\ draining \in BOOLEAN /\ drained \in BOOLEAN /\ drainErr \in {NoError, ErrDrained}
  /\ drain \in [Drainers -> [step : {"idle", "polling", "polled", "failing", "stopped",
                                     "returned"}, err : {NoError, ErrDrained}]]
  /\ todo \in [Drainers -> SUBSET Calls]
  /\ late \subseteq Calls /\ robbed \subseteq Calls

Registered(c) == entries[IdOf[c]] = c
Failing(c) == \E d \in Drainers : c \in todo[d]
Told(c) == c \in result \/ c \in fail \/ call[c] \in {"replied", "drained"}

\* A waiter is in the registry, in the hands of the listener or of one Drain, or
\* was told, once; never in two of these places.
OneOwner ==
  /\ \A i \in Ids : entries[i] # None => IdOf[entries[i]] = i
  /\ \A c \in Calls :
       /\ Registered(c) => resolving # c /\ ~Failing(c) /\ ~Told(c)
       /\ resolving = c => ~Failing(c) /\ ~Told(c)
       /\ Failing(c) => ~Told(c)
       /\ c \in result => c \notin fail
       /\ call[c] \in {"replied", "drained"} => c \notin result /\ c \notin fail
       /\ \A d, e \in Drainers : c \in todo[d] /\ c \in todo[e] => d = e

\* A call that has not registered, or has ended, has no waiter left in the
\* registry: its id is free again (registry.go, remove).
NoLeftovers ==
  \A c \in Calls :
    /\ call[c] \in Ended \cup {"new", "checked"} => ~Registered(c)
    /\ call[c] \in {"new", "checked", "refused", "duplicate"} =>
         resolving # c /\ ~Failing(c) /\ ~Told(c)

\* Neither the listener nor Drain ever blocks on the channel of a waiter, which
\* has room for one value (registry.go, resolve and failAll): one reply more, or
\* a caller that is gone, holds up nobody else's.
NeverBlocks ==
  /\ resolving # None => resolving \notin result
  /\ \A d \in Drainers : \A c \in todo[d] : c \notin fail

\* Has the waiter a value in its channel, or is somebody about to send one?
Informed(c) == resolving = c \/ Failing(c) \/ c \in result \/ c \in fail

\* A call that has not ended is registered or informed, unless another of its id
\* removed its waiter.  That takes one that gave up when it was informed already: then
\* the id was free for a new call before the old one took it off (registry.go, remove).
Tracked ==
  \A c \in Calls :
    /\ call[c] \in {"publishing", "waiting", "leaving", "cancelling"} /\ c \notin robbed
         => Registered(c) \/ Informed(c)
    /\ c \in robbed =>
         \E d \in Calls \ {c} :
           IdOf[d] = IdOf[c] /\ call[d] \in {"timedout", "unpublished"} /\ Informed(d)

\* Why DrainEndsAll is inductive: Drain leaves nobody it took out unfailed, and
\* past them finds only late ones registered.
LateOnly ==
  /\ \A d \in Drainers : drain[d].step # "failing" => todo[d] = {}
  /\ drained \/ (\E d \in Drainers : drain[d].step \notin {"idle", "returned"}) => draining
  /\ FailedAll => \A c \in Calls : Registered(c) => c \in late

IInv == TypeOK /\ OneOwner /\ NoLeftovers /\ Tracked /\ LateOnly

\* Once Drain has returned every call that still waits has its reply or its
\* error, or gets it at once (README, Draining).  Not those that were removed by
\* another, nor those that registered when Drain had failed the others: Register
\* looks at draining before, not while, it registers.
DrainEndsAll ==
  drained => \A c \in Calls :
    call[c] \in {"publishing", "waiting"} /\ c \notin late \cup robbed => Informed(c)

\* Goroutines are scheduled and the deadline of Drain passes; callers may take
\* all the time they like.
Fairness ==
  /\ WF_vars(SendResult)
  /\ \A d \in Drainers :
       WF_vars(Polled(d) \/ FailAll(d) \/ (\E c \in Calls : SendFailure(d, c))
               \/ StopListener(d) \/ Drained(d))

FairSpec == Spec /\ Fairness

\* Drain returns, whatever the callers do meanwhile.
DrainReturns ==
  \A d \in Drainers : drain[d].step = "polling" ~> drain[d].step = "returned"
=============================================================================
