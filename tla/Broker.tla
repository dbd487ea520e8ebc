------------------------------- MODULE Broker -------------------------------
(***************************************************************************)
(* The RabbitMQ connection of the service and the events published over it *)
(* (infra/rabbit.go, event/multi.go, event/http.go, event/rabbit.go).      *)
(*                                                                         *)
(* One monitor goroutine reconnects; it holds connMu from the first dial   *)
(* to the last, backoffs included.  Each connection has a goroutine that   *)
(* waits for its end and triggers the monitor.  A call publishes to the    *)
(* HTTP endpoint, then to RabbitMQ with confirmation and retries.          *)
(*                                                                         *)
(* Times are choices: a timer fires when it likes, a context expires when  *)
(* somebody looks at it.                                                   *)
(***************************************************************************)
EXTENDS Naturals, FiniteSets

CONSTANTS
    Calls,         \* calls of EventPublisher.Publish
    Limits,        \* the values of ReconnectMaxAttempts, 0 is no limit
    MaxRetries,    \* how often PublishWithConfirm tries
    MaxOutages     \* bound: how often the connection breaks

ASSUME BrokerAssumption ==
    /\ Limits \subseteq Nat
    /\ MaxRetries \in Nat \ {0}
    /\ MaxOutages \in Nat

VARIABLES
    limit,         \* ReconnectMaxAttempts
    up,            \* does the broker accept connections?
    outages,       \* how often it may still fail
    conn,          \* r.conn: "none", "open", "silent" (broken, but not noticed), "closed"
    watch,         \* waitForClose of r.conn: "starting", "watching", "gone"
    notices,       \* goroutines of waitForClose that are about to trigger
    reconnect,     \* does reconnectChan, of capacity 1, hold a trigger?
    monitor,       \* "idle", "dialing" and "backoff" (both hold connMu), "done"
    dials,         \* failed attempts of this connect, at most the limit
    unheard,       \* "no", or why nobody heard of the end of r.conn
    closed,        \* r.closed, and the context of the monitor is cancelled
    call,          \* the calls of Publish
    copies,        \* copies[c][b]: how often backend b received the event of c
    outcome        \* outcome[c]: what Publish returned, "none" before

connVars == <<limit, up, outages, conn, watch, notices, reconnect, monitor, dials, unheard>>
brokerVars == <<connVars, closed, call, copies, outcome>>

Backends == {"http", "rabbit"}

\* A call: where it stands, its attempts so far, and the channel of this attempt
\* ("stuck" on a silent connection, "dead" on a closed one, or when the message
\* is lost).
Idle == [at |-> "idle", tries |-> 0, ch |-> "none"]

Returned == [Idle EXCEPT !.at = "returned"]

NewConnection ==
    /\ limit \in Limits
    /\ up \in BOOLEAN
    /\ outages = MaxOutages
    /\ conn = "none"
    /\ watch = "gone"
    /\ notices = 0
    /\ reconnect = FALSE
    /\ monitor = "dialing"
    /\ dials = 0
    /\ unheard = "no"

BrokerInit ==
    /\ NewConnection
    /\ closed = FALSE
    /\ call = [c \in Calls |-> Idle]
    /\ copies = [c \in Calls |-> [b \in Backends |-> 0]]
    /\ outcome = [c \in Calls |-> "none"]

\* What becomes of the open channels when the connection does; for a call that
\* awaits its confirmation a channel that is stuck is as good as dead.
Channels(state) ==
    [c \in Calls |-> [call[c] EXCEPT !.ch =
        IF @ \notin {"live", "stuck"} THEN @
        ELSE IF call[c].at = "await" THEN "dead" ELSE state]]

Locked == monitor \in {"dialing", "backoff"}

-----------------------------------------------------------------------------
\* The broker and the network.

Break ==
    /\ outages > 0
    /\ outages' = outages - 1
    /\ \/ up /\ up' = FALSE
       \/ conn = "open" /\ up' = up
    /\ conn' = IF conn = "open" THEN "silent" ELSE conn
    /\ call' = Channels("stuck")
    /\ UNCHANGED <<limit, watch, notices, reconnect, monitor, dials, unheard, closed, copies, outcome>>

Return ==
    /\ ~up
    /\ up' = TRUE
    /\ UNCHANGED <<limit, outages, conn, watch, notices, reconnect, monitor, dials, unheard, closed,
                   call, copies, outcome>>

\* The library notices the break (heartbeat, read error) and closes the
\* connection, its channels, and the listeners that are registered by now.
Notice ==
    /\ conn = "silent"
    /\ conn' = "closed"
    /\ call' = Channels("dead")
    /\ IF watch = "watching"
          THEN watch' = "gone" /\ notices' = notices + 1
          ELSE UNCHANGED <<watch, notices>>
    /\ UNCHANGED <<limit, up, outages, reconnect, monitor, dials, unheard, closed, copies, outcome>>

-----------------------------------------------------------------------------
\* waitForClose: NotifyClose on a connection that is closed by now gets nil,
\* which triggers nothing.

Register ==
    /\ watch = "starting"
    /\ IF conn = "closed"
          THEN watch' = "gone" /\ unheard' = "early"
          ELSE watch' = "watching" /\ UNCHANGED unheard
    /\ UNCHANGED <<limit, up, outages, conn, notices, reconnect, monitor, dials, closed, call, copies, outcome>>

Trigger ==
    /\ notices > 0
    /\ notices' = notices - 1
    /\ reconnect' = TRUE
    /\ UNCHANGED <<limit, up, outages, conn, watch, monitor, dials, unheard, closed, call, copies, outcome>>

-----------------------------------------------------------------------------
\* monitorConnection and connect.

\* The select of the monitor: a trigger, or the end.  With both it takes either.
Wake ==
    /\ monitor = "idle"
    /\ reconnect
    /\ reconnect' = FALSE
    /\ monitor' = "dialing"
    /\ dials' = 0
    /\ UNCHANGED <<limit, up, outages, conn, watch, notices, unheard, closed, call, copies, outcome>>

\* A slip: looks at the cancelled context after a trigger only.
LeaveWhenTriggered ==
    /\ monitor = "idle"
    /\ closed
    /\ reconnect
    /\ monitor' = "done"
    /\ UNCHANGED <<limit, up, outages, conn, watch, notices, reconnect, dials, unheard, closed, call, copies, outcome>>

Leave ==
    /\ monitor = "idle"
    /\ closed
    /\ monitor' = "done"
    /\ UNCHANGED <<limit, up, outages, conn, watch, notices, reconnect, dials, unheard, closed, call, copies, outcome>>

\* A slip: does not start waitForClose.
ConnectedUnwatched ==
    /\ monitor = "dialing"
    /\ up
    /\ conn' = "open"
    /\ watch' = "gone"
    /\ call' = Channels("dead")
    /\ monitor' = "idle"
    /\ unheard' = "no"
    /\ UNCHANGED <<limit, up, outages, notices, reconnect, dials, closed, copies, outcome>>

\* The connection there was is closed, healthy or not, and its listener gets nil.
Connected ==
    /\ monitor = "dialing"
    /\ up
    /\ conn' = "open"
    /\ watch' = "starting"
    /\ call' = Channels("dead")
    /\ monitor' = "idle"
    /\ unheard' = "no"
    /\ UNCHANGED <<limit, up, outages, notices, reconnect, dials, closed, copies, outcome>>

\* A slip: one attempt more than the limit.
DialFailsOnceMore ==
    /\ monitor = "dialing"
    /\ ~up
    /\ dials' = IF limit = 0 THEN 0 ELSE dials + 1
    /\ IF limit > 0 /\ dials = limit
          THEN monitor' = "idle" /\ unheard' = "exhausted"
          ELSE monitor' = "backoff" /\ UNCHANGED unheard
    /\ UNCHANGED <<limit, up, outages, conn, watch, notices, reconnect, closed, call, copies, outcome>>

DialFails ==
    /\ monitor = "dialing"
    /\ ~up
    /\ dials' = IF limit = 0 THEN 0 ELSE dials + 1
    /\ IF limit > 0 /\ dials + 1 = limit
          THEN monitor' = "idle" /\ unheard' = "exhausted"
          ELSE monitor' = "backoff" /\ UNCHANGED unheard
    /\ UNCHANGED <<limit, up, outages, conn, watch, notices, reconnect, closed, call, copies, outcome>>

BackoffEnds ==
    /\ monitor = "backoff"
    /\ monitor' = "dialing"
    /\ UNCHANGED <<limit, up, outages, conn, watch, notices, reconnect, dials, unheard, closed, call, copies, outcome>>

\* A slip: a backoff that only sleeps.
BackoffSleeps ==
    /\ FALSE
    /\ UNCHANGED <<connVars, closed, call, copies, outcome>>

BackoffCancelled ==
    /\ monitor = "backoff"
    /\ closed
    /\ monitor' = "idle"
    /\ UNCHANGED <<limit, up, outages, conn, watch, notices, reconnect, dials, unheard, closed, call, copies, outcome>>

-----------------------------------------------------------------------------
\* MultiEventPublisher.Publish, HTTPPublisher.Publish, RabbitmqPublisher.Publish.

\* The endpoint takes the event, or the answer is an error.  (An event it took
\* although the answer was lost is not counted.)  Then Rabbit.closed is read.
Publish(c) ==
    /\ call[c].at = "publish"
    /\ copies' \in {copies, [copies EXCEPT ![c]["http"] = 1]}
    /\ IF closed
          THEN /\ call' = [call EXCEPT ![c] = Returned]
               /\ outcome' = [outcome EXCEPT ![c] = "cut"]
          ELSE call' = [call EXCEPT ![c].at = "channel"] /\ UNCHANGED outcome
    /\ UNCHANGED <<connVars, closed>>

\* The first error is what Publish returns, after all have been tried.
Result(c, ok) == IF ok /\ copies[c]["http"] = 1 THEN "ok" ELSE "error"

Finish(c, ok) ==
    /\ call' = [call EXCEPT ![c] = Returned]
    /\ outcome' = [outcome EXCEPT ![c] = Result(c, ok)]

-----------------------------------------------------------------------------
\* PublishWithConfirm.

\* This attempt has failed; the last one ends the call.
Failed(c) ==
    IF call[c].tries + 1 = MaxRetries
       THEN Finish(c, FALSE)
       ELSE /\ call' = [call EXCEPT ![c].at = "backoff", ![c].tries = @ + 1, ![c].ch = "none"]
            /\ UNCHANGED outcome

\* getChannel.  getConnection waits for connMu, whatever the context says, and
\* fails without a trigger; opening a channel waits on a silent connection.
GetChannel(c) ==
    /\ call[c].at = "channel"
    /\ ~Locked
    /\ IF conn \in {"none", "closed"}
          THEN Failed(c)
          ELSE /\ call' = [call EXCEPT ![c].at = IF conn = "open" THEN "send" ELSE "opening",
                                       ![c].ch = IF conn = "open" THEN "live" ELSE "stuck"]
               /\ UNCHANGED outcome
    /\ UNCHANGED <<connVars, closed, copies>>

NoChannel(c) ==
    /\ call[c].at = "opening"
    /\ call[c].ch = "dead"
    /\ Failed(c)
    /\ reconnect' = TRUE
    /\ UNCHANGED <<limit, up, outages, conn, watch, notices, monitor, dials, unheard, closed, copies>>

\* Confirm and PublishWithContext.  On a live channel the message arrives, or
\* is under way when the connection breaks.
Send(c) ==
    /\ call[c].at = "send"
    /\ call[c].ch # "dead"
    /\ \/ /\ call[c].ch = "live"
          /\ copies' = [copies EXCEPT ![c]["rabbit"] = @ + 1]
          /\ call' = [call EXCEPT ![c].at = "await"]
       \/ /\ copies' = copies
          /\ call' = [call EXCEPT ![c].at = "await", ![c].ch = "dead"]
    /\ UNCHANGED <<connVars, closed, outcome>>

\* On a dead channel Confirm fails, or, after it, PublishWithContext, which
\* triggers the monitor.
SendFails(c) ==
    /\ call[c].at = "send"
    /\ call[c].ch = "dead"
    /\ Failed(c)
    /\ \/ reconnect' = reconnect
       \/ reconnect' = TRUE
    /\ UNCHANGED <<limit, up, outages, conn, watch, notices, monitor, dials, unheard, closed, copies>>

Confirmed(c) ==
    /\ call[c].at = "await"
    /\ call[c].ch = "live"
    /\ Finish(c, TRUE)
    /\ UNCHANGED <<connVars, closed, copies>>

\* A slip: what comes from the channel of a closed listener is taken for an Ack.
UnconfirmedTaken(c) ==
    /\ call[c].at = "await"
    /\ IF call[c].ch = "dead" THEN Finish(c, TRUE) ELSE Failed(c)
    /\ UNCHANGED <<connVars, closed, copies>>

\* The broker refuses, the channel ends (which reads as a refusal), or the
\* confirmation takes too long.
Unconfirmed(c) ==
    /\ call[c].at = "await"
    /\ Failed(c)
    /\ UNCHANGED <<connVars, closed, copies>>

Retry(c) ==
    /\ call[c].at = "backoff"
    /\ call' = [call EXCEPT ![c].at = "channel"]
    /\ UNCHANGED <<connVars, closed, copies, outcome>>

\* The context of the call is looked at in the two waits only.
Expire(c) ==
    /\ call[c].at \in {"await", "backoff"}
    /\ Finish(c, FALSE)
    /\ UNCHANGED <<connVars, closed, copies>>

-----------------------------------------------------------------------------

Environment == Break \/ Return \/ Notice

Monitor == Register \/ Trigger \/ Wake \/ Leave \/ Connected \/ DialFails \/ BackoffEnds \/ BackoffCancelled

Progress(c) ==
    \/ Publish(c)
    \/ GetChannel(c)
    \/ NoChannel(c)
    \/ Send(c)
    \/ SendFails(c)
    \/ Confirmed(c)
    \/ Unconfirmed(c)
    \/ Retry(c)
    \/ Expire(c)
=============================================================================
