------------------------------ MODULE Shutdown ------------------------------
(***************************************************************************)
(* The process around the broker connection, from its start to its end:    *)
(* main connects to the broker, serves, and on a signal stops the server,  *)
(* waits for the background tasks, and closes the connection, in the order *)
(* of its deferred calls (cmd/main.go, grpc/server.go, executor/service.go).*)
(*                                                                         *)
(* A request publishes its event itself (userService and the others) or    *)
(* leaves that to a task of the executor (authService).                    *)
(***************************************************************************)
EXTENDS Broker

CONSTANT Async     \* the calls that a task makes, not the request itself

VARIABLES
    phase,     \* "starting", "failed", "serving", "stopping" (GracefulStop),
               \* "draining" (exc.Close), "closing" (Rabbit.Close), "ended"
    role       \* role[c]: who publishes, "none", "request" or "task"

vars == <<brokerVars, phase, role>>

Init ==
    /\ BrokerInit
    /\ phase = "starting"
    /\ role = [c \in Calls |-> "none"]

\* serviceExecutor.closed
ExecutorClosed == phase \in {"draining", "closing", "ended"}

Running(kind) == \E c \in Calls : role[c] = kind /\ call[c].at # "returned"

-----------------------------------------------------------------------------
\* main and the server.

Serve ==
    /\ phase = "starting"
    /\ conn # "none"
    /\ phase' = "serving"
    /\ UNCHANGED <<brokerVars, role>>

\* NewRabbitConnection has failed, which is fatal.
Fatal ==
    /\ phase = "starting"
    /\ conn = "none"
    /\ monitor = "idle"
    /\ phase' = "failed"
    /\ UNCHANGED <<brokerVars, role>>

Signal ==
    /\ phase = "serving"
    /\ phase' = "stopping"
    /\ UNCHANGED <<brokerVars, role>>

\* A slip: Stop instead of GracefulStop.
StoppedAtOnce ==
    /\ phase = "stopping"
    /\ phase' = "draining"
    /\ UNCHANGED <<brokerVars, role>>

\* GracefulStop waits for the requests; Serve returns, and exc.Close begins.
Stopped ==
    /\ phase = "stopping"
    /\ ~Running("request")
    /\ phase' = "draining"
    /\ UNCHANGED <<brokerVars, role>>

\* exc.Close has waited for the tasks; eventPublisher.Close begins, and with
\* it Rabbit.Close, which cancels the monitor.
Drained ==
    /\ phase = "draining"
    /\ ~Running("task")
    /\ phase' = "closing"
    /\ closed' = TRUE
    /\ UNCHANGED <<connVars, call, copies, outcome, role>>

\* A slip: takes the lock without waiting for the monitor.
CloseAtOnce ==
    /\ phase = "closing"
    /\ ~Locked
    /\ phase' = "ended"
    /\ conn' = "none"
    /\ watch' = "gone"
    /\ call' = Channels("dead")
    /\ UNCHANGED <<limit, up, outages, notices, reconnect, monitor, dials, unheard, closed, copies, outcome, role>>

\* Rabbit.Close goes on when the monitor is gone.  The second Close of main
\* finds it closed.
CloseConnection ==
    /\ phase = "closing"
    /\ monitor = "done"
    /\ phase' = "ended"
    /\ IF conn \in {"open", "silent"}
          THEN conn' = "none" /\ watch' = "gone" /\ call' = Channels("dead")
          ELSE UNCHANGED <<conn, watch, call>>
    /\ UNCHANGED <<limit, up, outages, notices, reconnect, monitor, dials, unheard, closed, copies, outcome, role>>

-----------------------------------------------------------------------------
\* Requests, and the tasks they leave behind.

Request(c) ==
    /\ phase = "serving"
    /\ role[c] = "none"
    /\ role' = [role EXCEPT ![c] = "request"]
    /\ call' = [call EXCEPT ![c].at = "request"]
    /\ UNCHANGED <<connVars, closed, copies, outcome, phase>>

PublishDirectly(c) ==
    /\ c \notin Async
    /\ call[c].at = "request"
    /\ call' = [call EXCEPT ![c].at = "publish"]
    /\ UNCHANGED <<connVars, closed, copies, outcome, phase, role>>

\* A closed executor drops the task; authService ignores the error.
DoAsync(c) ==
    /\ c \in Async
    /\ call[c].at = "request"
    /\ IF ExecutorClosed
          THEN /\ call' = [call EXCEPT ![c] = Returned]
               /\ outcome' = [outcome EXCEPT ![c] = "cut"]
               /\ UNCHANGED role
          ELSE /\ call' = [call EXCEPT ![c].at = "publish"]
               /\ role' = [role EXCEPT ![c] = "task"]
               /\ UNCHANGED outcome
    /\ UNCHANGED <<connVars, closed, copies, phase>>

-----------------------------------------------------------------------------

Main == Serve \/ Fatal \/ Stopped \/ Drained \/ CloseConnection

\* The goroutines end with the process.
Alive == phase \notin {"failed", "ended"}

Ended ==
    /\ ~Alive
    /\ UNCHANGED vars

Connection(Step) == Alive /\ Step /\ UNCHANGED <<phase, role>>

Next ==
    \/ Connection(Environment)
    \/ Connection(Monitor)
    \/ Main
    \/ Signal
    \/ \E c \in Calls :
          \/ Progress(c) /\ UNCHANGED <<phase, role>>
          \/ Request(c)
          \/ PublishDirectly(c)
          \/ DoAsync(c)
    \/ Ended

\* The scheduler runs every goroutine that can run, and timers and heartbeats
\* fire.  Strong fairness is for the cancelled monitor: a backoff finds the
\* context done before the timer it has just set, and the select that has both
\* a trigger and the end picks at random.  Nothing is assumed of the broker, the
\* network or the clients, nor that anybody sends the signal.
Fairness ==
    /\ WF_vars(Connection(Notice))
    /\ WF_vars(Connection(Monitor))
    /\ SF_vars(Connection(BackoffCancelled \/ Leave))
    /\ WF_vars(Main)
    /\ \A c \in Calls :
          /\ WF_vars(Progress(c) /\ UNCHANGED <<phase, role>>)
          /\ WF_vars(PublishDirectly(c) \/ DoAsync(c))

Spec == Init /\ [][Next]_vars /\ Fairness

-----------------------------------------------------------------------------

TypeOK ==
    /\ limit \in Limits
    /\ up \in BOOLEAN /\ reconnect \in BOOLEAN /\ closed \in BOOLEAN
    /\ outages \in 0..MaxOutages
    /\ conn \in {"none", "open", "silent", "closed"}
    /\ watch \in {"starting", "watching", "gone"}
    /\ notices \in 0..MaxOutages
    /\ monitor \in {"idle", "dialing", "backoff", "done"}
    /\ dials \in 0..limit
    /\ unheard \in {"no", "early", "exhausted"}
    /\ call \in [Calls -> [at : {"idle", "request", "publish", "channel", "opening", "send",
                                 "await", "backoff", "returned"},
                           tries : 0..MaxRetries - 1,
                           ch : {"none", "live", "stuck", "dead"}]]
    /\ copies \in [Calls -> [Backends -> 0..MaxRetries]]
    /\ outcome \in [Calls -> {"none", "ok", "error", "cut"}]
    /\ phase \in {"starting", "failed", "serving", "stopping", "draining", "closing", "ended"}
    /\ role \in [Calls -> {"none", "request", "task"}]

\* While the service runs, a closed connection is about to be replaced: the
\* monitor is at it, or will get a trigger.  The two ways to be forgotten are the
\* code's own: the attempts are used up (rabbit.go:124), or the connection ended
\* before NotifyClose (rabbit.go:129); a call finds it closed and triggers nothing
\* (rabbit.go:178).
NoTriggerLost ==
    conn = "closed" /\ unheard = "no" /\ ~closed =>
        Locked \/ reconnect \/ notices > 0 \/ watch = "starting"

\* Publish operations trigger the reconnection on failure, as rabbit.go:143 says: an attempt
\* that finds the connection closed leaves a trigger, unless a listener is about to.  The
\* code does not (rabbit.go:178), so that after the last attempt of connect, or an end that
\* came before NotifyClose, no number of calls brings the connection back.
PublishTriggersReconnect ==
    [][\A c \in Calls :
          call[c].at = "channel" /\ call'[c].at \in {"backoff", "returned"} =>
              reconnect' \/ notices > 0 \/ watch = "starting"]_vars

\* Nobody finds the executor or the connection closed: main closes each when
\* those that use it have returned (main.go:277, main.go:295).
NothingCutOff == \A c \in Calls : outcome[c] # "cut"

\* The process ends with the connection closed and nobody left to open another,
\* though a trigger may have come after the cancellation (rabbit.go:528).
NothingLeftOpen ==
    phase = "ended" => conn \in {"none", "closed"} /\ monitor = "done"

\* A call that succeeds has its event in every backend, and none gets more copies
\* than attempts (event/multi.go:44, rabbit.go:407): the abstract specification.
Abstract == INSTANCE Delivery WITH Attempts <- [b \in Backends |-> IF b = "http" THEN 1 ELSE MaxRetries]

Delivered == Abstract!Spec

\* Rabbit.Close ends, whatever the broker does and however many attempts are
\* allowed: it stops the reconnection attempts, as rabbit.go:521 says.
CloseEnds == closed ~> phase = "ended"

\* After a signal the process ends, if the attempts are limited or the broker
\* comes back for good.  Without a limit (the default) and without a broker it
\* does not: the requests and tasks wait in getConnection for connMu
\* (rabbit.go:173), and the Close that would cancel the monitor waits for them.
ShutdownEnds ==
    <>[](limit # 0 \/ up) => (phase = "stopping" ~> phase = "ended")
=============================================================================
