---------------------------- MODULE ShutdownProofs ----------------------------
(* What Shutdown guarantees for any number of calls, attempts, retries and       *)
(* outages: the order of the Close calls cuts nobody off, no end of a connection *)
(* is overlooked but in the two known ways, and publishing keeps its promise.    *)
EXTENDS Shutdown, TLAPS

\* An outage is left, has made the connection silent, or has been noticed.
OutagesCounted ==
    notices + outages + (IF conn = "silent" THEN 1 ELSE 0) <= MaxOutages

\* A connect that goes on has an attempt left.
DialsLeft == Locked /\ limit # 0 => dials < limit

\* A connection that is in use has its waitForClose.
UsedIsWatched == conn \in {"open", "silent"} => watch \in {"starting", "watching"}

\* Rabbit.Close has been called exactly in the last phases.
ClosedLast == closed <=> phase \in {"closing", "ended"}

\* main goes on only when those that use what it closes have returned.
WaitedFor ==
    \A c \in Calls :
        /\ call[c].at = "idle" <=> role[c] = "none"
        /\ call[c].at = "request" => role[c] = "request"
        /\ role[c] = "request" /\ call[c].at # "returned" => phase \in {"serving", "stopping"}
        /\ role[c] = "task" /\ call[c].at # "returned" =>
              phase \in {"serving", "stopping", "draining"}

\* What each backend has received by each step of a call.
Received ==
    \A c \in Calls :
        /\ call[c].at = "returned" <=> outcome[c] # "none"
        /\ call[c].at \in {"idle", "request", "publish"} =>
              call[c].tries = 0 /\ copies[c]["http"] = 0 /\ copies[c]["rabbit"] = 0
        /\ copies[c]["http"] <= 1
        /\ call[c].at \in {"channel", "opening", "send", "backoff"} =>
              copies[c]["rabbit"] <= call[c].tries
        /\ call[c].at = "await" => copies[c]["rabbit"] <= call[c].tries + 1
        /\ call[c].at = "await" /\ call[c].ch = "live" => copies[c]["rabbit"] > 0

Inv ==
    /\ TypeOK
    /\ OutagesCounted
    /\ DialsLeft
    /\ UsedIsWatched
    /\ ClosedLast
    /\ WaitedFor
    /\ Received
    /\ NoTriggerLost
    /\ NothingCutOff
    /\ NothingLeftOpen

CallType == [at : {"idle", "request", "publish", "channel", "opening", "send",
                   "await", "backoff", "returned"},
             tries : 0..MaxRetries - 1,
             ch : {"none", "live", "stuck", "dead"}]

-----------------------------------------------------------------------------
(* Steps of the connection                                                 *)

\* The end of a connection changes the channels of the calls and nothing else of
\* them, and no channel comes to life.
LEMMA ChannelsKeepCalls ==
    ASSUME TypeOK, NEW state \in {"stuck", "dead"}, call' = Channels(state)
    PROVE  /\ call' \in [Calls -> CallType]
           /\ \A c \in Calls :
                 /\ call'[c].at = call[c].at
                 /\ call'[c].tries = call[c].tries
                 /\ call'[c].ch = "live" => call[c].ch = "live"
<1>1. ASSUME NEW c \in Calls
      PROVE  /\ call'[c] \in CallType
             /\ call'[c].at = call[c].at
             /\ call'[c].tries = call[c].tries
             /\ call'[c].ch = "live" => call[c].ch = "live"
    <2> DEFINE ch == IF call[c].ch \notin {"live", "stuck"} THEN call[c].ch
                     ELSE IF call[c].at = "await" THEN "dead" ELSE state
    <2>1. call[c] \in CallType
        BY DEF TypeOK, CallType
    <2>2. call'[c] = [call[c] EXCEPT !.ch = ch]
        BY DEF Channels
    <2>3. ch \in {"none", "live", "stuck", "dead"} /\ ch # "live"
        BY <2>1 DEF CallType
    <2> HIDE DEF ch
    <2> QED
        BY <2>1, <2>2, <2>3 DEF CallType
<1>2. DOMAIN call' = Calls /\ call' = [c \in Calls |-> call'[c]]
    BY DEF Channels
<1> QED
    BY <1>1, <1>2

\* What the connection and its monitor leave alone: the calls go on where they were.
CallsRest ==
    /\ call' \in [Calls -> CallType]
    /\ \A c \in Calls :
          /\ call'[c].at = call[c].at
          /\ call'[c].tries = call[c].tries
          /\ call'[c].ch = "live" => call[c].ch = "live"
    /\ UNCHANGED <<closed, copies, outcome, phase, role>>

LEMMA CallsRestIfUnchanged ==
    ASSUME TypeOK, UNCHANGED <<closed, call, copies, outcome, phase, role>>
    PROVE  CallsRest
BY DEF TypeOK, CallsRest, CallType

\* Such a step keeps what the invariant says of the calls.
LEMMA CallsRestInv ==
    ASSUME Inv, CallsRest
    PROVE  ClosedLast' /\ WaitedFor' /\ Received' /\ NothingCutOff'
<1>1. ClosedLast' /\ WaitedFor' /\ NothingCutOff'
    BY DEF Inv, CallsRest, ClosedLast, WaitedFor, NothingCutOff
<1>2. Received'
    BY DEF Inv, CallsRest, Received
<1> QED
    BY <1>1, <1>2

ConnectionOK ==
    /\ limit \in Limits
    /\ up \in BOOLEAN /\ reconnect \in BOOLEAN
    /\ outages \in 0..MaxOutages
    /\ conn \in {"none", "open", "silent", "closed"}
    /\ watch \in {"starting", "watching", "gone"}
    /\ notices \in 0..MaxOutages
    /\ monitor \in {"idle", "dialing", "backoff", "done"}
    /\ dials \in 0..limit
    /\ unheard \in {"no", "early", "exhausted"}
    /\ OutagesCounted
    /\ DialsLeft
    /\ UsedIsWatched
    /\ NoTriggerLost

\* The parts of the invariant about the connection, step by step.
LEMMA ConnectionStep ==
    ASSUME Inv, Alive, Environment \/ Monitor, UNCHANGED <<phase, role>>
    PROVE  ConnectionOK'
<1> USE BrokerAssumption
<1>0. ConnectionOK /\ limit \in Nat
    BY DEF Inv, TypeOK, ConnectionOK
<1> USE DEF ConnectionOK, OutagesCounted, DialsLeft, UsedIsWatched, NoTriggerLost, Locked
<1>1. CASE Break
    <2>1. up' \in BOOLEAN
        BY <1>0, <1>1, Zenon DEF Break
    <2>2. reconnect' = reconnect /\ closed' = closed /\ monitor' = monitor
            /\ notices' = notices /\ watch' = watch /\ limit' = limit /\ dials' = dials
            /\ unheard' = unheard /\ outages > 0 /\ outages' = outages - 1
            /\ conn' = IF conn = "open" THEN "silent" ELSE conn
        BY <1>1 DEF Break
    <2> QED
        BY <1>0, <2>1, <2>2
<1>2. CASE Return
    BY <1>0, <1>2 DEF Return
<1>3. CASE Notice
    BY <1>0, <1>3 DEF Notice
<1>4. CASE Register
    BY <1>0, <1>4 DEF Register
<1>5. CASE Trigger
    BY <1>0, <1>5 DEF Trigger
<1>6. CASE Wake
    <2>1. reconnect' \in BOOLEAN /\ up' \in BOOLEAN
        BY <1>0, <1>6, Zenon DEF Wake
    <2>2. monitor' = "dialing" /\ dials' = 0
            /\ UNCHANGED <<limit, outages, conn, watch, notices, unheard>>
        BY <1>6 DEF Wake
    <2> QED
        BY <1>0, <2>1, <2>2
<1>7. CASE Leave
    BY <1>0, <1>7 DEF Leave
<1>8. CASE Connected
    BY <1>0, <1>8 DEF Connected
<1>9. CASE DialFails
    BY <1>0, <1>9 DEF DialFails
<1>10. CASE BackoffEnds
    BY <1>0, <1>10 DEF BackoffEnds
<1>11. CASE BackoffCancelled
    BY <1>0, <1>11 DEF BackoffCancelled
<1> QED
    BY <1>1, <1>2, <1>3, <1>4, <1>5, <1>6, <1>7, <1>8, <1>9, <1>10, <1>11
    DEF Environment, Monitor

LEMMA ConnectionCalls ==
    ASSUME Inv, Environment \/ Monitor, UNCHANGED <<phase, role>>
    PROVE  CallsRest
<1>1. CASE Break \/ Notice \/ Connected
    <2>1. CASE call' = Channels("stuck") \/ call' = Channels("dead")
        BY <1>1, <2>1, ChannelsKeepCalls DEF Inv, CallsRest, Break, Notice, Connected
    <2> QED
        BY <1>1, <2>1 DEF Break, Notice, Connected
<1>2. CASE ~(Break \/ Notice \/ Connected)
    BY <1>2, CallsRestIfUnchanged
    DEF Inv, Environment, Monitor, Return, Register, Trigger, Wake, Leave, DialFails, BackoffEnds,
        BackoffCancelled
<1> QED
    BY <1>1, <1>2

LEMMA ConnectionInv ==
    ASSUME Inv, Alive, Environment \/ Monitor, UNCHANGED <<phase, role>>
    PROVE  Inv'
<1>1. CallsRest /\ ConnectionOK'
    BY ConnectionCalls, ConnectionStep
<1>2. ClosedLast' /\ WaitedFor' /\ Received' /\ NothingCutOff'
    BY <1>1, CallsRestInv
<1>3. TypeOK'
    BY <1>1 DEF CallsRest, ConnectionOK, Inv, TypeOK, CallType
<1>4. NothingLeftOpen'
    BY DEF Alive, NothingLeftOpen
<1> QED
    BY <1>1, <1>2, <1>3, <1>4 DEF Inv, ConnectionOK

-----------------------------------------------------------------------------
(* Steps of a call                                                         *)

\* A call may trigger the monitor, and leaves the rest of the connection alone.
LEMMA CallLeavesConnection ==
    ASSUME Inv, NEW c \in Calls, Progress(c), UNCHANGED <<phase, role>>
    PROVE  /\ UNCHANGED <<limit, up, outages, conn, watch, notices, monitor, dials, unheard,
                          closed, phase, role>>
           /\ reconnect' \in {reconnect, TRUE}
BY DEF Progress, Publish, GetChannel, NoChannel, Send, SendFails, Confirmed, Unconfirmed, Retry,
       Expire, connVars

LEMMA ConnectionLeftAlone ==
    ASSUME Inv,
           UNCHANGED <<limit, up, outages, conn, watch, notices, monitor, dials, unheard, closed>>,
           reconnect' \in {reconnect, TRUE}
    PROVE  ConnectionOK'
BY DEF Inv, TypeOK, ConnectionOK, OutagesCounted, DialsLeft, UsedIsWatched, NoTriggerLost, Locked

\* What the invariant says of one call.
OneCallOK(c) ==
    /\ call[c] \in CallType
    /\ copies[c] \in [Backends -> 0..MaxRetries]
    /\ outcome[c] \in {"none", "ok", "error"}
    /\ call[c].at = "returned" <=> outcome[c] # "none"
    /\ call[c].at \in {"idle", "request", "publish"} =>
          call[c].tries = 0 /\ copies[c]["http"] = 0 /\ copies[c]["rabbit"] = 0
    /\ copies[c]["http"] <= 1
    /\ call[c].at \in {"channel", "opening", "send", "backoff"} =>
          copies[c]["rabbit"] <= call[c].tries
    /\ call[c].at = "await" => copies[c]["rabbit"] <= call[c].tries + 1
    /\ call[c].at = "await" /\ call[c].ch = "live" => copies[c]["rabbit"] > 0

LEMMA EachCallOK ==
    ASSUME Inv, NEW c \in Calls
    PROVE  OneCallOK(c)
BY DEF Inv, TypeOK, Received, NothingCutOff, OneCallOK, CallType

\* Only c moves: the calls are as they should be if c is.
OnlyMoves(c) ==
    /\ \E x : call' = [call EXCEPT ![c] = x]
    /\ \E y : copies' = [copies EXCEPT ![c] = y]
    /\ \E z : outcome' = [outcome EXCEPT ![c] = z]

LEMMA OneCallMoves ==
    ASSUME Inv, NEW c \in Calls, OnlyMoves(c), OneCallOK(c)'
    PROVE  /\ call' \in [Calls -> CallType]
           /\ copies' \in [Calls -> [Backends -> 0..MaxRetries]]
           /\ outcome' \in [Calls -> {"none", "ok", "error", "cut"}]
           /\ Received'
           /\ NothingCutOff'
           /\ \A d \in Calls \ {c} : call'[d] = call[d]
<1>1. \A d \in Calls : d # c => call'[d] = call[d] /\ copies'[d] = copies[d] /\ outcome'[d] = outcome[d]
    BY DEF OnlyMoves, Inv, TypeOK
<1>2. \A d \in Calls : OneCallOK(d)'
    <2>1. ASSUME NEW d \in Calls, d # c PROVE OneCallOK(d)'
        BY <1>1, <2>1, EachCallOK DEF OneCallOK
    <2> QED
        BY <2>1
<1>3. /\ call' = [d \in Calls |-> call'[d]]
      /\ copies' = [d \in Calls |-> copies'[d]]
      /\ outcome' = [d \in Calls |-> outcome'[d]]
    BY DEF OnlyMoves, Inv, TypeOK
<1>4. /\ call' \in [Calls -> CallType]
      /\ copies' \in [Calls -> [Backends -> 0..MaxRetries]]
      /\ outcome' \in [Calls -> {"none", "ok", "error", "cut"}]
    BY <1>2, <1>3 DEF OneCallOK
<1>5. Received' /\ NothingCutOff'
    BY <1>2 DEF OneCallOK, Received, NothingCutOff
<1> QED
    BY <1>1, <1>4, <1>5

\* As long as a call runs, main has not got to Rabbit.Close.
LEMMA OpenWhileCalling ==
    ASSUME Inv, NEW c \in Calls, call[c].at \notin {"idle", "returned"}
    PROVE  ~closed /\ Alive /\ role[c] \in {"request", "task"}
BY DEF Inv, TypeOK, WaitedFor, ClosedLast, Alive

\* A call returns: what the two ends of PublishWithConfirm have in common.
LEMMA FinishOK ==
    ASSUME Inv, NEW c \in Calls, NEW ok \in BOOLEAN, Finish(c, ok), UNCHANGED copies
    PROVE  OnlyMoves(c) /\ OneCallOK(c)' /\ call'[c].at = "returned"
<1>1. OneCallOK(c)
    BY EachCallOK
<1>2. call'[c] = [at |-> "returned", tries |-> 0, ch |-> "none"] /\ copies'[c] = copies[c]
    BY DEF Finish, Returned, Idle, Inv, TypeOK
<1>3. outcome'[c] \in {"ok", "error"}
    BY DEF Finish, Result, Inv, TypeOK
<1>4. call'[c] \in CallType
    BY <1>2, BrokerAssumption DEF CallType
<1>5. OneCallOK(c)'
    BY <1>1, <1>2, <1>3, <1>4 DEF OneCallOK
<1>6. copies' = [copies EXCEPT ![c] = copies[c]]
    BY DEF Inv, TypeOK
<1>7. OnlyMoves(c)
    <2>1. \E x : call' = [call EXCEPT ![c] = x]
        BY DEF Finish
    <2>2. \E z : outcome' = [outcome EXCEPT ![c] = z]
        BY DEF Finish
    <2> QED
        BY <1>6, <2>1, <2>2 DEF OnlyMoves
<1> QED
    BY <1>2, <1>5, <1>7

\* An attempt fails: the next one is prepared, or the call returns.
LEMMA FailedOK ==
    ASSUME Inv, NEW c \in Calls, Failed(c), UNCHANGED copies,
           call[c].at \in {"channel", "opening", "send", "await"}
    PROVE  OnlyMoves(c) /\ OneCallOK(c)' /\ call'[c].at \in {"returned", "backoff"}
<1>1. OneCallOK(c)
    BY EachCallOK
<1>2. CASE call[c].tries + 1 = MaxRetries
    BY <1>2, FinishOK DEF Failed
<1>3. CASE call[c].tries + 1 # MaxRetries
    <2>1. call' = [call EXCEPT ![c].at = "backoff", ![c].tries = @ + 1, ![c].ch = "none"]
            /\ outcome' = outcome
        BY <1>3 DEF Failed
    <2>2. call[c] \in CallType /\ call[c].tries \in 0..MaxRetries - 1
        BY <1>1 DEF OneCallOK, CallType
    <2>3. call'[c] = [at |-> "backoff", tries |-> call[c].tries + 1, ch |-> "none"]
        BY <2>1, <2>2 DEF Inv, TypeOK, CallType
    <2>4. call'[c] \in CallType
        BY <1>3, <2>2, <2>3, BrokerAssumption DEF CallType
    <2>5. copies'[c]["rabbit"] \in Nat /\ copies'[c]["rabbit"] <= call[c].tries + 1
        BY <1>1, <2>2, BrokerAssumption DEF OneCallOK, Backends
    <2>6. OneCallOK(c)'
        BY <1>1, <2>1, <2>3, <2>4, <2>5 DEF OneCallOK
    <2>7. OnlyMoves(c)
        <3>1. \E x : call' = [call EXCEPT ![c] = x]
            BY <2>1
        <3>2. copies' = [copies EXCEPT ![c] = copies[c]] /\ outcome' = [outcome EXCEPT ![c] = outcome[c]]
            BY <2>1 DEF Inv, TypeOK
        <3> QED
            BY <3>1, <3>2 DEF OnlyMoves
    <2> QED
        BY <2>3, <2>6, <2>7
<1> QED
    BY <1>2, <1>3

\* A call goes on to another step, with another channel perhaps.
LEMMA GoesOnOK ==
    ASSUME Inv, NEW c \in Calls,
           NEW at \in {"channel", "opening", "send"},
           NEW ch \in {"none", "live", "stuck", "dead"},
           call[c].at \in {"channel", "backoff"},
           call' = [call EXCEPT ![c].at = at, ![c].ch = ch],
           UNCHANGED <<copies, outcome>>
    PROVE  OnlyMoves(c) /\ OneCallOK(c)' /\ call'[c].at = at
<1>1. OneCallOK(c)
    BY EachCallOK
<1>2. call'[c] = [at |-> at, tries |-> call[c].tries, ch |-> ch]
    BY DEF Inv, TypeOK
<1>3. call'[c] \in CallType
    BY <1>1, <1>2 DEF OneCallOK, CallType
<1>4. OneCallOK(c)'
    BY <1>1, <1>2, <1>3 DEF OneCallOK
<1>5. OnlyMoves(c)
    <2>1. \E x : call' = [call EXCEPT ![c] = x]
        OBVIOUS
    <2>2. copies' = [copies EXCEPT ![c] = copies[c]] /\ outcome' = [outcome EXCEPT ![c] = outcome[c]]
        BY DEF Inv, TypeOK
    <2> QED
        BY <2>1, <2>2 DEF OnlyMoves
<1> QED
    BY <1>2, <1>4, <1>5

LEMMA ProgressCall ==
    ASSUME Inv, NEW c \in Calls, Progress(c)
    PROVE  /\ OnlyMoves(c)
           /\ OneCallOK(c)'
           /\ call[c].at \notin {"idle", "request", "returned"}
           /\ call'[c].at \notin {"idle", "request"}
<1>1. OneCallOK(c) /\ call[c] \in CallType
    BY EachCallOK DEF OneCallOK
<1>2. CASE Publish(c)
    <2>1. call[c].at = "publish" /\ ~closed
        BY <1>2, OpenWhileCalling DEF Publish
    <2>2. call' = [call EXCEPT ![c].at = "channel"] /\ outcome' = outcome
            /\ copies' \in {copies, [copies EXCEPT ![c]["http"] = 1]}
        BY <1>2, <2>1 DEF Publish
    <2>3. call'[c] = [call[c] EXCEPT !.at = "channel"]
        BY <2>2 DEF Inv, TypeOK
    <2>4. call'[c] \in CallType /\ call'[c].at = "channel" /\ call'[c].tries = call[c].tries
        BY <1>1, <2>3 DEF CallType
    <2>5. copies'[c] \in {copies[c], [copies[c] EXCEPT !["http"] = 1]} /\ copies[c] \in [Backends -> 0..MaxRetries]
        BY <2>2 DEF Inv, TypeOK
    <2>6. copies'[c] \in [Backends -> 0..MaxRetries] /\ copies'[c]["http"] <= 1
            /\ copies'[c]["rabbit"] = copies[c]["rabbit"]
        BY <1>1, <2>5, BrokerAssumption DEF Backends, OneCallOK
    <2>7. OneCallOK(c)'
        BY <1>1, <2>1, <2>2, <2>4, <2>6 DEF OneCallOK
    <2>8. (\E x : call' = [call EXCEPT ![c] = x]) /\ (\E y : copies' = [copies EXCEPT ![c] = y])
        <3>1. \E x : call' = [call EXCEPT ![c] = x]
            BY <2>2
        <3>2. copies = [copies EXCEPT ![c] = copies[c]]
            BY DEF Inv, TypeOK
        <3> QED
            BY <2>2, <3>1, <3>2
    <2>9. outcome' = [outcome EXCEPT ![c] = outcome[c]]
        BY <2>2 DEF Inv, TypeOK
    <2> QED
        BY <2>1, <2>4, <2>7, <2>8, <2>9 DEF OnlyMoves
<1>3. CASE GetChannel(c)
    <2>1. CASE conn \in {"none", "closed"}
        BY <1>3, <2>1, FailedOK DEF GetChannel
    <2>2. CASE conn \notin {"none", "closed"}
        <3> DEFINE at == IF conn = "open" THEN "send" ELSE "opening"
                   ch == IF conn = "open" THEN "live" ELSE "stuck"
        <3>1. call' = [call EXCEPT ![c].at = at, ![c].ch = ch] /\ UNCHANGED <<copies, outcome>>
                /\ call[c].at = "channel"
            BY <1>3, <2>2 DEF GetChannel
        <3>2. at \in {"send", "opening"} /\ ch \in {"live", "stuck"}
            OBVIOUS
        <3> HIDE DEF at, ch
        <3> QED
            BY <3>1, <3>2, GoesOnOK
    <2> QED
        BY <2>1, <2>2
<1>4. CASE NoChannel(c)
    BY <1>4, FailedOK DEF NoChannel
<1>5. CASE Send(c)
    <2>1. call[c].at = "send" /\ outcome' = outcome
        BY <1>5 DEF Send
    <2>2. \E x : call' = [call EXCEPT ![c] = x]
        BY <1>5 DEF Send
    <2>3. outcome' = [outcome EXCEPT ![c] = outcome[c]]
        BY <2>1 DEF Inv, TypeOK
    <2>4. CASE copies' = [copies EXCEPT ![c]["rabbit"] = @ + 1] /\ call' = [call EXCEPT ![c].at = "await"]
        <3>1. call'[c] = [call[c] EXCEPT !.at = "await"]
            BY <2>4 DEF Inv, TypeOK
        <3>2. call'[c] \in CallType /\ call'[c].at = "await" /\ call'[c].tries = call[c].tries
                /\ call[c].tries \in 0..MaxRetries - 1
            BY <1>1, <3>1 DEF CallType
        <3>3. copies'[c] = [copies[c] EXCEPT !["rabbit"] = @ + 1]
            BY <2>4 DEF Inv, TypeOK
        <3>4. copies[c] \in [Backends -> 0..MaxRetries] /\ copies[c]["rabbit"] \in Nat
                /\ copies[c]["rabbit"] <= call[c].tries
            BY <1>1, <2>1, BrokerAssumption DEF OneCallOK, Backends
        <3>5. copies'[c] \in [Backends -> 0..MaxRetries] /\ copies'[c]["http"] = copies[c]["http"]
                /\ copies'[c]["rabbit"] = copies[c]["rabbit"] + 1
            BY <3>2, <3>3, <3>4, BrokerAssumption DEF Backends
        <3>6. OneCallOK(c)'
            BY <1>1, <2>1, <3>2, <3>4, <3>5 DEF OneCallOK
        <3> QED
            BY <2>1, <2>2, <2>3, <2>4, <3>2, <3>6 DEF OnlyMoves
    <2>5. CASE copies' = copies /\ call' = [call EXCEPT ![c].at = "await", ![c].ch = "dead"]
        <3>1. call'[c] = [call[c] EXCEPT !.at = "await", !.ch = "dead"]
            BY <2>5 DEF Inv, TypeOK
        <3>2. call'[c] \in CallType /\ call'[c].at = "await" /\ call'[c].tries = call[c].tries
                /\ call'[c].ch = "dead" /\ call[c].tries \in 0..MaxRetries - 1
            BY <1>1, <3>1 DEF CallType
        <3>3. copies[c]["rabbit"] \in Nat /\ copies[c]["rabbit"] <= call[c].tries
            BY <1>1, <2>1, BrokerAssumption DEF OneCallOK, Backends
        <3>4. OneCallOK(c)'
            BY <1>1, <2>1, <2>5, <3>2, <3>3 DEF OneCallOK
        <3>5. copies' = [copies EXCEPT ![c] = copies[c]]
            BY <2>5 DEF Inv, TypeOK
        <3> QED
            BY <2>1, <2>2, <2>3, <3>2, <3>4, <3>5 DEF OnlyMoves
    <2> QED
        BY <1>5, <2>4, <2>5 DEF Send
<1>6. CASE SendFails(c)
    BY <1>6, FailedOK DEF SendFails
<1>7. CASE Confirmed(c)
    BY <1>7, FinishOK DEF Confirmed
<1>8. CASE Unconfirmed(c)
    BY <1>8, FailedOK DEF Unconfirmed
<1>9. CASE Retry(c)
    <2>1. call[c] = [call[c] EXCEPT !.ch = call[c].ch] /\ call[c].ch \in {"none", "live", "stuck", "dead"}
        BY <1>1 DEF CallType
    <2>2. call' = [call EXCEPT ![c].at = "channel", ![c].ch = call[c].ch]
        <3>1. [call[c] EXCEPT !.at = "channel"] = [call[c] EXCEPT !.at = "channel", !.ch = call[c].ch]
            BY <1>1 DEF CallType
        <3> QED
            BY <1>9, <3>1 DEF Retry
    <2> QED
        BY <1>9, <2>1, <2>2, GoesOnOK DEF Retry
<1>10. CASE Expire(c)
    BY <1>10, FinishOK DEF Expire
<1> QED
    BY <1>2, <1>3, <1>4, <1>5, <1>6, <1>7, <1>8, <1>9, <1>10 DEF Progress

LEMMA ProgressInv ==
    ASSUME Inv, NEW c \in Calls, Progress(c), UNCHANGED <<phase, role>>
    PROVE  Inv'
<1>1. /\ OnlyMoves(c)
      /\ OneCallOK(c)'
      /\ call[c].at \notin {"idle", "request", "returned"}
      /\ call'[c].at \notin {"idle", "request"}
    BY ProgressCall
<1>2. /\ UNCHANGED <<limit, up, outages, conn, watch, notices, monitor, dials, unheard,
                     closed, phase, role>>
      /\ reconnect' \in {reconnect, TRUE}
    BY CallLeavesConnection
<1>3. ConnectionOK'
    BY <1>2, ConnectionLeftAlone
<1>4. /\ call' \in [Calls -> CallType]
      /\ copies' \in [Calls -> [Backends -> 0..MaxRetries]]
      /\ outcome' \in [Calls -> {"none", "ok", "error", "cut"}]
      /\ Received'
      /\ NothingCutOff'
      /\ \A d \in Calls \ {c} : call'[d] = call[d]
    BY <1>1, OneCallMoves
<1>5. TypeOK'
    <2>1. closed' \in BOOLEAN
        BY <1>2 DEF Inv, TypeOK
    <2>2. phase' \in {"starting", "failed", "serving", "stopping", "draining", "closing", "ended"}
            /\ role' \in [Calls -> {"none", "request", "task"}]
        BY <1>2 DEF Inv, TypeOK
    <2> QED
        BY <1>3, <1>4, <2>1, <2>2 DEF ConnectionOK, TypeOK, CallType
<1>6. ClosedLast' /\ NothingLeftOpen'
    BY <1>2 DEF Inv, ClosedLast, NothingLeftOpen
<1>7. WaitedFor'
    BY <1>1, <1>2, <1>4 DEF Inv, WaitedFor
<1> QED
    BY <1>3, <1>4, <1>5, <1>6, <1>7 DEF Inv, ConnectionOK

-----------------------------------------------------------------------------
(* Steps of main, and the requests                                         *)

\* A step that only moves main on, to a phase that those who run do not forbid.
LEMMA MainMovesInv ==
    ASSUME Inv, UNCHANGED <<connVars, call, copies, outcome, role>>,
           \/ Serve /\ UNCHANGED closed
           \/ Fatal /\ UNCHANGED closed
           \/ Signal /\ UNCHANGED closed
           \/ Stopped /\ UNCHANGED closed
           \/ Drained
    PROVE  Inv'
<1>1. phase' \in {"failed", "serving", "stopping", "draining", "closing"} /\ closed' \in BOOLEAN
    <2>1. closed' \in {closed, TRUE}
        BY DEF Drained
    <2> QED
        BY <2>1 DEF Serve, Fatal, Signal, Stopped, Drained, Inv, TypeOK
<1>2. TypeOK'
    BY <1>1 DEF Inv, TypeOK, connVars
<1>3. ClosedLast'
    BY DEF Inv, ClosedLast, Serve, Fatal, Signal, Stopped, Drained
<1>4. OutagesCounted' /\ DialsLeft' /\ UsedIsWatched'
    BY DEF Inv, connVars, OutagesCounted, DialsLeft, UsedIsWatched, Locked
<1>5. closed => closed'
    BY DEF Drained
<1>6. NoTriggerLost'
    BY <1>5 DEF Inv, connVars, NoTriggerLost, Locked
<1>7. Received' /\ NothingCutOff'
    BY DEF Inv, Received, NothingCutOff
<1>8. NothingLeftOpen'
    BY <1>1 DEF NothingLeftOpen
<1>9. WaitedFor'
    <2>1. ASSUME NEW c \in Calls, role[c] = "request", call[c].at # "returned"
          PROVE  phase' \in {"serving", "stopping"}
        BY <2>1 DEF Inv, WaitedFor, Serve, Fatal, Signal, Stopped, Drained, Running
    <2>2. ASSUME NEW c \in Calls, role[c] = "task", call[c].at # "returned"
          PROVE  phase' \in {"serving", "stopping", "draining"}
        BY <2>2 DEF Inv, WaitedFor, Serve, Fatal, Signal, Stopped, Drained, Running
    <2> QED
        BY <2>1, <2>2 DEF Inv, WaitedFor
<1> QED
    BY <1>2, <1>3, <1>4, <1>6, <1>7, <1>8, <1>9 DEF Inv

LEMMA CloseConnectionInv ==
    ASSUME Inv, CloseConnection
    PROVE  Inv'
<1>1. closed /\ UNCHANGED <<limit, up, outages, notices, reconnect, monitor, dials, unheard,
                            closed, copies, outcome, role>>
        /\ phase = "closing" /\ phase' = "ended" /\ monitor = "done"
    BY DEF CloseConnection, Inv, ClosedLast
<1>2. /\ call' \in [Calls -> CallType]
      /\ \A c \in Calls :
            /\ call'[c].at = call[c].at
            /\ call'[c].tries = call[c].tries
            /\ call'[c].ch = "live" => call[c].ch = "live"
    <2>1. CASE call' = Channels("dead")
        BY <2>1, ChannelsKeepCalls DEF Inv
    <2>2. CASE call' = call
        BY <2>2 DEF Inv, TypeOK, CallType
    <2> QED
        BY <2>1, <2>2 DEF CloseConnection
<1>3. \/ conn' = "none" /\ watch' = "gone"
      \/ conn \in {"none", "closed"} /\ conn' = conn /\ watch' = watch
    BY DEF CloseConnection, Inv, TypeOK
<1>4. TypeOK'
    BY <1>1, <1>2, <1>3 DEF Inv, TypeOK, CallType
<1>5. OutagesCounted'
    BY <1>1, <1>3, BrokerAssumption DEF Inv, TypeOK, OutagesCounted
<1>6. DialsLeft' /\ UsedIsWatched' /\ NoTriggerLost' /\ NothingLeftOpen' /\ ClosedLast'
    BY <1>1, <1>3 DEF Inv, DialsLeft, UsedIsWatched, NoTriggerLost, NothingLeftOpen, ClosedLast,
                      Locked
<1>7. WaitedFor'
    BY <1>1, <1>2 DEF Inv, WaitedFor
<1>8. Received' /\ NothingCutOff'
    BY <1>1, <1>2 DEF Inv, Received, NothingCutOff
<1> QED
    BY <1>4, <1>5, <1>6, <1>7, <1>8 DEF Inv

\* A request begins, publishes, or leaves that to a task: none of them has published.
LEMMA RequestInv ==
    ASSUME Inv, NEW c \in Calls, Request(c) \/ PublishDirectly(c) \/ DoAsync(c)
    PROVE  Inv'
<1>1. OneCallOK(c) /\ call[c] \in CallType
    BY EachCallOK DEF OneCallOK
<1>2. PICK at \in {"request", "publish"} : call' = [call EXCEPT ![c].at = at]
    <2>1. CASE DoAsync(c)
        <3>1. role[c] = "request" /\ call[c].at = "request"
            BY <2>1 DEF DoAsync, Inv, WaitedFor
        <3>2. ~ExecutorClosed
            BY <3>1 DEF ExecutorClosed, Inv, WaitedFor
        <3> QED
            BY <2>1, <3>2 DEF DoAsync
    <2> QED
        BY <2>1 DEF Request, PublishDirectly
<1>3. /\ UNCHANGED <<connVars, closed, copies, outcome, phase>>
      /\ \/ /\ phase = "serving" /\ call[c].at = "idle" /\ at = "request"
            /\ role' = [role EXCEPT ![c] = "request"]
         \/ /\ call[c].at = "request" /\ role[c] = "request" /\ at = "publish"
            /\ phase \in {"serving", "stopping"}
            /\ role' = role \/ role' = [role EXCEPT ![c] = "task"]
    <2>1. CASE Request(c)
        <3>1. call[c].at = "idle" /\ call'[c].at = "request"
            BY <2>1 DEF Request, Inv, TypeOK, WaitedFor
        <3>2. call'[c].at = at
            BY <1>2 DEF Inv, TypeOK
        <3> QED
            BY <2>1, <3>1, <3>2 DEF Request
    <2>2. CASE PublishDirectly(c) \/ DoAsync(c)
        <3>1. call[c].at = "request" /\ role[c] = "request" /\ phase \in {"serving", "stopping"}
            BY <2>2 DEF PublishDirectly, DoAsync, Inv, WaitedFor
        <3>2. ~ExecutorClosed
            BY <3>1 DEF ExecutorClosed
        <3>3. call'[c].at = "publish"
            BY <2>2, <3>2 DEF PublishDirectly, DoAsync, Inv, TypeOK
        <3>4. call'[c].at = at
            BY <1>2 DEF Inv, TypeOK
        <3> QED
            BY <2>2, <3>1, <3>2, <3>3, <3>4 DEF PublishDirectly, DoAsync
    <2> QED
        BY <2>1, <2>2
<1>4. call'[c] = [call[c] EXCEPT !.at = at] /\ \A d \in Calls \ {c} : call'[d] = call[d]
    BY <1>2 DEF Inv, TypeOK
<1>5. call'[c] \in CallType /\ call'[c].at = at /\ call'[c].tries = call[c].tries
    BY <1>1, <1>4 DEF CallType
<1>6. OneCallOK(c)'
    BY <1>1, <1>3, <1>5 DEF OneCallOK
<1>7. OnlyMoves(c)
    <2>1. \E x : call' = [call EXCEPT ![c] = x]
        BY <1>2
    <2>2. copies' = [copies EXCEPT ![c] = copies[c]] /\ outcome' = [outcome EXCEPT ![c] = outcome[c]]
        BY <1>3 DEF Inv, TypeOK
    <2> QED
        BY <2>1, <2>2 DEF OnlyMoves
<1>8. /\ call' \in [Calls -> CallType]
      /\ copies' \in [Calls -> [Backends -> 0..MaxRetries]]
      /\ outcome' \in [Calls -> {"none", "ok", "error", "cut"}]
      /\ Received'
      /\ NothingCutOff'
    BY <1>6, <1>7, OneCallMoves
<1>9. role' \in [Calls -> {"none", "request", "task"}]
        /\ \A d \in Calls \ {c} : role'[d] = role[d]
    BY <1>3 DEF Inv, TypeOK
<1>10. ConnectionOK'
    BY <1>3, ConnectionLeftAlone DEF connVars
<1>11. TypeOK'
    <2>1. closed' \in BOOLEAN /\ phase' = phase
        BY <1>3 DEF Inv, TypeOK
    <2>2. phase' \in {"starting", "failed", "serving", "stopping", "draining", "closing", "ended"}
        BY <2>1 DEF Inv, TypeOK
    <2> QED
        BY <1>8, <1>9, <1>10, <2>1, <2>2 DEF ConnectionOK, TypeOK, CallType
<1>12. ClosedLast' /\ NothingLeftOpen'
    BY <1>3 DEF Inv, ClosedLast, NothingLeftOpen, connVars
<1>13. WaitedFor'
    <2>1. /\ role'[c] \in {"request", "task"}
          /\ at = "request" => role'[c] = "request"
          /\ phase' \in {"serving", "stopping"}
        BY <1>3 DEF Inv, TypeOK
    <2>2. phase' = phase
        BY <1>3
    <2>3. call'[c].at \notin {"idle", "returned"}
        BY <1>5
    <2> DEFINE OK(d) ==
            /\ call[d].at = "idle" <=> role[d] = "none"
            /\ call[d].at = "request" => role[d] = "request"
            /\ role[d] = "request" /\ call[d].at # "returned" => phase \in {"serving", "stopping"}
            /\ role[d] = "task" /\ call[d].at # "returned" =>
                  phase \in {"serving", "stopping", "draining"}
    <2>4. ASSUME NEW d \in Calls \ {c}
          PROVE  OK(d)'
        <3>1. OK(d)
            BY DEF Inv, WaitedFor
        <3>2. call'[d] = call[d] /\ role'[d] = role[d]
            BY <1>4, <1>9
        <3> QED
            BY <2>2, <3>1, <3>2
    <2>5. OK(c)'
        BY <1>5, <2>1, <2>3
    <2>6. \A d \in Calls : OK(d)'
        BY <2>4, <2>5
    <2> QED
        BY <2>6 DEF WaitedFor
<1> QED
    BY <1>8, <1>10, <1>11, <1>12, <1>13 DEF Inv, ConnectionOK

-----------------------------------------------------------------------------
(* The invariant, and what follows                                         *)

LEMMA InitInv ==
    ASSUME Init
    PROVE  Inv
<1> USE BrokerAssumption
<1>1. /\ conn = "none" /\ outages = MaxOutages /\ notices = 0 /\ monitor = "dialing" /\ dials = 0
      /\ limit \in Limits /\ limit \in Nat /\ up \in BOOLEAN /\ watch = "gone" /\ reconnect = FALSE
      /\ unheard = "no" /\ closed = FALSE /\ phase = "starting"
    BY DEF Init, BrokerInit, NewConnection
<1>2. /\ call = [c \in Calls |-> [at |-> "idle", tries |-> 0, ch |-> "none"]]
      /\ copies = [c \in Calls |-> [b \in Backends |-> 0]]
      /\ outcome = [c \in Calls |-> "none"]
      /\ role = [c \in Calls |-> "none"]
    BY DEF Init, BrokerInit, Idle
<1>3. TypeOK
    <2>1. up \in BOOLEAN /\ reconnect \in BOOLEAN /\ closed \in BOOLEAN
        BY <1>1, Zenon
    <2>2. call \in [Calls -> CallType] /\ copies \in [Calls -> [Backends -> 0..MaxRetries]]
            /\ outcome \in [Calls -> {"none", "ok", "error", "cut"}]
            /\ role \in [Calls -> {"none", "request", "task"}]
        BY <1>2 DEF CallType
    <2>3. /\ limit \in Limits
          /\ outages \in 0..MaxOutages
          /\ conn \in {"none", "open", "silent", "closed"}
          /\ watch \in {"starting", "watching", "gone"}
          /\ notices \in 0..MaxOutages
          /\ monitor \in {"idle", "dialing", "backoff", "done"}
          /\ dials \in 0..limit
          /\ unheard \in {"no", "early", "exhausted"}
          /\ phase \in {"starting", "failed", "serving", "stopping", "draining", "closing", "ended"}
        BY <1>1
    <2> QED
        BY <2>1, <2>2, <2>3 DEF TypeOK, CallType
<1>4. OutagesCounted /\ DialsLeft /\ UsedIsWatched /\ ClosedLast /\ NoTriggerLost /\ NothingLeftOpen
    BY <1>1 DEF OutagesCounted, DialsLeft, UsedIsWatched, ClosedLast, NoTriggerLost,
                NothingLeftOpen, Locked
<1>5. WaitedFor /\ NothingCutOff
    BY <1>2 DEF WaitedFor, NothingCutOff
<1>6. Received
    BY <1>2 DEF Received, Backends
<1> QED
    BY <1>3, <1>4, <1>5, <1>6 DEF Inv

LEMMA UnchangedInv ==
    ASSUME Inv, UNCHANGED vars
    PROVE  Inv'
BY DEF vars, brokerVars, connVars, Inv, TypeOK, OutagesCounted, DialsLeft, UsedIsWatched,
       ClosedLast, WaitedFor, Received, NoTriggerLost, NothingCutOff, NothingLeftOpen, Locked

LEMMA InvStep ==
    ASSUME Inv, [Next]_vars
    PROVE  Inv'
<1>1. CASE UNCHANGED vars \/ Ended
    BY <1>1, UnchangedInv DEF Ended
<1>2. CASE Connection(Environment) \/ Connection(Monitor)
    BY <1>2, ConnectionInv DEF Connection
<1>3. CASE Serve \/ Fatal \/ Stopped \/ Drained \/ Signal
    BY <1>3, MainMovesInv DEF Serve, Fatal, Stopped, Drained, Signal, brokerVars
<1>4. CASE CloseConnection
    BY <1>4, CloseConnectionInv
<1>5. ASSUME NEW c \in Calls, Progress(c), UNCHANGED <<phase, role>>
      PROVE  Inv'
    BY <1>5, ProgressInv
<1>6. ASSUME NEW c \in Calls, Request(c) \/ PublishDirectly(c) \/ DoAsync(c)
      PROVE  Inv'
    BY <1>6, RequestInv
<1> QED
    BY <1>1, <1>2, <1>3, <1>4, <1>5, <1>6 DEF Next, Main

LEMMA Invariance == Spec => []Inv
<1>1. Init => Inv
    BY InitInv
<1>2. Inv /\ [Next]_vars => Inv'
    BY InvStep
<1> QED
    BY <1>1, <1>2, PTL DEF Spec

\* Type correctness: attempts, retries and outages stay in their bounds
\* (rabbit.go, connect and PublishWithConfirm).
THEOREM TypeCorrect == Spec => []TypeOK
<1>1. Inv => TypeOK
    BY DEF Inv
<1> QED
    BY <1>1, Invariance, PTL

\* While the service runs, the end of a connection reaches the monitor, but when the
\* attempts are used up or nobody listened yet.
THEOREM EndsAreHeard == Spec => []NoTriggerLost
<1>1. Inv => NoTriggerLost
    BY DEF Inv
<1> QED
    BY <1>1, Invariance, PTL

\* The order of the deferred Close calls in main cuts no request and no task off.
THEOREM CloseOrderIsSafe == Spec => []NothingCutOff
<1>1. Inv => NothingCutOff
    BY DEF Inv
<1> QED
    BY <1>1, Invariance, PTL

\* When the process has ended there is no connection, and no monitor to open one.
THEOREM ProcessEndsClean == Spec => []NothingLeftOpen
<1>1. Inv => NothingLeftOpen
    BY DEF Inv
<1> QED
    BY <1>1, Invariance, PTL

-----------------------------------------------------------------------------
(* Publishing keeps its promise                                            *)

\* A step of a call is a step of Delivery: the endpoint or the broker receives the event,
\* or the call returns, with success only when both have it.
LEMMA ProgressDelivers ==
    ASSUME Inv, NEW c \in Calls, Progress(c)
    PROVE  [Abstract!Next]_(Abstract!vars)
<1> USE DEF Abstract!Next, Abstract!vars
<1>1. OneCallOK(c) /\ call[c] \in CallType
    BY EachCallOK DEF OneCallOK
<1>2. outcome[c] = "none"
    BY <1>1, ProgressCall DEF OneCallOK
<1>3. ASSUME NEW ok \in BOOLEAN, Finish(c, ok), UNCHANGED copies,
             ok => copies[c]["rabbit"] > 0
      PROVE  Abstract!Return(c)
    <2>1. Result(c, ok) \in {"ok", "error"}
            /\ (Result(c, ok) = "ok" => \A b \in Backends : copies[c][b] > 0)
        BY <1>3 DEF Result, Backends
    <2> QED
        BY <1>2, <1>3, <2>1 DEF Abstract!Return, Finish
<1>4. ASSUME Failed(c), UNCHANGED copies
      PROVE  Abstract!Return(c) \/ UNCHANGED <<copies, outcome>>
    BY <1>3, <1>4 DEF Failed
<1>5. CASE Publish(c)
    <2>1. ~closed
        BY <1>5, OpenWhileCalling DEF Publish
    <2>2. outcome' = outcome
        BY <1>5, <2>1 DEF Publish
    <2>3. copies[c]["http"] = 0
        BY <1>1, <1>5 DEF OneCallOK, Publish
    <2>4. CASE copies' = copies
        BY <2>2, <2>4
    <2>5. CASE copies' = [copies EXCEPT ![c]["http"] = 1]
        <3>1. copies' = [copies EXCEPT ![c]["http"] = @ + 1]
            <4>1. copies[c]["http"] + 1 = 1
                BY <2>3
            <4> QED
                BY <2>5, <4>1
        <3>2. Abstract!Receive(c, "http")
            BY <1>2, <2>2, <2>3, <3>1 DEF Abstract!Receive, Backends
        <3> QED
            BY <3>2 DEF Backends
    <2> QED
        BY <1>5, <2>4, <2>5 DEF Publish
<1>6. CASE Send(c)
    <2>1. call[c].at = "send" /\ outcome' = outcome
        BY <1>6 DEF Send
    <2>2. copies[c]["rabbit"] \in Nat /\ copies[c]["rabbit"] <= call[c].tries
            /\ call[c].tries \in 0..MaxRetries - 1
        BY <1>1, <2>1, BrokerAssumption DEF OneCallOK, CallType, Backends
    <2>3. copies[c]["rabbit"] < MaxRetries
        BY <2>2, BrokerAssumption
    <2>4. CASE copies' = copies
        BY <2>1, <2>4
    <2>5. CASE copies' = [copies EXCEPT ![c]["rabbit"] = @ + 1]
        <3>1. Abstract!Receive(c, "rabbit")
            BY <1>2, <2>1, <2>3, <2>5 DEF Abstract!Receive, Backends
        <3> QED
            BY <3>1 DEF Backends
    <2> QED
        BY <1>6, <2>4, <2>5 DEF Send
<1>7. CASE Confirmed(c)
    <2>1. copies[c]["rabbit"] > 0
        BY <1>1, <1>7 DEF OneCallOK, Confirmed
    <2> QED
        BY <1>3, <1>7, <2>1 DEF Confirmed
<1>8. CASE GetChannel(c) \/ NoChannel(c) \/ SendFails(c) \/ Unconfirmed(c)
    BY <1>4, <1>8 DEF GetChannel, NoChannel, SendFails, Unconfirmed
<1>9. CASE Expire(c)
    BY <1>3, <1>9 DEF Expire
<1>10. CASE Retry(c)
    BY <1>10 DEF Retry
<1> QED
    BY <1>5, <1>6, <1>7, <1>8, <1>9, <1>10 DEF Progress

LEMMA StepDelivers ==
    ASSUME Inv, [Next]_vars
    PROVE  [Abstract!Next]_(Abstract!vars)
<1> USE DEF Abstract!vars
<1>1. CASE UNCHANGED <<copies, outcome>>
    BY <1>1
<1>2. ASSUME NEW c \in Calls, Progress(c)
      PROVE  [Abstract!Next]_(Abstract!vars)
    BY <1>2, ProgressDelivers
<1>3. ASSUME NEW c \in Calls, DoAsync(c)
      PROVE  UNCHANGED <<copies, outcome>>
    <2>1. role[c] = "request" /\ call[c].at = "request"
        BY <1>3 DEF DoAsync, Inv, WaitedFor
    <2>2. ~ExecutorClosed
        BY <2>1 DEF ExecutorClosed, Inv, WaitedFor
    <2> QED
        BY <1>3, <2>2 DEF DoAsync
<1>4. ASSUME NEW c \in Calls, Request(c) \/ PublishDirectly(c)
      PROVE  UNCHANGED <<copies, outcome>>
    BY <1>4 DEF Request, PublishDirectly
<1>5. CASE Connection(Environment) \/ Connection(Monitor)
    <2>1. CallsRest
        BY <1>5, ConnectionCalls DEF Connection
    <2> QED
        BY <1>1, <2>1 DEF CallsRest
<1>6. CASE Main \/ Signal \/ Ended \/ UNCHANGED vars
    BY <1>1, <1>6 DEF Main, Serve, Fatal, Stopped, Drained, CloseConnection, Signal, Ended, vars, brokerVars
<1> QED
    BY <1>1, <1>2, <1>3, <1>4, <1>5, <1>6 DEF Next

\* A publication that reports success has reached every backend, and no backend gets
\* more copies than attempts, whatever the connection goes through (event/multi.go,
\* Publish, and rabbit.go, PublishWithConfirm).
THEOREM ShutdownImplementsDelivery == Spec => Delivered
<1>1. Init => Abstract!Init
    BY DEF Init, BrokerInit, Abstract!Init
<1>2. Inv /\ [Next]_vars => [Abstract!Next]_(Abstract!vars)
    BY StepDelivers
<1> QED
    BY <1>1, <1>2, Invariance, PTL DEF Spec, Delivered, Abstract!Spec
=============================================================================
