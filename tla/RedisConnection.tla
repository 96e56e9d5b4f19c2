-------------------------- MODULE RedisConnection --------------------------
(***************************************************************************)
(* The shared Redis connection, src/redis/redis.service.ts: two loops that *)
(* try to reconnect, the ioredis client's own (retryStrategy) and the      *)
(* service's timer (scheduleReconnect), each with a limit, and what the    *)
(* process believes of the connection.                                     *)
(*                                                                         *)
(* Time is left out: a timeout may come whenever its answer is outstanding *)
(* and the timer whenever it is armed, with one exception, named at Tick.  *)
(* REDIS_ENABLED is on.  Handlers run to completion, one at a time; the    *)
(* client's "close" is part of the step that leads to "reconnecting" or    *)
(* "end".                                                                  *)
(***************************************************************************)
EXTENDS Integers

CONSTANT MaxReconnectAttempts  \* maxReconnectAttempts

ASSUME LimitAssumption == MaxReconnectAttempts \in Nat \ {0}

VARIABLES
  up,                 \* Redis can be reached, and answers in time
  clientStatus,       \* client.status
  retries,            \* the client's reconnections since it was last ready
  quitting,           \* disconnect() or QUIT was called: the client will not reconnect
  isConnected,        \* what the events and tryConnect last said
  reconnectAttempts,
  timer,              \* reconnectTimer is armed
  destroyed,
  started,            \* onModuleInit was called
  attempt,            \* tryConnect: "none", or the answer it waits for
  cycles              \* history: cycles the service has started since the last connection

client == <<clientStatus, retries, quitting>>
counters == <<reconnectAttempts, cycles>>
connectionVars == <<up, client, isConnected, counters, timer, destroyed, started, attempt>>

ConnectionInit ==
  /\ up \in BOOLEAN
  /\ clientStatus = "wait"
  /\ retries = 0
  /\ quitting = FALSE
  /\ isConnected = FALSE
  /\ reconnectAttempts = 0
  /\ timer = FALSE
  /\ destroyed = FALSE
  /\ started = FALSE
  /\ attempt = "none"
  /\ cycles = 0

isReady == isConnected /\ clientStatus = "ready"

-----------------------------------------------------------------------------
(* The service *)

\* Mutant: a cycle is scheduled although the module was destroyed.
ScheduleAlways(armed) ==
  IF armed \/ reconnectAttempts >= MaxReconnectAttempts
  THEN timer' = armed /\ UNCHANGED counters
  ELSE /\ timer' = TRUE
       /\ reconnectAttempts' = reconnectAttempts + 1
       /\ cycles' = cycles + 1

\* scheduleReconnect, where the timer is armed or not; at the limit it gives up.
ScheduleReconnect(armed) ==
  IF destroyed \/ armed \/ reconnectAttempts >= MaxReconnectAttempts
  THEN timer' = armed /\ UNCHANGED counters
  ELSE /\ timer' = TRUE
       /\ reconnectAttempts' = reconnectAttempts + 1
       /\ cycles' = cycles + 1

\* tryConnect is over, and its caller looks at isConnected.
AfterTry(connected, armed) ==
  /\ attempt' = "none"
  /\ isConnected' = connected
  /\ IF connected THEN timer' = armed /\ UNCHANGED counters ELSE ScheduleReconnect(armed)

\* client.connect() is called, and awaited.
CallConnect(armed) ==
  /\ clientStatus' = "connecting"
  /\ attempt' = "connect"
  /\ timer' = armed
  /\ UNCHANGED <<retries, quitting, isConnected, counters>>

\* Mutant: connect() is called on a client that is ready, and rejects.
TryWhenReady(armed) ==
  CASE destroyed \/ clientStatus \in {"connecting", "reconnecting"} ->
         AfterTry(isConnected, armed) /\ UNCHANGED client
    [] ~destroyed /\ clientStatus \in {"connect", "ready"} ->
         AfterTry(FALSE, armed) /\ UNCHANGED client
    [] OTHER -> CallConnect(armed)

\* tryConnect up to its first await: a client that is ready, one that is busy, one that
\* shakes hands, where connect() rejects, and one to connect.
TryConnect(armed) ==
  CASE destroyed \/ clientStatus \in {"connecting", "reconnecting"} ->
         AfterTry(isConnected, armed) /\ UNCHANGED client
    [] ~destroyed /\ clientStatus = "ready" -> AfterTry(TRUE, armed) /\ UNCHANGED client
    [] ~destroyed /\ clientStatus = "connect" -> AfterTry(FALSE, armed) /\ UNCHANGED client
    [] OTHER -> CallConnect(armed)

OnModuleInit ==
  /\ ~started
  /\ ~destroyed
  /\ started' = TRUE
  /\ TryConnect(timer)
  /\ UNCHANGED <<up, destroyed>>

\* The timer's callback.  No tryConnect is under way then: it lasts two timeouts at most,
\* and a timer armed while it runs waits for "end", which takes all the client's retries.
Tick ==
  /\ timer
  /\ attempt = "none"
  /\ TryConnect(FALSE)
  /\ UNCHANGED <<up, destroyed, started>>

\* withTimeout gives up on connect(); the client goes on.
ConnectTimesOut ==
  /\ attempt = "connect"
  /\ ~up
  /\ AfterTry(FALSE, timer)
  /\ UNCHANGED <<up, client, destroyed, started>>

PingAnswered ==
  /\ attempt = "ping"
  /\ up /\ clientStatus = "ready"
  /\ AfterTry(TRUE, timer)
  /\ UNCHANGED <<up, client, destroyed, started>>

\* The ping times out or is rejected, perhaps on a client that is ready.
PingFails ==
  /\ attempt = "ping"
  /\ ~up \/ clientStatus # "ready"
  /\ AfterTry(FALSE, timer)
  /\ UNCHANGED <<up, client, destroyed, started>>

\* quit() on a ready client, disconnect() otherwise.
OnModuleDestroy ==
  /\ started
  /\ ~destroyed
  /\ destroyed' = TRUE
  /\ timer' = FALSE
  /\ quitting' = TRUE
  /\ clientStatus' = IF clientStatus = "wait" THEN "end" ELSE clientStatus
  /\ UNCHANGED <<up, retries, isConnected, counters, started, attempt>>

-----------------------------------------------------------------------------
(* The client, and what the handlers of its events do *)

\* Mutant: the limit of the service is not lifted by a connection.
KeepAttempts == UNCHANGED reconnectAttempts

\* The handler of "connect".
OnConnect == reconnectAttempts' = 0

Connected ==
  /\ clientStatus = "connecting"
  /\ up
  /\ clientStatus' = "connect"
  /\ OnConnect
  /\ cycles' = 0
  /\ UNCHANGED <<up, retries, quitting, isConnected, timer, destroyed, started, attempt>>

\* The ready check passes: "ready", and connect() resolves.
HandshakeDone ==
  /\ clientStatus = "connect"
  /\ up
  /\ clientStatus' = "ready"
  /\ retries' = 0
  /\ isConnected' = TRUE
  /\ attempt' = IF attempt = "connect" THEN "ping" ELSE attempt
  /\ UNCHANGED <<up, quitting, counters, timer, destroyed, started>>

\* retryStrategy, asked for the next of so many retries: whether to try again.
RetryStrategy(times) == ~destroyed /\ times <= MaxReconnectAttempts

\* Mutant: the service is not told that the client stopped.
EndUnheard(ended) ==
  IF attempt = "connect" THEN AfterTry(FALSE, timer)
  ELSE isConnected' = FALSE /\ UNCHANGED <<attempt, timer, counters>>

\* The handlers of "error", "close" and "end"; a connect() under way rejects, and at the
\* end a ping too.
OnClose(ended) ==
  IF attempt = "connect" \/ ended THEN AfterTry(FALSE, timer)
  ELSE isConnected' = FALSE /\ UNCHANGED <<attempt, timer, counters>>

\* retries is counted to one over the limit: no more is asked of it.
Close ==
  /\ LET again == ~quitting /\ RetryStrategy(retries + 1) IN
       /\ clientStatus' = IF again THEN "reconnecting" ELSE "end"
       /\ OnClose(~again)
  /\ retries' = IF retries > MaxReconnectAttempts THEN retries ELSE retries + 1
  /\ UNCHANGED <<up, quitting, destroyed, started>>

\* connectTimeout, or a connection refused.
ConnectFails ==
  /\ clientStatus \in {"connecting", "connect"}
  /\ ~up \/ quitting
  /\ Close

ConnectionLost ==
  /\ clientStatus = "ready"
  /\ ~up \/ quitting
  /\ Close

\* The client's own timer.
Retry ==
  /\ clientStatus = "reconnecting"
  /\ ~quitting
  /\ clientStatus' = "connecting"
  /\ UNCHANGED <<up, retries, quitting, isConnected, counters, timer, destroyed, started, attempt>>

RedisTurns ==
  /\ up' = ~up
  /\ UNCHANGED <<client, isConnected, counters, timer, destroyed, started, attempt>>

-----------------------------------------------------------------------------
Own ==
  \/ OnModuleInit \/ Tick \/ ConnectTimesOut \/ PingAnswered \/ PingFails
  \/ Connected \/ HandshakeDone \/ ConnectFails \/ Retry

ConnectionNext == Own \/ ConnectionLost \/ OnModuleDestroy \/ RedisTurns

\* Timers fire and what is outstanding is answered or given up; nothing makes Redis come
\* up, or go down, or makes a connection break.
ConnectionSpec == ConnectionInit /\ [][ConnectionNext]_connectionVars /\ WF_connectionVars(Own)

-----------------------------------------------------------------------------
(* Properties *)

\* Every variable has its type.
ConnectionTypeOK ==
  /\ up \in BOOLEAN /\ quitting \in BOOLEAN /\ isConnected \in BOOLEAN
  /\ timer \in BOOLEAN /\ destroyed \in BOOLEAN /\ started \in BOOLEAN
  /\ clientStatus \in {"wait", "connecting", "connect", "ready", "reconnecting", "end"}
  /\ retries \in 0 .. MaxReconnectAttempts + 1
  /\ reconnectAttempts \in 0 .. MaxReconnectAttempts
  /\ cycles \in Nat
  /\ attempt \in {"none", "connect", "ping"}

\* Nothing will ever connect again, short of a restart.
Stopped == started /\ clientStatus = "end" /\ ~timer /\ attempt = "none"

\* "Giving up after 12 attempts": a process that was not shut down stops only when the
\* client has used all its retries and the service all its cycles, with no connection
\* made in between.
GivesUpOnlyWhenExhausted ==
  Stopped /\ ~destroyed => retries > MaxReconnectAttempts /\ cycles >= MaxReconnectAttempts

\* Nothing is scheduled once the module is destroyed, also by an attempt that was under way.
QuietAfterShutdown == destroyed => ~timer

\* A client that stays ready is reported ready in the end: a late failure of an attempt
\* that overwrote isConnected is put right.
ReadyIsNoticed == <>[](clientStatus = "ready" /\ ~destroyed) => <>[]isReady

\* "Degraded until the connection is restored": if Redis comes back to stay, either it is
\* used again, or the service had used all its cycles before, or was shut down.
RecoversUnlessStopped ==
  <>[]up => <>[]isReady \/ <>[](Stopped /\ cycles >= MaxReconnectAttempts) \/ <>destroyed
=============================================================================
