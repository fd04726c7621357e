----------------------------- MODULE Connection -----------------------------
(***************************************************************************)
(* The connection state machine of the real-time client: the service       *)
(* thread (service_thread_fn and the connection cases of rt_dispatch_frame *)
(* in realtime_client.c) and the application thread that calls connect(),  *)
(* close() and destroy().  They share state, close_requested and the       *)
(* condition variable state_cond, all under state_mutex.                   *)
(*                                                                         *)
(* connect() does not ask whether there is a service thread: one more is   *)
(* started and the handle of the earlier one is gone.  So there may be     *)
(* several, which share all of the client.                                 *)
(*                                                                         *)
(* One action of a service thread is one critical section on state_mutex   *)
(* together with the local computation around it.  The server may send any *)
(* frame at any time; the socket may fail at any time.  Time is left out:  *)
(* a timed wait may end at any moment.  What two threads do to the memory  *)
(* of the transport they share, and one to a client that was freed, is     *)
(* not modelled.                                                           *)
(***************************************************************************)
EXTENDS Integers

CONSTANTS
  FallbackCount,  \* s_fallback_count
  MaxAttempts,    \* reconnect_max_attempts; 0 or less means unlimited
  AttemptCap,     \* bound: reconnect_attempt saturates here (the backoff
                  \* formula does not grow beyond attempt 4)
  HasAuthCb,      \* whether opts.auth_cb is set
  MaxServices     \* bound: service threads that exist at a time

ASSUME HostAssumption    == FallbackCount \in Nat
ASSUME AttemptAssumption == /\ MaxAttempts \in Int
                            /\ AttemptCap \in Nat \ {0}
                            /\ MaxAttempts <= AttemptCap
ASSUME AuthAssumption    == HasAuthCb \in BOOLEAN
ASSUME ServiceAssumption  == MaxServices \in Nat

ServiceThreads == 1 .. MaxServices
NoThread == 0

ConnState == {"INITIALIZED", "CONNECTING", "CONNECTED", "DISCONNECTED",
              "SUSPENDED", "CLOSED", "FAILED"}

\* Error codes of DISCONNECTED and ERROR frames, by what the handlers do with
\* them: none, 401xx, any other 4xxxx, everything else.
Code == {"none", "token", "client", "server"}

VARIABLES
  state,        \* client->state
  closeReq,     \* client->close_requested
  threadPc,     \* program counter of each service thread, "none" before it
                \* is created and after it is joined
  writing,      \* the service threads that are in wslay_send_callback
  ws,           \* the transport is connected
  hostIdx,      \* current_host_idx
  attempt,      \* reconnect_attempt
  skipBackoff,  \* skip_backoff
  needRefresh,  \* need_token_refresh
  alive,        \* last_activity_ms # 0: the heartbeat watchdog is armed
  app,          \* program counter of the application thread
  service_thread, \* the handle
  running,      \* service_thread_running
  fatal,        \* history: a fatal ERROR arrived since the latest connect()
  overwritten   \* history: threads whose handle a later connect() overwrote

stateVars  == <<state, closeReq>>
retryVars  == <<hostIdx, attempt, skipBackoff>>
handleVars == <<service_thread, running, overwritten>>
appVars    == <<app, handleVars>>
connVars   == <<stateVars, threadPc, writing, ws, retryVars, needRefresh, alive, appVars,
                fatal>>

ConnInit ==
  /\ state = "INITIALIZED" /\ closeReq = FALSE
  /\ threadPc = [t \in ServiceThreads |-> "none"] /\ writing = {} /\ ws = FALSE
  /\ hostIdx = 0 /\ attempt = 0 /\ skipBackoff = FALSE
  /\ needRefresh = FALSE /\ alive = FALSE
  /\ app = "idle"
  /\ service_thread = NoThread /\ running = FALSE
  /\ fatal = FALSE /\ overwritten = {}

\* Thread t goes on at pc.
Goto(t, pc) == threadPc' = [threadPc EXCEPT ![t] = pc]

-----------------------------------------------------------------------------
(* Application thread.                                                     *)

\* The handle a connect() overwrites, if it is one of a thread not joined.
Lost == overwritten \cup (IF running THEN {service_thread} \ {NoThread} ELSE {})

\* connect(), whether or not there is a service thread.  The new one may fail
\* to start, which may leave a handle of nothing (CreateThread does).
Connect ==
  /\ app = "idle"
  /\ closeReq' = FALSE
  /\ fatal' = FALSE
  /\ \/ \E t \in ServiceThreads :
          /\ threadPc[t] = "none" /\ \A u \in 1 .. t - 1 : threadPc[u] # "none"
          /\ Goto(t, "top") /\ service_thread' = t /\ running' = TRUE
          /\ overwritten' = Lost
     \/ service_thread' = NoThread /\ overwritten' = Lost /\ UNCHANGED <<threadPc, running>>
     \/ UNCHANGED <<threadPc, handleVars>>
  /\ UNCHANGED <<state, writing, ws, retryVars, needRefresh, alive, app>>

\* What a broadcast on state_cond does to a service thread: a wait in the
\* backoff or in SUSPENDED ends.  (The wait of close() re-tests its condition.)
\* It matters where close_requested is set in the same critical section; the
\* broadcasts of other state changes end waits that may end at any time.
Woken(pc) == CASE pc = "suspended"   -> "resume"
               [] pc = "backoffWait" -> "top"
               [] OTHER              -> pc

WakeAll == [t \in ServiceThreads |-> Woken(threadPc[t])]

\* close(), first critical section.
CloseBegin ==
  /\ app = "idle"
  /\ closeReq' = TRUE
  /\ threadPc' = WakeAll
  /\ app' = "wait"
  /\ UNCHANGED <<state, writing, ws, retryVars, needRefresh, alive, handleVars, fatal>>

\* Mutant of CloseWait: a close() that timed out returns, as if it had joined.
CloseWait_TimeoutReturns ==
  /\ app = "wait"
  /\ \/ state \in {"CLOSED", "FAILED"} /\ app' = "join" /\ UNCHANGED running
     \/ state \notin {"CLOSED", "FAILED"} /\ app' = "idle" /\ running' = FALSE
  /\ UNCHANGED <<stateVars, threadPc, writing, ws, retryVars, needRefresh, alive,
                 service_thread, overwritten, fatal>>

\* close(), the wait loop: left when the state is terminal or on a timeout.
CloseWait ==
  /\ app = "wait" /\ app' = "join"
  /\ UNCHANGED <<stateVars, threadPc, writing, ws, retryVars, needRefresh, alive,
                 handleVars, fatal>>

\* close(), ably_thread_join.
CloseJoin ==
  /\ app = "join"
  /\ IF running /\ service_thread # NoThread
     THEN threadPc[service_thread] = "exited" /\ Goto(service_thread, "none")
     ELSE UNCHANGED threadPc
  /\ running' = FALSE
  /\ app' = "idle"
  /\ UNCHANGED <<stateVars, writing, ws, retryVars, needRefresh, alive, service_thread,
                 overwritten, fatal>>

\* destroy(), behind the close() it calls when the service thread is running.
Destroy ==
  /\ app = "idle" /\ ~running
  /\ app' = "destroyed"
  /\ UNCHANGED <<stateVars, threadPc, writing, ws, retryVars, needRefresh, alive,
                 handleVars, fatal>>

-----------------------------------------------------------------------------
(* Service thread t.                                                       *)

\* Top of the outer loop.  A connect begins by clearing the transport's flag.
Top(t) ==
  /\ threadPc[t] = "top"
  /\ \/ closeReq /\ state' = "CLOSED" /\ Goto(t, "exited") /\ UNCHANGED ws
     \/ ~closeReq /\ state' = "CONNECTING" /\ Goto(t, "dial") /\ ws' = FALSE
  /\ UNCHANGED <<closeReq, writing, retryVars, needRefresh, alive, appVars, fatal>>

\* ably_ws_connect succeeds or fails; the watchdog is disarmed before it.
DialHost(t) ==
  /\ threadPc[t] = "dial"
  /\ alive' = FALSE
  /\ \/ ws' = TRUE /\ Goto(t, "loop")
     \/ ws' = FALSE /\ Goto(t, "disconnected")
  /\ UNCHANGED <<stateVars, writing, retryVars, needRefresh, appVars, fatal>>

\* Mutant of LoopTest: the event loop does not look at close_requested.
LoopTest_IgnoresClose(t) ==
  /\ threadPc[t] = "loop"
  /\ \/ ~ws /\ Goto(t, "stopTest") /\ UNCHANGED writing
     \/ ws /\ Goto(t, "recv") /\ writing' \in {writing, writing \cup {t}}
  /\ UNCHANGED <<stateVars, ws, retryVars, needRefresh, alive, appVars, fatal>>

\* Head of the event loop: Ably's CLOSE and the close frame are written, or the
\* frame of the ring if there is one.
LoopTest(t) ==
  /\ threadPc[t] = "loop"
  /\ \/ ~ws /\ Goto(t, "stopTest") /\ UNCHANGED writing
     \/ ws /\ closeReq /\ Goto(t, "closing") /\ writing' = writing \cup {t}
     \/ ws /\ ~closeReq /\ Goto(t, "recv") /\ writing' \in {writing, writing \cup {t}}
  /\ UNCHANGED <<stateVars, ws, retryVars, needRefresh, alive, appVars, fatal>>

\* wslay_send_callback returns when the peer has taken all of the frame, or
\* with an error; while the peer takes nothing it tries again, without a limit.
WriteReturns(t) ==
  /\ t \in writing /\ writing' = writing \ {t}
  /\ ws' \in {ws, FALSE}
  /\ UNCHANGED <<stateVars, threadPc, retryVars, needRefresh, alive, appVars, fatal>>

\* Frames are dispatched by ably_ws_recv_once and, while the closing handshake
\* is awaited, by ably_ws_close.
Dispatching(t) == threadPc[t] \in {"recv", "closing"} /\ ws /\ t \notin writing

\* The heartbeat is echoed at once on the socket, but not behind a close frame.
OnHeartbeat(t) ==
  /\ Dispatching(t)
  /\ alive' = TRUE
  /\ writing' = IF threadPc[t] = "recv" THEN writing \cup {t} ELSE writing
  /\ UNCHANGED <<stateVars, threadPc, ws, retryVars, needRefresh, appVars, fatal>>

OnConnected(t) ==
  /\ Dispatching(t)
  /\ state' = "CONNECTED"
  /\ alive' = TRUE
  /\ hostIdx' = 0 /\ attempt' = 0
  /\ needRefresh' = FALSE
  /\ UNCHANGED <<closeReq, threadPc, writing, ws, skipBackoff, appVars, fatal>>

OnDisconnected(t, code) ==
  /\ Dispatching(t)
  /\ needRefresh' = (needRefresh \/ (code = "token" /\ HasAuthCb))
  /\ UNCHANGED <<stateVars, threadPc, writing, ws, retryVars, alive, appVars, fatal>>

Renewable(code) == code = "token" /\ HasAuthCb
Fatal(code) == code \in {"token", "client"} /\ ~Renewable(code)

\* Mutant of OnError: a fatal error does not request the close.
OnError_NoCloseRequest(t, code) ==
  /\ Dispatching(t)
  /\ state' = IF Fatal(code) THEN "FAILED" ELSE state
  /\ threadPc' = IF Fatal(code) THEN WakeAll ELSE threadPc
  /\ fatal' = (fatal \/ Fatal(code))
  /\ needRefresh' = (needRefresh \/ Renewable(code))
  /\ UNCHANGED <<closeReq, writing, ws, retryVars, alive, appVars>>

OnError(t, code) ==
  /\ Dispatching(t)
  /\ state' = IF Fatal(code) THEN "FAILED" ELSE state
  /\ closeReq' = (closeReq \/ Fatal(code))
  /\ threadPc' = IF Fatal(code) THEN WakeAll ELSE threadPc
  /\ fatal' = (fatal \/ Fatal(code))
  /\ needRefresh' = (needRefresh \/ Renewable(code))
  /\ UNCHANGED <<writing, ws, retryVars, alive, appVars>>

OnClosed(t) ==
  /\ Dispatching(t)
  /\ state' = "CLOSED"
  /\ UNCHANGED <<closeReq, threadPc, writing, ws, retryVars, needRefresh, alive, appVars,
                 fatal>>

\* The rest of one turn of the event loop: the peer may be gone (ws), nothing
\* may happen, or the watchdog may leave the loop with the socket still open.
RecvDone(t) ==
  /\ threadPc[t] = "recv" /\ t \notin writing
  /\ \/ ws' \in {ws, FALSE} /\ Goto(t, "loop")
     \/ alive /\ Goto(t, "stopTest") /\ UNCHANGED ws
  /\ UNCHANGED <<stateVars, writing, retryVars, needRefresh, alive, appVars, fatal>>

\* ably_ws_close returned: the state becomes CLOSED.
CloseDone(t) ==
  /\ threadPc[t] = "closing" /\ t \notin writing
  /\ ws' = FALSE
  /\ state' = "CLOSED"
  /\ Goto(t, "stopTest")
  /\ UNCHANGED <<closeReq, writing, retryVars, needRefresh, alive, appVars, fatal>>

\* Mutant of StopTest: a connection lost before it was CONNECTED is given up.
StopTest_GiveUp(t) ==
  /\ threadPc[t] = "stopTest"
  /\ Goto(t, IF closeReq \/ state # "CONNECTED" THEN "exited" ELSE "disconnected")
  /\ UNCHANGED <<stateVars, writing, ws, retryVars, needRefresh, alive, appVars, fatal>>

\* Stop or reconnect?  Stopping here does not change the state.
StopTest(t) ==
  /\ threadPc[t] = "stopTest"
  /\ Goto(t, IF closeReq \/ state \in {"FAILED", "CLOSED"} THEN "exited"
             ELSE "disconnected")
  /\ UNCHANGED <<stateVars, writing, ws, retryVars, needRefresh, alive, appVars, fatal>>

Disconnected(t) ==
  /\ threadPc[t] = "disconnected"
  /\ state' = "DISCONNECTED"
  /\ Goto(t, IF needRefresh /\ HasAuthCb THEN "auth" ELSE "host")
  /\ UNCHANGED <<closeReq, writing, ws, retryVars, needRefresh, alive, appVars, fatal>>

\* auth_cb returns a token or fails; the request is forgotten either way.
AuthCallback(t) ==
  /\ threadPc[t] = "auth"
  /\ needRefresh' = FALSE
  /\ skipBackoff' \in {skipBackoff, TRUE}
  /\ Goto(t, "host")
  /\ UNCHANGED <<stateVars, writing, ws, hostIdx, attempt, alive, appVars, fatal>>

\* The next fallback host is tried at once; after the last one the primary is
\* next, and the thread goes on to the retry limits.
NextHost(t) ==
  /\ threadPc[t] = "host"
  /\ \/ /\ hostIdx + 1 <= FallbackCount
        /\ hostIdx' = hostIdx + 1
        /\ Goto(t, "top")
     \/ /\ hostIdx + 1 > FallbackCount
        /\ hostIdx' = 0
        /\ Goto(t, "attempts")
  /\ UNCHANGED <<stateVars, writing, ws, attempt, skipBackoff, needRefresh, alive, appVars,
                 fatal>>

\* SUSPENDED is set and the wait for the TTL begins in one critical section,
\* which does not look at close_requested.
Attempts(t) ==
  /\ threadPc[t] = "attempts"
  /\ \/ /\ MaxAttempts > 0 /\ attempt >= MaxAttempts
        /\ state' = "SUSPENDED" /\ Goto(t, "suspended")
     \/ /\ ~(MaxAttempts > 0 /\ attempt >= MaxAttempts)
        /\ Goto(t, "backoff") /\ UNCHANGED state
  /\ UNCHANGED <<closeReq, writing, ws, retryVars, needRefresh, alive, appVars, fatal>>

\* Mutant of SuspendTimeout: the wait has no time limit.
SuspendTimeout_Never(t) ==
  /\ threadPc[t] = "never"
  /\ UNCHANGED connVars

SuspendTimeout(t) ==
  /\ threadPc[t] = "suspended"
  /\ Goto(t, "resume")
  /\ UNCHANGED <<stateVars, writing, ws, retryVars, needRefresh, alive, appVars, fatal>>

Resume(t) ==
  /\ threadPc[t] = "resume"
  /\ attempt' = 0
  /\ Goto(t, "backoff")
  /\ UNCHANGED <<stateVars, writing, ws, hostIdx, skipBackoff, needRefresh, alive, appVars,
                 fatal>>

\* After a token refresh there is no backoff; stopping here does not change
\* the state.
SkipBackoff(t) ==
  /\ threadPc[t] = "backoff" /\ skipBackoff
  /\ skipBackoff' = FALSE
  /\ Goto(t, IF closeReq THEN "exited" ELSE "top")
  /\ UNCHANGED <<stateVars, writing, ws, hostIdx, attempt, needRefresh, alive, appVars,
                 fatal>>

CountAttempt == IF attempt < AttemptCap THEN attempt + 1 ELSE attempt

\* Mutant of Backoff: the wait begins without a look at close_requested.
Backoff_NoCloseTest(t) ==
  /\ threadPc[t] = "backoff" /\ ~skipBackoff
  /\ attempt' = CountAttempt
  /\ Goto(t, "backoffWait")
  /\ UNCHANGED <<stateVars, writing, ws, hostIdx, skipBackoff, needRefresh, alive, appVars,
                 fatal>>

Backoff(t) ==
  /\ threadPc[t] = "backoff" /\ ~skipBackoff
  /\ attempt' = CountAttempt
  /\ Goto(t, IF closeReq THEN "top" ELSE "backoffWait")
  /\ UNCHANGED <<stateVars, writing, ws, hostIdx, skipBackoff, needRefresh, alive, appVars,
                 fatal>>

BackoffTimeout(t) ==
  /\ threadPc[t] = "backoffWait"
  /\ Goto(t, "top")
  /\ UNCHANGED <<stateVars, writing, ws, retryVars, needRefresh, alive, appVars, fatal>>

-----------------------------------------------------------------------------
Frames(t) ==
  \/ OnHeartbeat(t) \/ OnConnected(t)
  \/ \E c \in Code : OnDisconnected(t, c) \/ OnError(t, c)
  \/ OnClosed(t)

\* The steps the service thread takes by itself; each wait ends by itself.
Thread(t) ==
  \/ Top(t) \/ DialHost(t) \/ LoopTest(t) \/ RecvDone(t) \/ CloseDone(t) \/ StopTest(t)
  \/ Disconnected(t) \/ AuthCallback(t) \/ NextHost(t) \/ Attempts(t) \/ SuspendTimeout(t)
  \/ Resume(t) \/ SkipBackoff(t) \/ Backoff(t) \/ BackoffTimeout(t)

Application == Connect \/ CloseBegin \/ CloseWait \/ CloseJoin \/ Destroy

ServiceStep(t) == app # "destroyed" /\ (Frames(t) \/ Thread(t) \/ WriteReturns(t))

ConnNext == Application \/ \E t \in ServiceThreads : ServiceStep(t)

ConnSpec == ConnInit /\ [][ConnNext]_connVars

\* The service threads are scheduled, their timed waits, their dials and auth_cb
\* return, and so do the wait and the join of close().  One receive call takes
\* finitely many frames, though each may be echoed: the strong fairness.  A write
\* returns when the peer reads, which nothing obliges it to.  Nothing is assumed
\* of what the server sends, nor that the application calls anything.
ConnFairSpec ==
  /\ ConnSpec /\ WF_connVars(CloseWait) /\ WF_connVars(CloseJoin)
  /\ \A t \in ServiceThreads :
       /\ WF_connVars(app # "destroyed" /\ Thread(t))
       /\ SF_connVars(app # "destroyed" /\ RecvDone(t))

-----------------------------------------------------------------------------
ThreadPc == {"none", "top", "dial", "loop", "recv", "closing", "stopTest",
             "disconnected", "auth", "host", "attempts", "suspended", "resume",
             "backoff", "backoffWait", "exited"}

FlagsOK ==
  /\ closeReq \in BOOLEAN
  /\ ws \in BOOLEAN
  /\ skipBackoff \in BOOLEAN
  /\ needRefresh \in BOOLEAN
  /\ alive \in BOOLEAN
  /\ running \in BOOLEAN
  /\ fatal \in BOOLEAN

\* What each variable holds; current_host_idx names a host at every dial.
ConnTypeOK ==
  /\ state \in ConnState
  /\ threadPc \in [ServiceThreads -> ThreadPc]
  /\ writing \subseteq ServiceThreads /\ overwritten \subseteq ServiceThreads
  /\ service_thread \in ServiceThreads \cup {NoThread}
  /\ hostIdx \in 0 .. FallbackCount
  /\ attempt \in 0 .. AttemptCap
  /\ app \in {"idle", "wait", "join", "destroyed"}
  /\ FlagsOK

\* No service thread exists that a close() or destroy() would not join, even
\* after a close() that timed out, but for those a connect() was called on top
\* of: close() and destroy() leave nothing behind that the application had not
\* lost before.
NoOrphanThread ==
  \A t \in ServiceThreads :
    threadPc[t] # "none" => (running /\ t = service_thread) \/ t \in overwritten

\* A close() cannot miss the backoff sleep: when it is requested no service
\* thread is, nor will be, asleep in the backoff.
BackoffSeesClose == \A t \in ServiceThreads : threadPc[t] = "backoffWait" => ~closeReq

\* With a retry limit, no more than MaxAttempts rounds of all hosts fail before
\* the client reports SUSPENDED, unless two threads share the count.
AttemptsLimited == MaxAttempts > 0 /\ overwritten = {} => attempt <= MaxAttempts

\* A service thread does not end by itself: whatever is lost, refused or timed
\* out, and whenever connect() and close() come, it ends only in a terminal
\* state or with a close() pending.
Ends(t) == threadPc[t] # "exited" /\ threadPc'[t] = "exited"
ExitHasReason ==
  [][\A t \in ServiceThreads :
       Ends(t) => state' \in {"CLOSED", "FAILED"} \/ closeReq']_connVars

\* A fatal ERROR ends the session: the client does not dial again until the
\* application calls connect(), whatever frames follow the error.
Dials(t) == threadPc[t] # "dial" /\ threadPc'[t] = "dial"
NoRetryAfterFatal == [][\A t \in ServiceThreads : Dials(t) => ~fatal]_connVars

\* close() returns, whatever the service thread was doing when it was called and
\* whether or not the server answers, unless a write of that thread waits for
\* ever for a peer that does not read.
Stalled == service_thread \in writing
CloseReturns ==
  app \in {"wait", "join"} ~> (app \in {"idle", "destroyed"} \/ []Stalled)

\* A client that lost its connection dials again, through fallback hosts, token
\* refresh, SUSPENDED and backoff, unless a close is requested or the client is
\* freed under a thread whose handle was lost.
Redials ==
  \A t \in ServiceThreads :
    threadPc[t] = "disconnected"
      ~> threadPc[t] = "dial" \/ closeReq \/ (app = "destroyed" /\ t \in overwritten)

-----------------------------------------------------------------------------
(* The inductive invariant behind the safety properties.                   *)

\* A fatal error keeps the close requested until the next connect().
FatalIsClosing == fatal => closeReq

\* The counter is below its limit when the backoff is about to count.
AttemptsBelowLimit ==
  MaxAttempts > 0 /\ overwritten = {} =>
    /\ attempt <= MaxAttempts
    /\ \A t \in ServiceThreads : threadPc[t] = "backoff" => attempt < MaxAttempts

\* The strengthening that every step preserves.
IInv ==
  /\ ConnTypeOK
  /\ NoOrphanThread
  /\ BackoffSeesClose
  /\ AttemptsBelowLimit
  /\ FatalIsClosing

-----------------------------------------------------------------------------
(* What the code does not do, though one may expect it.                    *)

\* test_realtime.c:131, "state is CLOSED after close"; realtime_client.c:454,
\* "we must set it here so the waiting thread is not left stuck until
\* timeout": a service thread that has exited has left a terminal state.
ExitLeavesTerminalState ==
  [][\A t \in ServiceThreads : Ends(t) => state' \in {"CLOSED", "FAILED"}]_connVars

\* ably_realtime.h:127, "Closes first if still connected": no service thread is
\* at work on a client that was destroyed.
DestroyEndsThreads ==
  app = "destroyed" => \A t \in ServiceThreads : threadPc[t] \in {"none", "exited"}
=============================================================================
