------------------------------ MODULE Lifecycle ------------------------------
(***************************************************************************)
(* client_manager from start() to its destructor: the steps of the host's  *)
(* thread, the threads of the pool, and the proxy settings of Windows,     *)
(* which start() points at the proxy and the destructor resets; on other   *)
(* systems there are none to set.  The acceptor listens on every address   *)
(* of the machine, so a browser comes whenever it likes, because of the    *)
(* settings or configured by hand.  The process may end without the        *)
(* destructor, as demo/client.cpp does when its main transport fails; the  *)
(* settings survive it.                                                    *)
(***************************************************************************)
EXTENDS Naturals, Sequences

CONSTANTS
  Workers,      \* threads that may be started
  MaxEntries,   \* bound: RAS entries of the system
  MaxConns,     \* bound: operations outstanding when a browser connects
  MaxRuns       \* bound: processes, one after the other

ASSUME BoundsAssumption == {MaxEntries, MaxConns, MaxRuns} \subseteq Nat

VARIABLES
  at,               \* the step the host's thread is at
  thread_count_,    \* what hardware_concurrency() returned
  worker,           \* none, idle (in io_context::run), accepting, requesting, exited
  open,             \* acceptor_ listens
  accept,           \* async_accept: none, pending, ready, aborted
  conns,            \* operations outstanding on browsers' connections
  stopped,          \* ioc_.stopped()
  callback,         \* cb_send_buffer_ is set
  crashed,          \* an empty cb_send_buffer_ was called: std::terminate
  failed,           \* history: start() returned false
  win32,            \* the program was built for Windows
  entries, entry,   \* RAS entries (0 is the default connection); the next to set
  settings,         \* per entry: off, pac (the proxy)
  broken,           \* history: a call of sysproxy_main stopped half way
  stale,            \* history: this process met settings of an earlier one
  runs

poolVars == <<thread_count_, worker, open, accept, conns, stopped, callback,
              crashed, failed>>
settingsVars == <<win32, entries, entry, settings, broken, stale>>
vars == <<at, poolVars, settingsVars, runs>>

\* Mutant: the browsers learn of the proxy before it has its callback.
StepsPacFirst ==
  <<"construct", "do_accept", "threads", "add_reg_pac", "set_callback", "run",
    "delete_reg_pac", "close", "stop", "join", "gone">>

\* Mutant: the proxy stops listening before the browsers are sent elsewhere.
StepsCloseFirst ==
  <<"construct", "do_accept", "threads", "set_callback", "add_reg_pac", "run",
    "close", "delete_reg_pac", "stop", "join", "gone">>

\* Mutant: the threads are left to run out of work.
StepsNoStop ==
  <<"construct", "do_accept", "threads", "set_callback", "add_reg_pac", "run",
    "delete_reg_pac", "close", "join", "gone", "stop">>

\* Mutant: the threads are not joined.
StepsNoJoin ==
  <<"construct", "do_accept", "threads", "set_callback", "add_reg_pac", "run",
    "delete_reg_pac", "close", "stop", "gone", "join">>

\* start() up to "run", the destructor from there on.
Steps ==
  <<"construct", "do_accept", "threads", "set_callback", "add_reg_pac", "run",
    "delete_reg_pac", "close", "stop", "join", "gone">>

Doing(step) == ~crashed /\ Steps[at] = step
Advance == at' = at + 1
GoTo(step) == at' = CHOOSE i \in DOMAIN Steps : Steps[i] = step
-----------------------------------------------------------------------------
(* start(): on the host's thread.                                          *)

\* The acceptor binds the port, or start() returns false with nothing made.
Construct ==
  /\ Doing("construct")
  /\ \/ Advance /\ open' = TRUE /\ UNCHANGED failed
     \/ GoTo("gone") /\ failed' = TRUE /\ UNCHANGED open
  /\ UNCHANGED <<thread_count_, worker, accept, conns, stopped, callback, crashed,
                 settingsVars, runs>>

DoAccept ==
  /\ Doing("do_accept")
  /\ Advance
  /\ accept' = "pending"
  /\ UNCHANGED <<thread_count_, worker, open, conns, stopped, callback, crashed,
                 failed, settingsVars, runs>>

Started == { w \in Workers : worker[w] # "none" }

\* One thread after the other, thread_count_ of them, which may be none.
StartThread(w) ==
  /\ Doing("threads") /\ worker[w] = "none" /\ Started # thread_count_
  /\ w \in thread_count_
  /\ worker' = [worker EXCEPT ![w] = "idle"]
  /\ UNCHANGED <<at, thread_count_, open, accept, conns, stopped, callback, crashed,
                 failed, settingsVars, runs>>

ThreadsStarted ==
  /\ Doing("threads") /\ Started = thread_count_
  /\ Advance
  /\ UNCHANGED <<poolVars, settingsVars, runs>>

\* A thread cannot be created: start() returns false, the acceptor and the
\* threads before it remain.
ThreadFails ==
  /\ Doing("threads") /\ Started # thread_count_
  /\ GoTo("run")
  /\ failed' = TRUE
  /\ UNCHANGED <<thread_count_, worker, open, accept, conns, stopped, callback, crashed,
                 settingsVars, runs>>

SetCallback ==
  /\ Doing("set_callback")
  /\ Advance
  /\ callback' = TRUE
  /\ UNCHANGED <<thread_count_, worker, open, accept, conns, stopped, crashed,
                 failed, settingsVars, runs>>
-----------------------------------------------------------------------------
(* sysproxy_main(): the default connection, then every RAS entry.          *)

Applying == Doing("add_reg_pac") \/ Doing("delete_reg_pac")

\* Outside Windows add_reg_pac and delete_reg_pac do nothing.
NoSettings ==
  /\ Applying /\ ~win32
  /\ Advance
  /\ UNCHANGED <<poolVars, settingsVars, runs>>

Value == IF Doing("add_reg_pac") THEN "pac" ELSE "off"

\* apply_connect succeeds; the last one ends the step.
SetEntry ==
  /\ Applying /\ win32
  /\ settings' = [settings EXCEPT ![entry] = Value]
  /\ IF entry < entries
       THEN entry' = entry + 1 /\ UNCHANGED <<at, stale>>
       ELSE /\ entry' = 0 /\ Advance
            /\ stale' = (stale /\ Value = "off")    \* they are this process's now
  /\ UNCHANGED <<poolVars, win32, entries, broken, runs>>

\* An enumeration or a system call of apply_connect fails, before the entry
\* is set or after: the rest is left as it is, and nobody looks at the result.
ApplyFails ==
  /\ Applying /\ win32
  /\ \/ settings' = [settings EXCEPT ![entry] = Value]
     \/ UNCHANGED settings
  /\ entry' = 0 /\ Advance
  /\ broken' = TRUE
  /\ UNCHANGED <<poolVars, win32, entries, stale, runs>>
-----------------------------------------------------------------------------
(* The destructor, and the end of the process.                             *)

\* The host deletes the manager.
Destroy ==
  /\ Doing("run")
  /\ Advance
  /\ UNCHANGED <<poolVars, settingsVars, runs>>

Close ==
  /\ Doing("close")
  /\ Advance
  /\ open' = FALSE
  /\ accept' = IF accept = "pending" THEN "aborted" ELSE accept
  /\ UNCHANGED <<thread_count_, worker, conns, stopped, callback, crashed,
                 failed, settingsVars, runs>>

Stop ==
  /\ Doing("stop")
  /\ Advance
  /\ stopped' = TRUE
  /\ UNCHANGED <<thread_count_, worker, open, accept, conns, callback, crashed,
                 failed, settingsVars, runs>>

Join ==
  /\ Doing("join")
  /\ \A w \in Started : worker[w] = "exited"
  /\ Advance
  /\ UNCHANGED <<poolVars, settingsVars, runs>>

Fresh ==
  [worker |-> [w \in Workers |-> "none"], accept |-> "none", conns |-> 0]

\* The process ends, whatever it was doing, and another one may start.
ProcessEnds ==
  /\ at > 1 /\ runs < MaxRuns
  /\ runs' = runs + 1
  /\ at' = 1
  /\ worker' = Fresh.worker /\ accept' = Fresh.accept /\ conns' = Fresh.conns
  /\ open' = FALSE /\ stopped' = FALSE /\ callback' = FALSE /\ crashed' = FALSE
  /\ failed' = FALSE
  /\ entry' = 0 /\ broken' = FALSE
  /\ stale' = \E e \in 0 .. entries : settings[e] = "pac"
  /\ UNCHANGED <<thread_count_, win32, entries, settings>>
-----------------------------------------------------------------------------
(* The pool.  After stop() no handler begins, and those that run end.      *)

\* Anyone may connect, from the moment the acceptor listens.
BrowserConnects ==
  /\ open /\ accept = "pending" /\ conns < MaxConns /\ ~crashed
  /\ accept' = "ready"
  /\ UNCHANGED <<at, thread_count_, worker, open, conns, stopped, callback, crashed,
                 failed, settingsVars, runs>>

\* async_accept fails of itself.
AcceptFails ==
  /\ accept = "pending" /\ ~crashed
  /\ accept' = "aborted"
  /\ UNCHANGED <<at, thread_count_, worker, open, conns, stopped, callback, crashed,
                 failed, settingsVars, runs>>

Idle(w) == worker[w] = "idle" /\ ~stopped /\ ~crashed

\* The handler of async_accept: with an error it is over at once.
BeginAccept(w) ==
  /\ Idle(w) /\ accept \in {"ready", "aborted"}
  /\ worker' = [worker EXCEPT ![w] = IF accept = "ready" THEN "accepting" ELSE "idle"]
  /\ accept' = "none"
  /\ UNCHANGED <<at, thread_count_, open, conns, stopped, callback, crashed,
                 failed, settingsVars, runs>>

\* The client starts to read its header, and unless ioc_ is stopped the next
\* accept is started, which fails if the acceptor is closed.
EndAccept(w) ==
  /\ worker[w] = "accepting" /\ ~crashed
  /\ worker' = [worker EXCEPT ![w] = "idle"]
  /\ conns' = conns + 1
  /\ accept' = IF stopped THEN "none" ELSE IF open THEN "pending" ELSE "aborted"
  /\ UNCHANGED <<at, thread_count_, open, stopped, callback, crashed, failed,
                 settingsVars, runs>>

\* A handler of a connection: its header was read, say.
BeginRequest(w) ==
  /\ Idle(w) /\ conns > 0
  /\ worker' = [worker EXCEPT ![w] = "requesting"]
  /\ conns' = conns - 1
  /\ UNCHANGED <<at, thread_count_, open, accept, stopped, callback, crashed,
                 failed, settingsVars, runs>>

\* It sends a frame: cb_send_buffer_ is called.  Then the connection starts
\* its next operation or has ended.
EndRequest(w) ==
  /\ worker[w] = "requesting" /\ ~crashed
  /\ worker' = [worker EXCEPT ![w] = "idle"]
  /\ conns' \in {conns, conns + 1}
  /\ crashed' = ~callback
  /\ UNCHANGED <<at, thread_count_, open, accept, stopped, callback, failed,
                 settingsVars, runs>>

\* io_context::run returns: ioc_ is stopped, or it has run out of work, which
\* stops it for the other threads too.
WorkerExits(w) ==
  /\ worker[w] = "idle" /\ ~crashed
  /\ \/ stopped
     \/ accept = "none" /\ conns = 0 /\ \A u \in Workers :
                                          worker[u] \notin {"accepting", "requesting"}
  /\ worker' = [worker EXCEPT ![w] = "exited"]
  /\ stopped' = TRUE
  /\ UNCHANGED <<at, thread_count_, open, accept, conns, callback, crashed,
                 failed, settingsVars, runs>>
-----------------------------------------------------------------------------
Init ==
  /\ at = 1
  /\ thread_count_ \in SUBSET Workers
  /\ worker = Fresh.worker /\ accept = Fresh.accept /\ conns = Fresh.conns
  /\ open = FALSE /\ stopped = FALSE /\ callback = FALSE /\ crashed = FALSE
  /\ failed = FALSE
  /\ win32 \in BOOLEAN
  /\ entries \in 0 .. MaxEntries
  /\ entry = 0
  /\ settings = [e \in 0 .. MaxEntries |-> "off"]
  /\ broken = FALSE /\ stale = FALSE
  /\ runs = 1

Host ==
  \/ Construct
  \/ DoAccept
  \/ \E w \in Workers : StartThread(w)
  \/ ThreadsStarted
  \/ ThreadFails
  \/ SetCallback
  \/ NoSettings
  \/ SetEntry
  \/ ApplyFails
  \/ Destroy
  \/ Close
  \/ Stop
  \/ Join

Pool(w) ==
  \/ BeginAccept(w)
  \/ EndAccept(w)
  \/ BeginRequest(w)
  \/ EndRequest(w)
  \/ WorkerExits(w)

Next ==
  \/ Host
  \/ ProcessEnds
  \/ BrowserConnects
  \/ AcceptFails
  \/ \E w \in Workers : Pool(w)

Spec == Init /\ [][Next]_vars

(* Fairness: the steps of the destructor follow one another, handlers end, *)
(* and run() returns where it must.                                        *)
Fairness ==
  /\ WF_vars(NoSettings) /\ WF_vars(SetEntry)
  /\ WF_vars(Close) /\ WF_vars(Stop) /\ WF_vars(Join)
  /\ \A w \in Workers : /\ WF_vars(EndAccept(w))
                        /\ WF_vars(EndRequest(w))
                        /\ WF_vars(WorkerExits(w))

FairSpec == Spec /\ Fairness
-----------------------------------------------------------------------------
(* Properties.                                                             *)

\* start() runs the acceptor and the threads before set_callback(), so that a
\* request may find cb_send_buffer_ empty, and does: see CallbackIsSet.  How
\* long it may: from the first thread to set_callback(), and for good once
\* start() has returned false with threads running; never after start() has
\* returned true, so never a browser that the settings of this process sent.
NoEmptyCallback == crashed => Steps[at] \in {"threads", "set_callback"} \/ failed

\* What the asserts on the callback, in start() and in set_callback(), say of
\* the program: what a request calls has been set.
CallbackIsSet == ~crashed

\* The settings name the proxy only while it listens and has its callback,
\* from start() to the destructor; unless a process before left them, or a
\* system call failed half way through them.
SettingsAreServed ==
  (\E e \in 0 .. entries : settings[e] = "pac")
    => \/ open /\ callback
       \/ stale
       \/ broken

\* When the destructor has returned, no thread of the pool runs: the host is
\* not called back any more, and may free what its callback uses.
NothingRunsAfter ==
  Steps[at] = "gone" => \A w \in Workers : worker[w] \in {"none", "exited"}

\* The destructor returns, whatever browsers keep open.
DestructorReturns ==
  Steps[at] = "delete_reg_pac" ~> Steps[at] = "gone" \/ at = 1 \/ crashed
=============================================================================
