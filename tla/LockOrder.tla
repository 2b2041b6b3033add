------------------------------ MODULE LockOrder ------------------------------
(***************************************************************************)
(* The mutexes of a manager.  Every lock_guard of the two files is a site: *)
(* the other modules run from the first site a thread enters to the last   *)
(* one it leaves as one step, here threads enter and leave them one by     *)
(* one.  A site locks clients_map_mutex_ ("map") or impl's                 *)
(* send_buffers_mutex_ ("out"), one of each per manager, or a client's     *)
(* recv_buffers_mutex_ ("recv") or send_buffers_mutex_ ("write").  The     *)
(* mutexes are not recursive.  Any thread may run any operation, for any   *)
(* client: the pool, the host's threads and the system executor.           *)
(***************************************************************************)
EXTENDS Naturals, Sequences

CONSTANTS
  Threads,    \* the threads that may be inside a manager at once
  Sids        \* socket ids

VARIABLES
  stack,      \* per thread, the sites it is inside of, outermost first
  waiting,    \* the site whose mutex it asks for, "none" if it asks for none
  client      \* the client the thread's operation is about

vars == <<stack, waiting, client>>

\* What each site locks.
Mutex == [
  connect_request    |-> "recv",   \* a request or an answer is pushed and sent
  read_some          |-> "recv",   \* the read callback
  send_disconnect    |-> "recv",
  notify             |-> "recv",   \* notify_main_socket_complete
  set_connected      |-> "recv",   \* its first block
  set_connected_2    |-> "write",  \* its second block
  add_send_buffer    |-> "write",  \* the client's
  send_buffer        |-> "write",  \* the write callback
  impl_add_send_buffer |-> "out",
  finished           |-> "map",    \* send_buffer_finished, first block
  finished_2         |-> "out",    \* its second block
  remove_client      |-> "map",
  new_client         |-> "map",    \* do_accept, or recv() of tcp_connect
  recv_answer        |-> "map",    \* recv() of tcp_connect by the client
  recv_data          |-> "map"]    \* recv() of tcp_data

Sites == DOMAIN Mutex

\* Mutant: remove_self() is called where it is posted.
CallsUnposted ==
  { <<"finished", "notify">>,
    <<"recv_answer", "set_connected">>, <<"recv_answer", "set_connected_2">>,
    <<"recv_answer", "add_send_buffer">>, <<"recv_data", "add_send_buffer">>,
    <<"connect_request", "impl_add_send_buffer">>,
    <<"read_some", "impl_add_send_buffer">>,
    <<"send_disconnect", "impl_add_send_buffer">>,
    <<"send_disconnect", "remove_client">>,
    <<"notify", "impl_add_send_buffer">>,
    <<"set_connected", "impl_add_send_buffer">> }

\* <<outer, inner>>: inside outer's lock_guard the code calls the function of
\* inner.  remove_self() is posted, asio runs no handler inside the function
\* that starts its operation, and cb_send_buffer_ ("send is an asynchronous
\* callback function") only starts a write of the host, so under "out"
\* nothing is called.
Calls ==
  { <<"finished", "notify">>,
    <<"recv_answer", "set_connected">>, <<"recv_answer", "set_connected_2">>,
    <<"recv_answer", "add_send_buffer">>, <<"recv_data", "add_send_buffer">>,
    <<"connect_request", "impl_add_send_buffer">>,
    <<"read_some", "impl_add_send_buffer">>,
    <<"send_disconnect", "impl_add_send_buffer">>,
    <<"notify", "impl_add_send_buffer">>,
    <<"set_connected", "impl_add_send_buffer">> }

\* The sites entered with no mutex held.
Roots ==
  { "connect_request", "read_some", "send_disconnect", "send_buffer", "finished",
    "finished_2", "remove_client", "new_client", "recv_answer", "recv_data" }
-----------------------------------------------------------------------------
SameMutex(s, c, r, d) == Mutex[s] = Mutex[r] /\ (Mutex[s] \in {"map", "out"} \/ c = d)

\* u (or t itself) is inside a site that locked what t asks for.
Blocks(u, t) ==
  /\ waiting[t] # "none"
  /\ \E i \in DOMAIN stack[u] : SameMutex(stack[u][i], client[u], waiting[t], client[t])

\* An operation begins, and asks for its first mutex.
Enter(t, c, s) ==
  /\ stack[t] = <<>> /\ waiting[t] = "none"
  /\ s \in Roots
  /\ waiting' = [waiting EXCEPT ![t] = s]
  /\ client' = [client EXCEPT ![t] = c]
  /\ UNCHANGED stack

\* With a mutex held, a function is called that asks for another.
Call(t, s) ==
  /\ stack[t] # <<>> /\ waiting[t] = "none"
  /\ <<stack[t][Len(stack[t])], s>> \in Calls
  /\ waiting' = [waiting EXCEPT ![t] = s]
  /\ UNCHANGED <<stack, client>>

\* The mutex is free: the thread gets it.
Lock(t) ==
  /\ waiting[t] # "none"
  /\ \A u \in Threads : ~Blocks(u, t)
  /\ stack' = [stack EXCEPT ![t] = Append(@, waiting[t])]
  /\ waiting' = [waiting EXCEPT ![t] = "none"]
  /\ UNCHANGED client

\* The innermost lock_guard goes out of scope.
Unlock(t) ==
  /\ stack[t] # <<>> /\ waiting[t] = "none"
  /\ stack' = [stack EXCEPT ![t] = SubSeq(@, 1, Len(@) - 1)]
  /\ UNCHANGED <<waiting, client>>

Init ==
  /\ stack = [t \in Threads |-> <<>>]
  /\ waiting = [t \in Threads |-> "none"]
  /\ client \in [Threads -> Sids]

Next ==
  \E t \in Threads :
    \/ \E c \in Sids, s \in Roots : Enter(t, c, s)
    \/ \E s \in Sites : Call(t, s)
    \/ Lock(t)
    \/ Unlock(t)

Spec == Init /\ [][Next]_vars
-----------------------------------------------------------------------------
(* Properties.                                                             *)

\* No set of threads waits for itself: not a thread for a mutex it holds, not
\* two or three in a ring, whichever operations meet.  ("use post to aviod
\* deadlock", client_manager.cpp:290, server_manager.cpp:237.)
NoDeadlock ==
  \A T \in (SUBSET Threads) \ {{}} : \E t \in T : \A u \in T : ~Blocks(u, t)
=============================================================================
