--------------------------- MODULE LockOrderProofs ---------------------------
(***************************************************************************)
(* The mutexes of a manager are always taken in the order clients_map_,    *)
(* a client's, impl's queue.  Hence no set of threads waits for itself, for*)
(* any number of threads and clients.                                      *)
(***************************************************************************)
EXTENDS LockOrder, TLAPS

\* The order in which mutexes are taken; the two of a client are never
\* nested.
Rank == [kind \in {"map", "recv", "write", "out"} |->
  CASE kind = "map" -> 1
    [] kind = "recv" -> 2
    [] kind = "write" -> 2
    [] kind = "out" -> 3]

RankOf(s) == Rank[Mutex[s]]

TypeOK ==
  /\ stack \in [Threads -> Seq(Sites)]
  /\ waiting \in [Threads -> Sites \cup {"none"}]

\* A thread's mutexes rise in rank, and so does the one it asks for.
Rising ==
  \A t \in Threads :
    /\ \A i, j \in DOMAIN stack[t] : i < j => RankOf(stack[t][i]) < RankOf(stack[t][j])
    /\ waiting[t] # "none" =>
         \A i \in DOMAIN stack[t] : RankOf(stack[t][i]) < RankOf(waiting[t])

IInv == TypeOK /\ Rising

\* Every site has a rank between 1 and 3; a call inside a lock_guard goes up
\* in rank.
LEMMA Ranks ==
  /\ \A s \in Sites : RankOf(s) \in 1 .. 3
  /\ \A s, r \in Sites : <<s, r>> \in Calls => RankOf(s) < RankOf(r)
  /\ Roots \subseteq Sites
  /\ "none" \notin Sites
<1>1. /\ Mutex["connect_request"] = "recv" /\ Mutex["read_some"] = "recv"
      /\ Mutex["send_disconnect"] = "recv" /\ Mutex["notify"] = "recv"
      /\ Mutex["set_connected"] = "recv" /\ Mutex["set_connected_2"] = "write"
      /\ Mutex["add_send_buffer"] = "write" /\ Mutex["send_buffer"] = "write"
      /\ Mutex["impl_add_send_buffer"] = "out" /\ Mutex["finished"] = "map"
      /\ Mutex["finished_2"] = "out" /\ Mutex["remove_client"] = "map"
      /\ Mutex["new_client"] = "map" /\ Mutex["recv_answer"] = "map"
      /\ Mutex["recv_data"] = "map"
  BY DEF Mutex
<1>2. Rank["map"] = 1 /\ Rank["recv"] = 2 /\ Rank["write"] = 2 /\ Rank["out"] = 3
  BY DEF Rank
<1>3. Sites = { "connect_request", "read_some", "send_disconnect", "notify",
                "set_connected", "set_connected_2", "add_send_buffer",
                "send_buffer", "impl_add_send_buffer", "finished", "finished_2",
                "remove_client", "new_client", "recv_answer", "recv_data" }
  BY DEF Sites, Mutex
<1>4. \A s \in Sites : RankOf(s) \in 1 .. 3
  BY <1>1, <1>2, <1>3 DEF RankOf
<1>5. ASSUME NEW s \in Sites, NEW r \in Sites, <<s, r>> \in Calls
      PROVE  RankOf(s) < RankOf(r)
  BY <1>1, <1>2, <1>5 DEF RankOf, Calls
<1>6. Roots \subseteq Sites /\ "none" \notin Sites
  BY <1>3 DEF Roots
<1> QED
  BY <1>4, <1>5, <1>6

LEMMA InitInv == Init => IInv
<1> SUFFICES ASSUME Init PROVE IInv
  OBVIOUS
<1>1. TypeOK
  BY DEF Init, TypeOK
<1>2. \A t \in Threads : stack[t] = <<>> /\ waiting[t] = "none"
  BY DEF Init
<1>3. \A t \in Threads : \A i \in DOMAIN stack[t] : FALSE
  BY <1>2
<1>4. Rising
  BY <1>2, <1>3 DEF Rising
<1> QED
  BY <1>1, <1>4 DEF IInv

\* An operation asks for its first mutex with none held.
LEMMA EnterKeeps ==
  ASSUME IInv, NEW t \in Threads, NEW c \in Sids, NEW s \in Roots, Enter(t, c, s)
  PROVE  IInv'
<1>1. s \in Sites
  BY Ranks
<1>2. TypeOK'
  BY <1>1 DEF IInv, TypeOK, Enter
<1>3. Rising'
  BY DEF IInv, TypeOK, Rising, Enter
<1> QED
  BY <1>2, <1>3 DEF IInv

\* What a function asks for inside a lock_guard is above what is held.
LEMMA CallKeeps ==
  ASSUME IInv, NEW t \in Threads, NEW s \in Sites, Call(t, s)
  PROVE  IInv'
<1> DEFINE held == stack[t]
           top == held[Len(held)]
<1>1. TypeOK'
  BY DEF IInv, TypeOK, Call
<1>2. held \in Seq(Sites) /\ Len(held) \in DOMAIN held /\ top \in Sites
  BY DEF IInv, TypeOK, Call
<1>3. RankOf(top) < RankOf(s)
  BY <1>2, Ranks DEF Call
<1>4. ASSUME NEW i \in DOMAIN held
      PROVE  RankOf(held[i]) < RankOf(s)
  <2>1. i = Len(held) \/ i < Len(held)
    BY <1>2
  <2>2. RankOf(held[i]) \in Nat /\ RankOf(top) \in Nat /\ RankOf(s) \in Nat
    BY <1>2, Ranks
  <2>3. CASE i = Len(held)
    BY <2>3, <1>3
  <2>4. CASE i < Len(held)
    <3>1. RankOf(held[i]) < RankOf(top)
      BY <2>4, <1>2 DEF IInv, Rising
    <3> QED
      BY <3>1, <1>3, <2>2
  <2> QED
    BY <2>1, <2>3, <2>4
<1>5. Rising'
  BY <1>4 DEF IInv, TypeOK, Rising, Call
<1> QED
  BY <1>1, <1>5 DEF IInv

LEMMA LockKeeps ==
  ASSUME IInv, NEW t \in Threads, Lock(t)
  PROVE  IInv'
<1> DEFINE held == stack[t]
           s == waiting[t]
<1>1. held \in Seq(Sites) /\ s \in Sites
  BY DEF IInv, TypeOK, Lock
<1>2. TypeOK'
  BY <1>1 DEF IInv, TypeOK, Lock
<1>3. stack'[t] = Append(held, s) /\ waiting'[t] = "none"
  BY DEF IInv, TypeOK, Lock
<1>4. ASSUME NEW i \in DOMAIN stack'[t], NEW j \in DOMAIN stack'[t], i < j
      PROVE  RankOf(stack'[t][i]) < RankOf(stack'[t][j])
  <2>1. i \in DOMAIN held /\ stack'[t][i] = held[i]
    BY <1>1, <1>3, <1>4
  <2>2. CASE j \in DOMAIN held
    BY <1>1, <1>3, <1>4, <2>1, <2>2 DEF IInv, Rising
  <2>3. CASE j = Len(held) + 1
    BY <1>1, <1>3, <2>1, <2>3 DEF IInv, Rising, Lock
  <2> QED
    BY <1>1, <1>3, <1>4, <2>2, <2>3
<1>5. ASSUME NEW u \in Threads, u # t
      PROVE  stack'[u] = stack[u] /\ waiting'[u] = waiting[u]
  BY <1>5 DEF IInv, TypeOK, Lock
<1>6. Rising'
  BY <1>3, <1>4, <1>5 DEF IInv, Rising
<1> QED
  BY <1>2, <1>6 DEF IInv

LEMMA UnlockKeeps ==
  ASSUME IInv, NEW t \in Threads, Unlock(t)
  PROVE  IInv'
<1> DEFINE held == stack[t]
<1>1. held \in Seq(Sites) /\ held # <<>>
  BY DEF IInv, TypeOK, Unlock
<1>2. stack'[t] = SubSeq(held, 1, Len(held) - 1) /\ waiting'[t] = "none"
  BY DEF IInv, TypeOK, Unlock
<1>3. /\ stack'[t] \in Seq(Sites)
      /\ \A i \in DOMAIN stack'[t] : i \in DOMAIN held /\ stack'[t][i] = held[i]
  BY <1>1, <1>2
<1>4. TypeOK'
  BY <1>3 DEF IInv, TypeOK, Unlock
<1>5. ASSUME NEW u \in Threads, u # t
      PROVE  stack'[u] = stack[u] /\ waiting'[u] = waiting[u]
  BY <1>5 DEF IInv, TypeOK, Unlock
<1>6. Rising'
  BY <1>2, <1>3, <1>5 DEF IInv, Rising
<1> QED
  BY <1>4, <1>6 DEF IInv

LEMMA StepKeeps == IInv /\ [Next]_vars => IInv'
<1> SUFFICES ASSUME IInv, [Next]_vars PROVE IInv'
  OBVIOUS
<1>1. CASE \E t \in Threads, c \in Sids, s \in Roots : Enter(t, c, s)
  BY <1>1, EnterKeeps
<1>2. CASE \E t \in Threads, s \in Sites : Call(t, s)
  BY <1>2, CallKeeps
<1>3. CASE \E t \in Threads : Lock(t)
  BY <1>3, LockKeeps
<1>4. CASE \E t \in Threads : Unlock(t)
  BY <1>4, UnlockKeeps
<1>5. CASE UNCHANGED vars
  BY <1>5 DEF IInv, TypeOK, Rising, vars
<1> QED
  BY <1>1, <1>2, <1>3, <1>4, <1>5 DEF Next

\* A thread that is waited for asks, if at all, for a mutex above the one it
\* holds.
LEMMA WaitsAbove ==
  ASSUME IInv, NEW u \in Threads, NEW t \in Threads, Blocks(u, t),
         waiting[u] # "none"
  PROVE  RankOf(waiting[t]) < RankOf(waiting[u])
<1>1. PICK i \in DOMAIN stack[u] : SameMutex(stack[u][i], client[u], waiting[t], client[t])
  BY DEF Blocks
<1>2. RankOf(stack[u][i]) = RankOf(waiting[t])
  BY <1>1 DEF SameMutex, RankOf
<1> QED
  BY <1>2 DEF IInv, Rising

\* In a set of threads that waits for itself the ranks would rise for ever,
\* but there are three of them.
LEMMA RisingHasNoCycle == IInv => NoDeadlock
<1> SUFFICES ASSUME IInv, NEW T \in (SUBSET Threads) \ {{}},
                    \A t \in T : \E u \in T : Blocks(u, t)
             PROVE  FALSE
  BY DEF NoDeadlock
<1>1. \A t \in T : t \in Threads /\ waiting[t] # "none" /\ RankOf(waiting[t]) \in 1 .. 3
  BY Ranks DEF IInv, TypeOK, Blocks
<1>2. \A t \in T : \E u \in T : RankOf(waiting[t]) < RankOf(waiting[u])
  BY <1>1, WaitsAbove
<1>3. \A t \in T : RankOf(waiting[t]) # 3
  BY <1>1, <1>2
<1>4. \A t \in T : RankOf(waiting[t]) # 2
  BY <1>1, <1>2, <1>3
<1>5. \A t \in T : RankOf(waiting[t]) # 1
  BY <1>1, <1>2, <1>3, <1>4
<1> QED
  BY <1>1, <1>3, <1>4, <1>5

\* No set of threads inside a manager ever waits for itself, whatever the
\* number of threads and of clients.
THEOREM NoDeadlockTheorem == Spec => []NoDeadlock
<1>1. Init => IInv
  BY InitInv
<1>2. IInv /\ [Next]_vars => IInv'
  BY StepKeeps
<1>3. IInv => NoDeadlock
  BY RisingHasNoCycle
<1> QED
  BY <1>1, <1>2, <1>3, PTL DEF Spec
=============================================================================
