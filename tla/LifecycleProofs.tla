---------------------------- MODULE LifecycleProofs ----------------------------
(***************************************************************************)
(* Theorems about Lifecycle: for any number of threads, RAS entries,       *)
(* connections and processes.  The invariant relates the step the host's   *)
(* thread is at to what the pool does and to what the settings say.        *)
(***************************************************************************)
EXTENDS Lifecycle, TLAPS

LifecycleTypeOK ==
  /\ at \in 1 .. 11
  /\ thread_count_ \in SUBSET Workers
  /\ worker \in [Workers -> {"none", "idle", "accepting", "requesting", "exited"}]
  /\ open \in BOOLEAN
  /\ accept \in {"none", "pending", "ready", "aborted"}
  /\ conns \in Nat
  /\ stopped \in BOOLEAN /\ callback \in BOOLEAN /\ crashed \in BOOLEAN
  /\ failed \in BOOLEAN /\ win32 \in BOOLEAN
  /\ entries \in 0 .. MaxEntries
  /\ entry \in 0 .. entries
  /\ settings \in [0 .. MaxEntries -> {"off", "pac"}]
  /\ broken \in BOOLEAN /\ stale \in BOOLEAN

\* A browser may find the proxy by this entry.
Pac(e) == settings[e] = "pac"
Known == \E e \in 0 .. entries : Pac(e)

\* What the host's thread has done and not undone at its step; entry counts
\* the settings only while they are being set.
Position ==
  /\ at < 3 => \A w \in Workers : worker[w] = "none"
  /\ at \in 2 .. 8 => open
  /\ at >= 5 => callback \/ failed
  /\ at \notin {5, 7} => entry = 0
  /\ at = 11 => \A w \in Workers : worker[w] \in {"none", "exited"}

\* The settings name the proxy behind the callback, or an earlier process
\* left them.
CallbackFirst == /\ Known => callback \/ stale
                 /\ at = 5 => callback

\* A request finds the callback empty where the host's thread has not set it.
CrashedEarly == crashed => at \in {3, 4} \/ failed

\* What this process set without an error it sets back before it closes.
SetBack ==
  /\ ~win32 => ~Known /\ entry = 0
  /\ ~stale /\ ~broken => /\ at < 5 \/ at > 7 => ~Known
                          /\ at = 7 => \A e \in 0 .. entries : e < entry => ~Pac(e)

LifecycleInv ==
  /\ LifecycleTypeOK /\ Position /\ CallbackFirst /\ SetBack
  /\ CrashedEarly
-----------------------------------------------------------------------------
\* The number of every step.
LEMMA StepNumbers ==
  ASSUME at \in 1 .. 11
  PROVE  /\ Steps[at] = "construct" <=> at = 1
         /\ Steps[at] = "do_accept" <=> at = 2
         /\ Steps[at] = "threads" <=> at = 3
         /\ Steps[at] = "set_callback" <=> at = 4
         /\ Steps[at] = "add_reg_pac" <=> at = 5
         /\ Steps[at] = "run" <=> at = 6
         /\ Steps[at] = "delete_reg_pac" <=> at = 7
         /\ Steps[at] = "close" <=> at = 8
         /\ Steps[at] = "stop" <=> at = 9
         /\ Steps[at] = "join" <=> at = 10
         /\ Steps[at] = "gone" <=> at = 11
BY DEF Steps

LEMMA GoToNumbers ==
  /\ GoTo("run") => at' = 6
  /\ GoTo("gone") => at' = 11
<1>1. \A i \in DOMAIN Steps : /\ Steps[i] = "run" <=> i = 6
                              /\ Steps[i] = "gone" <=> i = 11
  BY DEF Steps
<1>2. 6 \in DOMAIN Steps /\ 11 \in DOMAIN Steps
  BY DEF Steps
<1>3. (CHOOSE i \in DOMAIN Steps : Steps[i] = "run") = 6
  BY <1>1, <1>2
<1>4. (CHOOSE i \in DOMAIN Steps : Steps[i] = "gone") = 11
  BY <1>1, <1>2
<1> QED
  BY <1>3, <1>4 DEF GoTo

\* A step that leaves the settings alone, and calls no callback.
LEMMA SettingsUntouched ==
  ASSUME LifecycleInv, LifecycleTypeOK', Position',
         UNCHANGED <<win32, settings, entries, entry, broken, stale>>,
         crashed' => crashed /\ UNCHANGED <<at, failed>>,
         callback => callback',
         at' = 5 => callback',
         at' < 5 \/ at' > 7 => at < 5 \/ at > 7 \/ ~win32,
         at' = 7 => at = 7 \/ entry = 0
  PROVE  LifecycleInv'
<1>1. CallbackFirst'
  BY DEF LifecycleInv, CallbackFirst, Known, Pac
<1>2. SetBack'
  BY DEF LifecycleInv, LifecycleTypeOK, SetBack, Known, Pac
<1>3. CrashedEarly'
  BY DEF LifecycleInv, CrashedEarly
<1> QED
  BY <1>1, <1>2, <1>3 DEF LifecycleInv

\* start() up to the threads.
LEMMA StartKeeps ==
  ASSUME LifecycleInv,
         \/ Construct \/ DoAccept \/ ThreadsStarted \/ ThreadFails
         \/ \E w \in Workers : StartThread(w)
  PROVE  LifecycleInv'
<1>1. LifecycleTypeOK /\ Position /\ at \in 1 .. 11
  BY DEF LifecycleInv, LifecycleTypeOK
<1>2. CASE Construct
  <2>1. /\ at = 1 /\ ~crashed /\ open' \in BOOLEAN
        /\ \/ at' = 2 /\ open' /\ failed' = failed
           \/ at' = 11 /\ failed' = TRUE
        /\ UNCHANGED <<thread_count_, worker, accept, conns, stopped, callback,
                       crashed, settingsVars, runs>>
    <3>1. at = 1 /\ ~crashed /\ UNCHANGED <<thread_count_, worker, accept, conns, stopped,
                                callback, crashed, settingsVars, runs>>
      BY <1>1, <1>2, StepNumbers DEF Construct, Doing
    <3>2. CASE Advance /\ open' = TRUE /\ UNCHANGED failed
      BY <3>1, <3>2 DEF Advance
    <3>3. CASE GoTo("gone") /\ failed' = TRUE /\ UNCHANGED open
      BY <1>1, <3>1, <3>3, GoToNumbers DEF LifecycleTypeOK
    <3> QED
      BY <1>2, <3>2, <3>3 DEF Construct
  <2>2. LifecycleTypeOK'
    <3>1. failed' \in BOOLEAN
      BY <1>1, <2>1, Zenon DEF LifecycleTypeOK
    <3>2. at' \in 1 .. 11
      BY <2>1
    <3> QED
      BY <1>1, <2>1, <3>1, <3>2 DEF LifecycleTypeOK, settingsVars
  <2>3. Position'
    BY <1>1, <2>1 DEF Position, settingsVars
  <2> QED
    BY <2>1, <2>2, <2>3, SettingsUntouched DEF settingsVars
<1>3. CASE DoAccept
  <2>1. /\ at = 2 /\ ~crashed /\ at' = 3 /\ accept' = "pending"
        /\ UNCHANGED <<thread_count_, worker, open, conns, stopped, callback,
                       crashed, failed, settingsVars, runs>>
    BY <1>1, <1>3, StepNumbers DEF DoAccept, Doing, Advance
  <2>2. LifecycleTypeOK'
    BY <1>1, <2>1 DEF LifecycleTypeOK, settingsVars
  <2>3. Position'
    BY <1>1, <2>1 DEF Position, settingsVars
  <2> QED
    BY <2>1, <2>2, <2>3, SettingsUntouched DEF settingsVars
<1>4. CASE ThreadsStarted \/ ThreadFails
  <2>1. /\ at = 3 /\ ~crashed
        /\ \/ at' = 4 /\ failed' = failed
           \/ at' = 6 /\ failed' = TRUE
        /\ UNCHANGED <<thread_count_, worker, open, accept, conns, stopped, callback,
                       crashed, settingsVars, runs>>
    BY <1>1, <1>4, StepNumbers, GoToNumbers
       DEF ThreadsStarted, ThreadFails, Doing, Advance, poolVars
  <2>2. LifecycleTypeOK'
    <3>1. failed' \in BOOLEAN
      BY <1>1, <2>1, Zenon DEF LifecycleTypeOK
    <3>2. at' \in 1 .. 11
      BY <2>1
    <3> QED
      BY <1>1, <2>1, <3>1, <3>2 DEF LifecycleTypeOK, settingsVars
  <2>3. Position'
    BY <1>1, <2>1 DEF Position, settingsVars
  <2> QED
    BY <2>1, <2>2, <2>3, SettingsUntouched DEF settingsVars
<1>5. ASSUME NEW w \in Workers, StartThread(w) PROVE LifecycleInv'
  <2>1. /\ at = 3 /\ at' = 3 /\ ~crashed /\ worker' = [worker EXCEPT ![w] = "idle"]
        /\ UNCHANGED <<thread_count_, open, accept, conns, stopped, callback,
                       crashed, failed, settingsVars, runs>>
    BY <1>1, <1>5, StepNumbers DEF StartThread, Doing
  <2>2. LifecycleTypeOK'
    BY <1>1, <2>1 DEF LifecycleTypeOK, settingsVars
  <2>3. Position'
    BY <1>1, <2>1 DEF Position, settingsVars
  <2> QED
    BY <2>1, <2>2, <2>3, SettingsUntouched DEF settingsVars
<1> QED
  BY <1>2, <1>3, <1>4, <1>5

\* The callback is set, and the destructor runs.
LEMMA CloseKeeps ==
  ASSUME LifecycleInv,
         SetCallback \/ NoSettings \/ Destroy \/ Close \/ Stop \/ Join
  PROVE  LifecycleInv'
<1>1. LifecycleTypeOK /\ Position /\ at \in 1 .. 11
  BY DEF LifecycleInv, LifecycleTypeOK
<1>2. CASE SetCallback
  <2>1. /\ at = 4 /\ ~crashed /\ at' = 5 /\ callback' = TRUE
        /\ UNCHANGED <<thread_count_, worker, open, accept, conns, stopped,
                       crashed, failed, settingsVars, runs>>
    BY <1>1, <1>2, StepNumbers DEF SetCallback, Doing, Advance
  <2>2. LifecycleTypeOK'
    BY <1>1, <2>1 DEF LifecycleTypeOK, settingsVars
  <2>3. Position'
    BY <1>1, <2>1 DEF Position, settingsVars
  <2> QED
    BY <2>1, <2>2, <2>3, SettingsUntouched DEF settingsVars
<1>3. CASE Destroy
  <2>1. at = 6 /\ ~crashed /\ at' = 7 /\ UNCHANGED <<poolVars, settingsVars, runs>>
    BY <1>1, <1>3, StepNumbers DEF Destroy, Doing, Advance
  <2>2. LifecycleTypeOK'
    BY <1>1, <2>1 DEF LifecycleTypeOK, poolVars, settingsVars
  <2>3. Position' /\ entry = 0
    BY <1>1, <2>1 DEF Position, poolVars, settingsVars
  <2> QED
    BY <2>1, <2>2, <2>3, SettingsUntouched DEF poolVars, settingsVars
<1>4. CASE Close
  <2>1. /\ at = 8 /\ ~crashed /\ at' = 9 /\ open' = FALSE
        /\ accept' = IF accept = "pending" THEN "aborted" ELSE accept
        /\ UNCHANGED <<thread_count_, worker, conns, stopped, callback, crashed,
                       failed, settingsVars, runs>>
    BY <1>1, <1>4, StepNumbers DEF Close, Doing, Advance
  <2>2. LifecycleTypeOK'
    <3>1. accept' \in {"none", "pending", "ready", "aborted"}
      BY <1>1, <2>1 DEF LifecycleTypeOK
    <3>2. open' \in BOOLEAN
      BY <2>1
    <3> QED
      BY <1>1, <2>1, <3>1, <3>2 DEF LifecycleTypeOK, settingsVars
  <2>3. Position'
    BY <1>1, <2>1 DEF Position, settingsVars
  <2> QED
    BY <2>1, <2>2, <2>3, SettingsUntouched DEF settingsVars
<1>5. CASE Stop
  <2>1. /\ at = 9 /\ ~crashed /\ at' = 10 /\ stopped' = TRUE
        /\ UNCHANGED <<thread_count_, worker, open, accept, conns, callback,
                       crashed, failed, settingsVars, runs>>
    BY <1>1, <1>5, StepNumbers DEF Stop, Doing, Advance
  <2>2. LifecycleTypeOK'
    BY <1>1, <2>1 DEF LifecycleTypeOK, settingsVars
  <2>3. Position'
    BY <1>1, <2>1 DEF Position, settingsVars
  <2> QED
    BY <2>1, <2>2, <2>3, SettingsUntouched DEF settingsVars
<1>6. CASE Join
  <2>1. /\ at = 10 /\ ~crashed /\ at' = 11 /\ UNCHANGED <<poolVars, settingsVars, runs>>
        /\ \A w \in Workers : worker[w] \in {"none", "exited"}
    BY <1>1, <1>6, StepNumbers DEF Join, Started, Doing, Advance
  <2>2. LifecycleTypeOK'
    BY <1>1, <2>1 DEF LifecycleTypeOK, poolVars, settingsVars
  <2>3. Position'
    BY <1>1, <2>1 DEF Position, poolVars, settingsVars
  <2> QED
    BY <2>1, <2>2, <2>3, SettingsUntouched DEF poolVars, settingsVars
<1>7. CASE NoSettings
  <2>1. /\ at \in {5, 7} /\ ~crashed /\ ~win32 /\ at' = at + 1
        /\ UNCHANGED <<poolVars, settingsVars, runs>>
    BY <1>1, <1>7, StepNumbers DEF NoSettings, Applying, Doing, Advance
  <2>2. LifecycleTypeOK'
    BY <1>1, <2>1 DEF LifecycleTypeOK, poolVars, settingsVars
  <2>3. Position'
    BY <1>1, <2>1 DEF LifecycleInv, SetBack, Position, poolVars, settingsVars
  <2> QED
    BY <2>1, <2>2, <2>3, SettingsUntouched DEF poolVars, settingsVars
<1> QED
  BY <1>2, <1>3, <1>4, <1>5, <1>6, <1>7

\* An entry is set to the proxy behind the callback, or set back; the last
\* one ends the step.
LEMMA SetEntryKeeps ==
  ASSUME LifecycleInv, SetEntry
  PROVE  LifecycleInv'
<1>1. /\ LifecycleTypeOK /\ Position /\ CallbackFirst /\ SetBack
      /\ at \in 1 .. 11 /\ entries \in Nat /\ entry \in 0 .. entries
      /\ MaxEntries \in Nat /\ 0 .. entries \subseteq 0 .. MaxEntries
  BY BoundsAssumption DEF LifecycleInv, LifecycleTypeOK
<1>2. /\ ~crashed
      /\ \/ at = 5 /\ Value = "pac"
         \/ at = 7 /\ Value = "off"
      /\ settings' = [settings EXCEPT ![entry] = Value]
      /\ entry < entries => entry' = entry + 1 /\ UNCHANGED <<at, stale>>
      /\ ~(entry < entries) => /\ entry' = 0 /\ at' = at + 1
                               /\ stale' = (stale /\ Value = "off")
      /\ win32 /\ UNCHANGED <<poolVars, win32, entries, broken>>
  BY <1>1, StepNumbers DEF SetEntry, Applying, Doing, Advance, Value
<1>3. /\ settings' \in [0 .. MaxEntries -> {"off", "pac"}]
      /\ settings'[entry] = Value
      /\ \A e \in 0 .. entries : e # entry => settings'[e] = settings[e]
  BY <1>1, <1>2 DEF LifecycleTypeOK
<1>4. LifecycleTypeOK'
  <2>1. entry' \in 0 .. entries /\ at' \in 1 .. 11 /\ stale' \in BOOLEAN
    BY <1>1, <1>2 DEF LifecycleTypeOK
  <2> QED
    BY <1>1, <1>2, <1>3, <2>1 DEF LifecycleTypeOK, poolVars
<1>5. Position'
  <2>1. /\ at' \in {5, 6, 7, 8}
        /\ at' = 5 => at = 5
        /\ at' \in {6, 8} => entry' = 0
    BY <1>1, <1>2
  <2> QED
    BY <1>1, <1>2, <2>1 DEF Position, poolVars
<1>6. CASE at = 5
  <2>1. callback' /\ Value = "pac" /\ at' \in {5, 6}
    BY <1>1, <1>2, <1>6 DEF CallbackFirst, poolVars
  <2>2. CallbackFirst' /\ SetBack' /\ CrashedEarly'
    BY <1>2, <2>1 DEF CallbackFirst, SetBack, CrashedEarly, poolVars
  <2> QED
    BY <1>4, <1>5, <2>2 DEF LifecycleInv
<1>7. CASE at = 7
  <2>1. Value = "off" /\ at' \in {7, 8}
    BY <1>2, <1>7
  <2>2. stale' = stale
    BY <1>1, <1>2, <2>1 DEF LifecycleTypeOK
  <2>3. \A e \in 0 .. entries : Pac(e)' => Pac(e) /\ e # entry
    BY <1>2, <1>3, <2>1 DEF Pac
  <2>4. CallbackFirst'
    BY <1>1, <1>2, <2>2, <2>3 DEF CallbackFirst, Known, poolVars
  <2>5. SetBack'
    <3> SUFFICES ASSUME ~stale, ~broken
                 PROVE  /\ at' < 5 \/ at' > 7 => ~Known'
                        /\ at' = 7 => \A e \in 0 .. entries : e < entry' => ~Pac(e)'
      BY <1>2, <2>2 DEF SetBack
    <3>1. \A e \in 0 .. entries : e <= entry => ~Pac(e)'
      BY <1>1, <1>7, <2>3 DEF SetBack
    <3>2. CASE entry < entries
      BY <1>1, <1>2, <1>7, <3>1, <3>2
    <3>3. CASE ~(entry < entries)
      <4>1. entry = entries
        BY <1>1, <3>3
      <4>2. \A e \in 0 .. entries : ~Pac(e)'
        BY <1>1, <3>1, <4>1
      <4> QED
        BY <1>2, <1>7, <3>3, <4>2 DEF Known
    <3> QED
      BY <3>2, <3>3
  <2>6. CrashedEarly'
    BY <1>2 DEF CrashedEarly, poolVars
  <2> QED
    BY <1>4, <1>5, <2>4, <2>5, <2>6 DEF LifecycleInv
<1> QED
  BY <1>2, <1>6, <1>7

\* A call that stops half way leaves the entries behind it as they are.
LEMMA ApplyFailsKeeps ==
  ASSUME LifecycleInv, ApplyFails
  PROVE  LifecycleInv'
<1>1. /\ LifecycleTypeOK /\ Position /\ CallbackFirst
      /\ at \in 1 .. 11 /\ entries \in Nat /\ entry \in 0 .. entries
      /\ MaxEntries \in Nat /\ 0 .. entries \subseteq 0 .. MaxEntries
  BY BoundsAssumption DEF LifecycleInv, LifecycleTypeOK
<1>2. /\ ~crashed
      /\ \/ at = 5 /\ Value = "pac" /\ at' = 6
         \/ at = 7 /\ Value = "off" /\ at' = 8
      /\ settings' = [settings EXCEPT ![entry] = Value] \/ UNCHANGED settings
      /\ entry' = 0 /\ broken' = TRUE
      /\ win32 /\ UNCHANGED <<poolVars, win32, entries, stale>>
  BY <1>1, StepNumbers DEF ApplyFails, Applying, Doing, Advance, Value
<1>3. LifecycleTypeOK'
  <2>1. settings' \in [0 .. MaxEntries -> {"off", "pac"}]
    BY <1>1, <1>2 DEF LifecycleTypeOK
  <2>2. at' \in 1 .. 11 /\ entry' \in 0 .. entries
    BY <1>1, <1>2
  <2> QED
    BY <1>1, <1>2, <2>1, <2>2 DEF LifecycleTypeOK, poolVars
<1>4. Position'
  BY <1>1, <1>2 DEF Position, poolVars
<1>5. CallbackFirst'
  <2>1. CASE at = 5
    BY <1>1, <1>2, <2>1 DEF Position, CallbackFirst, poolVars
  <2>2. CASE at = 7
    <3>1. \A e \in 0 .. entries : Pac(e)' => Pac(e)
      BY <1>1, <1>2, <2>2 DEF Pac, LifecycleTypeOK
    <3> QED
      BY <1>1, <1>2, <3>1 DEF CallbackFirst, Known, poolVars
  <2> QED
    BY <1>2, <2>1, <2>2
<1>6. SetBack' /\ CrashedEarly'
  BY <1>2 DEF SetBack, CrashedEarly, poolVars
<1> QED
  BY <1>3, <1>4, <1>5, <1>6 DEF LifecycleInv

\* The next process knows nothing but the settings.
LEMMA ProcessEndsKeeps ==
  ASSUME LifecycleInv, ProcessEnds
  PROVE  LifecycleInv'
<1>1. LifecycleTypeOK /\ SetBack /\ entries \in Nat
  BY BoundsAssumption DEF LifecycleInv, LifecycleTypeOK
<1>2. /\ at' = 1 /\ entry' = 0 /\ conns' = 0 /\ accept' = "none"
      /\ worker' = [w \in Workers |-> "none"]
      /\ open' = FALSE /\ stopped' = FALSE /\ callback' = FALSE /\ crashed' = FALSE
      /\ broken' = FALSE /\ stale' = Known
      /\ failed' = FALSE
      /\ UNCHANGED <<thread_count_, win32, entries, settings>>
  BY DEF ProcessEnds, Fresh, Known, Pac
<1>3. LifecycleTypeOK'
  <2>1. stale' \in BOOLEAN /\ broken' \in BOOLEAN /\ open' \in BOOLEAN
        /\ stopped' \in BOOLEAN /\ callback' \in BOOLEAN /\ crashed' \in BOOLEAN
        /\ failed' \in BOOLEAN
    BY <1>2 DEF Known
  <2>2. worker' \in [Workers -> {"none", "idle", "accepting", "requesting", "exited"}]
    BY <1>2
  <2>3. at' \in 1 .. 11 /\ entry' \in 0 .. entries /\ conns' \in Nat
    BY <1>1, <1>2
  <2> QED
    BY <1>1, <1>2, <2>1, <2>2, <2>3 DEF LifecycleTypeOK
<1>4. Position'
  BY <1>2 DEF Position
<1>6. Known' = Known
  BY <1>2 DEF Known, Pac
<1>7. CallbackFirst' /\ SetBack' /\ CrashedEarly'
  BY <1>1, <1>2, <1>6 DEF CallbackFirst, SetBack, CrashedEarly
<1> QED
  BY <1>3, <1>4, <1>7 DEF LifecycleInv

\* A browser comes, or the accept fails: neither touches the callback.
LEMMA BrowserKeeps ==
  ASSUME LifecycleInv, BrowserConnects \/ AcceptFails
  PROVE  LifecycleInv'
<1>1. LifecycleTypeOK /\ Position /\ CallbackFirst /\ SetBack /\ CrashedEarly
  BY DEF LifecycleInv
<1>2. /\ accept' \in {"ready", "aborted"}
      /\ UNCHANGED <<at, thread_count_, worker, open, conns, stopped, callback,
                     crashed, failed, settingsVars>>
  BY DEF BrowserConnects, AcceptFails
<1>3. LifecycleTypeOK' /\ Position'
  BY <1>1, <1>2 DEF LifecycleTypeOK, Position, settingsVars
<1>4. CallbackFirst' /\ SetBack' /\ CrashedEarly'
  BY <1>1, <1>2 DEF CallbackFirst, SetBack, CrashedEarly, Known, Pac, settingsVars
<1> QED
  BY <1>3, <1>4 DEF LifecycleInv

\* A thread of the pool: it runs from the third step on, and may call the
\* callback from then on.
LEMMA PoolKeeps ==
  ASSUME LifecycleInv, NEW w \in Workers, Pool(w)
  PROVE  LifecycleInv'
<1>1. /\ LifecycleTypeOK /\ Position /\ CallbackFirst /\ CrashedEarly
      /\ worker[w] \notin {"none", "exited"} => at \notin {1, 2, 11}
  BY DEF LifecycleInv, Position
<1>2. ASSUME NEW s \in {"idle", "accepting", "requesting", "exited"},
             worker' = [worker EXCEPT ![w] = s],
             worker[w] \notin {"none", "exited"},
             accept' \in {"none", "pending", "ready", "aborted"},
             conns' \in Nat, stopped' \in BOOLEAN, crashed' \in BOOLEAN,
             UNCHANGED <<at, thread_count_, open, callback, failed, settingsVars>>,
             crashed' => crashed \/ ~callback
      PROVE  LifecycleInv'
  <2>1. LifecycleTypeOK'
    BY <1>1, <1>2 DEF LifecycleTypeOK, settingsVars
  <2>2. Position'
    BY <1>1, <1>2 DEF Position, LifecycleTypeOK, settingsVars
  <2>3. CallbackFirst'
    BY <1>1, <1>2 DEF CallbackFirst, Known, Pac, settingsVars
  <2>4. CrashedEarly'
    BY <1>1, <1>2 DEF CrashedEarly, Position, LifecycleTypeOK
  <2>5. SetBack'
    BY <1>2 DEF LifecycleInv, SetBack, Known, Pac, settingsVars
  <2> QED
    BY <2>1, <2>2, <2>3, <2>4, <2>5 DEF LifecycleInv
<1>3. CASE BeginAccept(w)
  <2>1. PICK s \in {"idle", "accepting"} :
          s = IF accept = "ready" THEN "accepting" ELSE "idle"
    OBVIOUS
  <2> QED
    BY <1>1, <1>2, <1>3, <2>1 DEF BeginAccept, Idle, LifecycleTypeOK
<1>4. CASE EndAccept(w)
  BY <1>1, <1>2, <1>4 DEF EndAccept, LifecycleTypeOK
<1>5. CASE BeginRequest(w)
  BY <1>1, <1>2, <1>5 DEF BeginRequest, Idle, LifecycleTypeOK
<1>6. CASE EndRequest(w)
  BY <1>1, <1>2, <1>6 DEF EndRequest, LifecycleTypeOK
<1>7. CASE WorkerExits(w)
  BY <1>1, <1>2, <1>7 DEF WorkerExits, LifecycleTypeOK
<1> QED
  BY <1>3, <1>4, <1>5, <1>6, <1>7 DEF Pool
-----------------------------------------------------------------------------
LEMMA InitLifecycle == Init => LifecycleInv
<1> SUFFICES ASSUME Init PROVE LifecycleInv
  OBVIOUS
<1>1. entries \in Nat /\ MaxEntries \in Nat /\ 0 .. entries \subseteq 0 .. MaxEntries
  BY BoundsAssumption DEF Init
<1>2. LifecycleTypeOK
  <2>1. /\ open \in BOOLEAN /\ stopped \in BOOLEAN /\ callback \in BOOLEAN
        /\ crashed \in BOOLEAN /\ broken \in BOOLEAN /\ stale \in BOOLEAN
        /\ failed \in BOOLEAN /\ win32 \in BOOLEAN
    BY DEF Init
  <2>2. worker \in [Workers -> {"none", "idle", "accepting", "requesting", "exited"}]
    BY DEF Init, Fresh
  <2>3. settings \in [0 .. MaxEntries -> {"off", "pac"}]
    BY DEF Init
  <2>4. at \in 1 .. 11 /\ entry \in 0 .. entries /\ conns \in Nat /\ accept = "none"
    BY <1>1 DEF Init, Fresh
  <2> QED
    BY <2>1, <2>2, <2>3, <2>4 DEF Init, LifecycleTypeOK
<1>3. Position
  BY DEF Init, Fresh, Position
<1>4. ~Known
  BY <1>1 DEF Init, Known, Pac
<1> QED
  BY <1>2, <1>3, <1>4
     DEF Init, LifecycleInv, CallbackFirst, SetBack, CrashedEarly

\* The invariant holds in every reachable state, whatever fails and whenever
\* a process ends.
THEOREM Invariance == Spec => []LifecycleInv
<1>1. LifecycleInv /\ [Next]_vars => LifecycleInv'
  <2> SUFFICES ASSUME LifecycleInv, [Next]_vars PROVE LifecycleInv'
    OBVIOUS
  <2>1. CASE UNCHANGED vars
    <3>1. LifecycleTypeOK' /\ Position'
      BY <2>1 DEF LifecycleInv, LifecycleTypeOK, Position, vars, poolVars, settingsVars
    <3> QED
      BY <2>1, <3>1, SettingsUntouched
         DEF LifecycleInv, CallbackFirst, vars, poolVars, settingsVars
  <2> QED
    BY <2>1, StartKeeps, CloseKeeps, SetEntryKeeps, ApplyFailsKeeps,
       ProcessEndsKeeps, BrowserKeeps, PoolKeeps DEF Next, Host
<1> QED
  BY <1>1, InitLifecycle, PTL DEF Spec

\* A request finds cb_send_buffer_ empty only between the first thread and
\* set_callback(), or after start() returned false: never after it returned
\* true, whoever connects and whenever.
THEOREM NoEmptyCallbackTheorem == Spec => []NoEmptyCallback
<1>1. LifecycleInv => NoEmptyCallback
  BY StepNumbers DEF LifecycleInv, LifecycleTypeOK, CrashedEarly, NoEmptyCallback
<1> QED
  BY <1>1, Invariance, PTL

\* The settings name the proxy only while it listens and has its callback,
\* unless an earlier process left them or a call failed half way.
THEOREM SettingsAreServedTheorem == Spec => []SettingsAreServed
<1>1. ASSUME LifecycleInv PROVE SettingsAreServed
  <2> SUFFICES ASSUME Known, ~stale, ~broken PROVE open /\ callback
    BY DEF SettingsAreServed, Known, Pac
  <2>1. at \in 2 .. 8
    BY <1>1 DEF LifecycleInv, LifecycleTypeOK, SetBack
  <2> QED
    BY <1>1, <2>1 DEF LifecycleInv, Position, CallbackFirst
<1> QED
  BY <1>1, Invariance, PTL

\* When the destructor has returned no thread of the pool runs, however many
\* were started and whatever they were doing.
THEOREM NothingRunsAfterTheorem == Spec => []NothingRunsAfter
<1>1. LifecycleInv => NothingRunsAfter
  BY StepNumbers DEF LifecycleInv, LifecycleTypeOK, Position, NothingRunsAfter
<1> QED
  BY <1>1, Invariance, PTL
=============================================================================
