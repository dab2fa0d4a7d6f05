------------------------------ MODULE ServiceProofs -----------------------------
(***************************************************************************)
(* Proofs about what the application is served by: the store opened and    *)
(* recovered by StoreRecovery, the messages of EventPush, the proxy and    *)
(* the configuration that the handlers of AppProxy change, and the cache   *)
(* and the answers of SecretScan.                                          *)
(***************************************************************************)
EXTENDS StoreRecovery, EventPush, AppProxy, SecretScan, FiniteSetTheorems, SequenceTheorems, TLAPS

-------------------------------------------------------------------------------
(* StoreRecovery                                                             *)

\* While the log is about to be removed, the copy has what is in it, but for what is forfeited.
CopiedBeforeRemoved == opener = "remove_log" => logFile.rows \ forfeited \subseteq logCopy

\* An open store has a log to commit into.
LogWhileOpen == opener = "open" => logFile.there

StoreInv == RowsKept /\ CopiedBeforeRemoved /\ LogWhileOpen

\* What is known of a log that is not there.
LEMMA NoLogTyped == NoLog \in [there : BOOLEAN, rows : SUBSET Rows] /\ NoLog.rows = {} /\ NoLog.there = FALSE
BY DEF NoLog

\* The invariant holds before the first opening.
LEMMA StoreInitially == StoreInit => StoreInv
<1> SUFFICES ASSUME StoreInit PROVE StoreInv
  OBVIOUS
<1> USE NoLogTyped DEF StoreInit
<1>1. openCalls \in 0..MaxOpenings
  BY StoreAssumption
<1>2. StoreTypeOK
  BY <1>1 DEF StoreTypeOK
<1>3. committed \ forfeited \subseteq mainFile \cup logFile.rows \cup logCopy
  OBVIOUS
<1> QED
  BY <1>2, <1>3 DEF StoreInv, RowsKept, CopiedBeforeRemoved, LogWhileOpen

\* No step of SQLite, of an opening or of a kill breaks the invariant.
LEMMA StoreStep == StoreInv /\ [StoreNext]_storeVars => StoreInv'
<1> SUFFICES ASSUME StoreInv, [StoreNext]_storeVars PROVE StoreInv'
  OBVIOUS
<1> USE NoLogTyped DEF StoreInv, RowsKept, StoreTypeOK, CopiedBeforeRemoved, LogWhileOpen
<1>1. CASE OpenStore
  <2>1. openCalls' \in 0..MaxOpenings
    BY <1>1, StoreAssumption DEF OpenStore
  <2>2. UNCHANGED <<mainFile, logFile, shmThere, readonly>>
    BY <1>1 DEF OpenStore, fileVars
  <2> QED
    BY <1>1, <2>1, <2>2 DEF OpenStore
<1>2. CASE TryOpen
  BY <1>2 DEF TryOpen
<1>3. CASE RecoverInPlace
  <2>1. UNCHANGED <<retried, openCalls, logCopy, committed, forfeited>> /\ opener' = "copy_log"
    BY <1>3 DEF RecoverInPlace
  <2>2. CASE UNCHANGED fileVars
    BY <2>1, <2>2 DEF fileVars
  <2>3. CASE Checkpointed /\ logFile' = [logFile EXCEPT !.rows = {}] /\ UNCHANGED <<shmThere, readonly>>
    BY <2>1, <2>3 DEF Checkpointed
  <2>4. CASE Checkpointed /\ logFile' = NoLog /\ shmThere' = FALSE /\ UNCHANGED readonly
    <3>1. mainFile' = mainFile \cup logFile.rows
      BY <2>4 DEF Checkpointed
    <3>2. logFile' \in [there : BOOLEAN, rows : SUBSET Rows] /\ logFile'.rows = {} /\ shmThere' \in BOOLEAN
      BY <2>4
    <3>3. StoreTypeOK'
      BY <2>1, <2>4, <3>1, <3>2
    <3> QED
      BY <2>1, <3>1, <3>2, <3>3
  <2> QED
    BY <1>3, <2>2, <2>3, <2>4 DEF RecoverInPlace
<1>4. CASE CopyLog
  BY <1>4 DEF CopyLog, fileVars
<1>5. CASE RemoveLog
  <2>1. UNCHANGED <<mainFile, shmThere, readonly, retried, openCalls, logCopy, committed, forfeited>>
    BY <1>5 DEF RemoveLog
  <2>2. CASE opener' = "remove_shm" /\ logFile' = NoLog
    <3>1. logFile' \in [there : BOOLEAN, rows : SUBSET Rows] /\ logFile'.rows = {}
      BY <2>2
    <3>2. StoreTypeOK'
      BY <2>1, <2>2, <3>1
    <3>3. logFile.rows \ forfeited \subseteq logCopy
      BY <1>5 DEF RemoveLog
    <3> QED
      BY <2>1, <2>2, <3>1, <3>2, <3>3
  <2>3. CASE opener' = "closed" /\ UNCHANGED logFile
    BY <2>1, <2>3
  <2> QED
    BY <1>5, <2>2, <2>3 DEF RemoveLog
<1>6. CASE RemoveShm
  BY <1>6 DEF RemoveShm
<1>7. CASE Checkpoint
  BY <1>7 DEF Checkpoint, Checkpointed
<1>8. CASE Killed
  BY <1>8 DEF Killed
<1>9. CASE Closed
  <2>1. mainFile' = mainFile \cup logFile.rows
    BY <1>9 DEF Closed, Checkpointed
  <2>2. logFile' \in [there : BOOLEAN, rows : SUBSET Rows] /\ logFile'.rows = {}
    BY <1>9 DEF Closed
  <2>3. UNCHANGED <<readonly, retried, openCalls, logCopy, committed, forfeited>> /\ opener' = "closed" /\ shmThere' = FALSE
    BY <1>9 DEF Closed
  <2>4. StoreTypeOK'
    BY <2>1, <2>2, <2>3
  <2> QED
    BY <2>1, <2>2, <2>3, <2>4
<1>10. ASSUME NEW r \in Rows, Commit(r) PROVE StoreInv'
  BY <1>10 DEF Commit
<1>11. CASE UNCHANGED storeVars
  BY <1>11 DEF storeVars, fileVars
<1> QED
  BY <1>1, <1>2, <1>3, <1>4, <1>5, <1>6, <1>7, <1>8, <1>9, <1>10, <1>11 DEF StoreNext, OpenStep

\* A committed row is in the database or in the copy of its log, however often the process is
\* killed during a recovery, unless that copy failed or was overwritten (recover_readonly).
THEOREM RowsAreKept == StoreSpec => []RowsKept
<1>1. StoreInv => RowsKept
  BY DEF StoreInv
<1> QED
  BY StoreInitially, StoreStep, <1>1, PTL DEF StoreSpec

\* How many steps an opening may still take: the second time it is not recovered.
OpeningLeft ==
  CASE opener = "try" -> IF retried THEN 1 ELSE 6
    [] opener = "checkpoint" -> 5 [] opener = "copy_log" -> 4
    [] opener = "remove_log" -> 3 [] opener = "remove_shm" -> 2 [] OTHER -> 0

\* Each step of an opening takes it on, and nothing but a call that finds the store closed begins one.
OpeningDescends ==
  /\ OpenStep => OpeningLeft' < OpeningLeft
  /\ OpeningLeft' > OpeningLeft => OpenStore /\ opener = "closed"

\* An opening ends by itself (OpeningEnds): the recovery of a database that stays read-only is not
\* begun again, and each of its steps, which may all fail, leads to a later one or to the end.
THEOREM OpeningsRunOut == StoreSpec => [](OpeningLeft \in 0..6) /\ [][OpeningDescends]_storeVars
<1>1. OpeningLeft \in 0..6 /\ OpeningLeft' \in 0..6
  BY DEF OpeningLeft
<1>2. StoreInv /\ [StoreNext]_storeVars => [OpeningDescends]_storeVars
  <2> SUFFICES ASSUME StoreInv, StoreNext PROVE OpeningDescends
    OBVIOUS
  <2> USE DEF OpeningLeft
  <2>1. OpenStep => OpeningLeft' < OpeningLeft
    <3>1. CASE TryOpen
      <4>1. opener = "try" /\ retried' = retried /\ (opener' \in {"open", "closed"} \/ (opener' = "checkpoint" /\ ~retried))
        BY <3>1 DEF TryOpen
      <4>2. retried \in BOOLEAN
        BY DEF StoreInv, RowsKept, StoreTypeOK
      <4> QED
        BY <4>1, <4>2
    <3>2. CASE RecoverInPlace
      BY <3>2 DEF RecoverInPlace
    <3>3. CASE CopyLog
      <4>1. opener = "copy_log" /\ opener' \in {"remove_log", "remove_shm"}
        BY <3>3 DEF CopyLog
      <4> QED
        BY <4>1
    <3>4. CASE RemoveLog
      <4>1. opener = "remove_log" /\ opener' \in {"remove_shm", "closed"}
        BY <3>4 DEF RemoveLog
      <4> QED
        BY <4>1
    <3>5. CASE RemoveShm
      <4>1. opener = "remove_shm" /\ (opener' = "closed" \/ (opener' = "try" /\ retried'))
        BY <3>5 DEF RemoveShm
      <4> QED
        BY <4>1
    <3> QED
      BY <3>1, <3>2, <3>3, <3>4, <3>5 DEF OpenStep
  <2>2. OpenStore => opener = "closed"
    BY DEF OpenStore
  <2>3. (Checkpoint \/ \E r \in Rows : Commit(r)) => OpeningLeft' = OpeningLeft
    BY DEF Checkpoint, Commit
  <2>4. Killed \/ Closed => OpeningLeft' = 0
    BY DEF Killed, Closed
  <2> HIDE DEF OpeningLeft
  <2>5. OpeningLeft' > OpeningLeft => OpenStore
    BY <1>1, <2>1, <2>3, <2>4 DEF StoreNext
  <2> QED
    BY <2>1, <2>2, <2>5 DEF OpeningDescends
<1> QED
  BY <1>1, <1>2, StoreInitially, StoreStep, PTL DEF StoreSpec

-------------------------------------------------------------------------------
(* EventPush                                                                 *)

\* What a browser has got ends right before the message its receiver takes next.
EndsBeforeNext ==
  \A b \in Browsers : \A k \in 1..Len(received[b]) : received[b][k] = next[b] - Len(received[b]) + k - 1

PushTyped ==
  /\ sent \in 0..MaxEvents /\ socket \in [Browsers -> {"closed", "open", "broken"}]
  /\ pushing \in [Browsers -> BOOLEAN] /\ next \in [Browsers -> Nat \ {0}]
  /\ received \in [Browsers -> Seq(Nat)]

\* No receiver is ahead of what was sent.
NotAhead == \A b \in Browsers : next[b] <= sent + 1

PushInv == PushTyped /\ NotAhead /\ EndsBeforeNext /\ NoPushUnbound

\* The invariant implies what is checked.
LEMMA PushImplies == PushInv => StreamWhole
<1> SUFFICES ASSUME PushInv PROVE StreamWhole
  OBVIOUS
<1>1. ASSUME NEW b \in Browsers PROVE next[b] \in 1..(MaxEvents + 1)
  <2>1. next[b] \in Nat \ {0} /\ next[b] <= sent + 1
    BY DEF PushInv, PushTyped, NotAhead
  <2>2. sent \in Nat /\ sent <= MaxEvents /\ MaxEvents \in Nat
    BY PushAssumption DEF PushInv, PushTyped
  <2> QED
    BY <2>1, <2>2
<1>2. PushTypeOK
  BY <1>1 DEF PushInv, PushTyped, PushTypeOK
<1>3. NoGaps
  <2> SUFFICES ASSUME NEW b \in Browsers, NEW k \in DOMAIN received[b]
               PROVE  received[b][k] = received[b][1] + k - 1 /\ received[b][k] < next[b]
    BY DEF NoGaps
  <2>1. received[b] \in Seq(Nat) /\ next[b] \in Nat
    BY DEF PushInv, PushTyped
  <2>2. Len(received[b]) \in Nat /\ k \in 1..Len(received[b]) /\ 1 \in 1..Len(received[b])
    BY <2>1
  <2>3. \A j \in 1..Len(received[b]) : received[b][j] = next[b] - Len(received[b]) + j - 1
    BY DEF PushInv, EndsBeforeNext
  <2> QED
    BY <2>1, <2>2, <2>3
<1> QED
  BY <1>2, <1>3 DEF StreamWhole, PushInv

\* The invariant holds before the first message.
LEMMA PushInitially == PushInit => PushInv
<1> SUFFICES ASSUME PushInit PROVE PushInv
  OBVIOUS
<1>1. PushTyped
  BY PushAssumption DEF PushInit, PushTyped
<1>2. NotAhead /\ EndsBeforeNext /\ NoPushUnbound
  BY DEF PushInit, NotAhead, EndsBeforeNext, NoPushUnbound
<1> QED
  BY <1>1, <1>2 DEF PushInv

\* What a sequence has at each place once a number was appended.
LEMMA Appended ==
  ASSUME NEW s \in Seq(Nat), NEW n \in Nat
  PROVE  /\ Len(Append(s, n)) = Len(s) + 1 /\ Len(s) \in Nat /\ Append(s, n)[Len(s) + 1] = n
         /\ \A k \in 1..Len(s) : Append(s, n)[k] = s[k] /\ k \in Int
OBVIOUS

\* A push that sends a message sends the one behind the last.
LEMMA PushStep == ASSUME PushInv, NEW b \in Browsers, Push(b) PROVE PushInv'
<1>1. pushing[b] /\ next[b] <= sent /\ UNCHANGED <<sent, socket>>
  BY DEF Push
<1>2. CASE pushing' = [pushing EXCEPT ![b] = FALSE] /\ UNCHANGED <<next, received>>
  BY <1>1, <1>2 DEF PushInv, PushTyped, NotAhead, EndsBeforeNext, NoPushUnbound
<1>3. CASE /\ next' = [next EXCEPT ![b] = @ + 1] /\ received' = [received EXCEPT ![b] = Append(@, next[b])]
           /\ UNCHANGED pushing
  <2>1. received[b] \in Seq(Nat) /\ next[b] \in Nat \ {0} /\ sent \in Nat
    BY PushAssumption DEF PushInv, PushTyped
  <2>2. next'[b] = next[b] + 1 /\ received'[b] = Append(received[b], next[b])
    BY <1>3 DEF PushInv, PushTyped
  <2>3. \A a \in Browsers : a # b => next'[a] = next[a] /\ received'[a] = received[a]
    BY <1>3 DEF PushInv, PushTyped
  <2>4. PushTyped'
    BY <1>1, <1>3, <2>1 DEF PushInv, PushTyped
  <2>5. NotAhead' /\ NoPushUnbound'
    BY <1>1, <1>3, <2>1, <2>2, <2>3 DEF PushInv, NotAhead, NoPushUnbound
  <2>6. ASSUME NEW k \in 1..Len(received'[b]) PROVE received'[b][k] = next'[b] - Len(received'[b]) + k - 1
    <3>1. \A j \in 1..Len(received[b]) : received[b][j] = next[b] - Len(received[b]) + j - 1
      BY DEF PushInv, EndsBeforeNext
    <3>2. /\ Len(received'[b]) = Len(received[b]) + 1 /\ Len(received[b]) \in Nat
          /\ received'[b][Len(received[b]) + 1] = next[b]
          /\ \A j \in 1..Len(received[b]) : received'[b][j] = received[b][j] /\ j \in Int
      BY <2>1, <2>2, Appended
    <3>3. CASE k = Len(received[b]) + 1
      BY <2>1, <2>2, <3>2, <3>3
    <3>4. CASE k \in 1..Len(received[b])
      <4>1. received'[b][k] = next[b] - Len(received[b]) + k - 1
        BY <3>1, <3>2, <3>4
      <4> QED
        BY <2>1, <2>2, <3>2, <3>4, <4>1
    <3> QED
      BY <2>6, <3>2, <3>3, <3>4
  <2>7. EndsBeforeNext'
    BY <2>3, <2>6 DEF PushInv, EndsBeforeNext
  <2> QED
    BY <2>4, <2>5, <2>7 DEF PushInv
<1> QED
  BY <1>2, <1>3 DEF Push

\* A browser that comes begins with nothing, and with the message sent next.
LEMMA BrowserOpens == ASSUME PushInv, NEW b \in Browsers, Open(b) PROVE PushInv'
<1>1. sent \in Nat
  BY PushAssumption DEF PushInv, PushTyped
<1>2. /\ socket'[b] = "open" /\ pushing'[b] = TRUE /\ next'[b] = sent + 1 /\ received'[b] = <<>> /\ sent' = sent
      /\ \A a \in Browsers : a # b => /\ socket'[a] = socket[a] /\ pushing'[a] = pushing[a]
                                      /\ next'[a] = next[a] /\ received'[a] = received[a]
  BY DEF Open, PushInv, PushTyped
<1>3. PushTyped'
  BY <1>1 DEF Open, PushInv, PushTyped
<1>4. NotAhead' /\ NoPushUnbound'
  BY <1>1, <1>2 DEF PushInv, NotAhead, NoPushUnbound
<1>5. EndsBeforeNext'
  BY <1>2 DEF PushInv, EndsBeforeNext
<1> QED
  BY <1>3, <1>4, <1>5 DEF PushInv

\* No step breaks the invariant.
LEMMA PushNextStep == PushInv /\ [PushNext]_pushVars => PushInv'
<1> SUFFICES ASSUME PushInv, [PushNext]_pushVars PROVE PushInv'
  OBVIOUS
<1> USE DEF PushInv, PushTyped, NotAhead, EndsBeforeNext, NoPushUnbound
<1>1. CASE Broadcast
  BY <1>1, PushAssumption DEF Broadcast
<1>2. ASSUME NEW b \in Browsers, Open(b) PROVE PushInv'
  BY <1>2, BrowserOpens
<1>3. ASSUME NEW b \in Browsers, Push(b) PROVE PushInv'
  BY <1>3, PushStep
<1>4. ASSUME NEW b \in Browsers, Break(b) PROVE PushInv'
  BY <1>4 DEF Break
<1>5. ASSUME NEW b \in Browsers, Close(b) PROVE PushInv'
  BY <1>5 DEF Close
<1>6. CASE UNCHANGED pushVars
  BY <1>6 DEF pushVars
<1> QED
  BY <1>1, <1>2, <1>3, <1>4, <1>5, <1>6 DEF PushNext

\* However many browsers come and go, lag or break: what a browser got since it connected has
\* no gap, no repetition and no disorder, and no push outlives its socket (ws.rs).
THEOREM StreamsAreWhole == PushSpec => []StreamWhole
BY PushInitially, PushNextStep, PushImplies, PTL DEF PushSpec

-------------------------------------------------------------------------------
(* AppProxy                                                                  *)

\* What a handler does next.
Steps == {"idle", "start", "build", "configure", "bind", "install", "stop", "drain", "reset", "clear",
          "scope"} \cup Updates

\* The steps at which a handler holds the mutex of the proxy.
Holding == {"build", "configure", "bind", "install", "drain", "scope_read", "scope_save", "scope_commit", "scope_swap"}

\* What is kept of a handler.
CallRecords == [at : Steps, cfg : Configs, p : Proxies \cup {0}, st : Nat]
CallTyped == call \in [Handlers -> CallRecords]

\* Types of the other variables.
AppTyped ==
  /\ proxyMutex \in Handlers \cup {"none"} /\ proxy \in Proxies \cup {0}
  /\ running \in BOOLEAN /\ overlapped \in BOOLEAN /\ racing \in BOOLEAN /\ edited \in BOOLEAN
  /\ listening \subseteq Proxies /\ stopping \subseteq Proxies /\ lost \subseteq Proxies
  /\ proxyScope \in [Proxies -> Settings] /\ proxyStore \in [Proxies -> Nat]
  /\ memory \in Configs /\ file \subseteq Configs /\ saved \subseteq Settings \cup {Broken}
  /\ store \in Nat /\ openings \in Nat /\ store <= openings
  /\ calls \in Nat /\ calls <= MaxCalls

\* The mutex is with the handler that is at a step between its lock and its release.
MutexHeld == \A h \in Handlers : proxyMutex = h <=> call[h].at \in Holding

\* The proxies built so far are the first ones, and every start still to build one was called.
Starters == {h \in Handlers : call[h].at \in {"start", "build", "configure", "bind"}}
ProxiesCounted ==
  \E k \in Nat : /\ \A p \in Proxies : proxyStore[p] # 0 <=> p <= k
                 /\ k + Cardinality(Starters) <= calls

\* The handlers past the mutex in stop_proxy.
Stoppers == {h \in Handlers : call[h].at \in {"drain", "reset", "clear"}}
StopsCounted == stops = Cardinality(Stoppers)

\* What listens, or has lost its listener, was built; a proxy that is installed, or about to be, listens or has lost
\* its listener, and is not being stopped.
ProxiesKnown ==
  /\ listening \intersect lost = {} /\ stopping \subseteq listening \cup lost
  /\ \A p \in listening \cup lost : proxyStore[p] # 0
  /\ proxy # 0 => proxy \in listening \cup lost /\ proxy \notin stopping
  /\ \A h \in Handlers : call[h].at = "install" =>
       call[h].p \in listening \cup lost /\ call[h].p \notin stopping

\* No opening of the store is known that was not made.
StoresKnown ==
  /\ \A p \in Proxies : proxyStore[p] <= openings
  /\ \A h \in Handlers : call[h].at \in {"configure", "bind"} => call[h].st # 0 /\ call[h].st <= openings

\* The scope that becomes the one in memory was in the file, which holds one or none; what is given
\* to a proxy compiles.
SavedBefore ==
  /\ memory.scope \in saved
  /\ \A h \in Handlers : call[h].at \in {"scope_commit", "other_commit", "load_commit"} => call[h].cfg.scope \in saved
  /\ \A c, d \in file : c = d
  /\ \A h \in Handlers : call[h].at \in {"bind", "scope_save", "scope_commit", "scope_swap"} => call[h].cfg.scope # Broken

\* update_scope keeps the proxy it will tell; who has not looked yet knows of none.
ProxyInHand ==
  \A h \in Handlers :
    /\ call[h].at \in {"scope_read", "scope_save", "scope_commit", "scope_swap"} => call[h].p = proxy
    /\ call[h].at \in {"idle", "stop"} => call[h].p = 0

\* While updates do not overlap: there is one at a time; what it replaces only part of is what is
\* in memory; the file, unless it was edited, is what it is about to commit, or else what is in
\* memory, before or after reading; and a proxy that is built or installed has the scope in memory,
\* unless that does not compile or a handler is about to give it that.
Committing == \E h \in Handlers : call[h].at \in {"scope_commit", "other_commit", "load_commit"}
Swapping   == \E h \in Handlers : call[h].at \in {"scope_swap", "load_swap"}
InStep ==
  /\ \A g, h \in Handlers : call[g].at \in Updates /\ call[h].at \in Updates => g = h
  /\ \A h \in Handlers :
       /\ call[h].at \in {"other_save", "other_commit"} => call[h].cfg.scope = memory.scope
       /\ call[h].at \in {"scope_swap", "load_swap"} => call[h].cfg = memory
       /\ ~edited /\ call[h].at \in {"scope_commit", "other_commit"} => \A c \in file : c = call[h].cfg
       /\ ~edited /\ call[h].at = "load_commit" => \A c \in file : loaded(c) = call[h].cfg
       /\ call[h].at = "bind" => call[h].cfg.scope = memory.scope \/ Swapping \/ memory.scope = Broken
       /\ call[h].at = "install" => proxyScope[call[h].p] = memory.scope \/ Swapping \/ memory.scope = Broken
  /\ ~edited /\ ~Committing => \A c \in file : memory = c \/ memory = loaded(c)
  /\ proxy # 0 => proxyScope[proxy] = memory.scope \/ Swapping \/ memory.scope = Broken

\* While stops do not overlap: the flag says whether a proxy is installed or has been taken out
\* by a stop that is not over; ...
TakenOut == \E h \in Handlers : call[h].at \in {"drain", "reset", "clear"} /\ call[h].p # 0
FlagTrue ==
  /\ \A g, h \in Handlers : g \in Stoppers /\ h \in Stoppers => g = h /\ proxy = 0
  /\ running <=> (proxy # 0 \/ TakenOut)
  /\ \A h \in Handlers : call[h].at \in {"build", "configure", "bind", "install"} => proxy = 0 /\ ~TakenOut

\* ... what listens is installed, about to be, or being stopped by a handler that waits for it; ...
ListenersKnown ==
  /\ \A p \in listening : \/ p = proxy \/ p \in stopping
                          \/ \E h \in Handlers : call[h].at = "install" /\ call[h].p = p
  /\ \A p \in stopping : \E h \in Handlers : call[h].at = "drain" /\ call[h].p = p

\* ... and the opening a new proxy will use is that of no other proxy.
StoreUnused ==
  /\ \A p \in Proxies : p # proxy /\ store # 0 /\ proxyStore[p] = store =>
       \E h \in Handlers : \/ call[h].at = "install" /\ call[h].p = p
                           \/ call[h].at \in {"drain", "reset"} /\ call[h].p # 0
  /\ \A h \in Handlers :
       /\ call[h].at \in {"configure", "bind"} => \A p \in Proxies : proxyStore[p] # call[h].st
       /\ call[h].at = "install" => \A p \in Proxies \ {call[h].p} : proxyStore[p] # proxyStore[call[h].p]
  /\ proxy # 0 => \A p \in Proxies \ {proxy} : proxyStore[p] # proxyStore[proxy]

\* What holds whatever overlaps, and the inductive invariant.
Always ==
  /\ MutexHeld /\ ProxiesCounted /\ StopsCounted /\ ProxiesKnown /\ StoresKnown /\ SavedBefore /\ ProxyInHand
AppInv ==
  /\ CallTyped /\ AppTyped /\ Always
  /\ ~racing => InStep
  /\ ~overlapped => FlagTrue /\ ListenersKnown /\ StoreUnused

-------------------------------------------------------------------------------

\* Facts about the constants.
LEMMA Distinct == /\ 0 \notin Proxies /\ "none" \notin Handlers /\ MaxCalls \in Nat /\ Proxies \subseteq Nat
                  /\ Initial \in Settings /\ Idle \in CallRecords /\ Start \in Configs
                  /\ Idle.at = "idle" /\ Idle.p = 0 /\ Broken \notin Settings
BY AppAssumption DEF Proxies, Idle, CallRecords, Steps, Configs, Start

\* What reading makes of a configuration.
LEMMA LoadedTyped == ASSUME NEW c \in Configs PROVE loaded(c) \in Configs /\ loaded(c).scope = c.scope
<1>1. Override # {} => (CHOOSE v \in Override : TRUE) \in Settings
  BY AppAssumption
<1> QED
  BY <1>1 DEF loaded, Configs

\* What one handler's step does to the calls.
LEMMA CallMoves ==
  ASSUME CallTyped, NEW h \in Handlers, NEW r \in CallRecords, call' = [call EXCEPT ![h] = r]
  PROVE  /\ CallTyped' /\ call'[h] = r
         /\ \A g \in Handlers : g # h => call'[g] = call[g]
BY DEF CallTyped

\* A subset of the handlers is finite.
LEMMA Counts == /\ Cardinality(Starters) \in Nat /\ Cardinality(Stoppers) \in Nat
                /\ IsFiniteSet(Starters) /\ IsFiniteSet(Stoppers)
<1>1. Starters \subseteq Handlers /\ Stoppers \subseteq Handlers
  BY DEF Starters, Stoppers
<1> QED
  BY <1>1, AppAssumption, FS_Subset, FS_CardinalityType

\* Likewise after a step.
LEMMA CountsLater == Cardinality(Starters') \in Nat /\ Cardinality(Stoppers') \in Nat
<1>1. Starters' \subseteq Handlers /\ Stoppers' \subseteq Handlers
  BY DEF Starters, Stoppers
<1> QED
  BY <1>1, AppAssumption, FS_Subset, FS_CardinalityType

\* What one handler that goes on changes of their numbers.
LEMMA Moves ==
  ASSUME NEW h \in Handlers, \A g \in Handlers : g # h => call'[g] = call[g]
  PROVE  /\ (h \in Starters <=> h \in Starters') => Cardinality(Starters') = Cardinality(Starters)
         /\ h \notin Starters /\ h \in Starters' => Cardinality(Starters') = Cardinality(Starters) + 1
         /\ h \in Starters /\ h \notin Starters' => Cardinality(Starters') = Cardinality(Starters) - 1
         /\ (h \in Stoppers <=> h \in Stoppers') => Cardinality(Stoppers') = Cardinality(Stoppers)
         /\ h \notin Stoppers /\ h \in Stoppers' => Cardinality(Stoppers') = Cardinality(Stoppers) + 1
         /\ h \in Stoppers /\ h \notin Stoppers' => Cardinality(Stoppers') = Cardinality(Stoppers) - 1
<1>2. /\ (h \in Starters <=> h \in Starters') => Starters' = Starters
      /\ h \notin Starters /\ h \in Starters' => Starters' = Starters \cup {h}
      /\ h \in Starters /\ h \notin Starters' => Starters' = Starters \ {h}
  BY DEF Starters
<1>3. /\ (h \in Stoppers <=> h \in Stoppers') => Stoppers' = Stoppers
      /\ h \notin Stoppers /\ h \in Stoppers' => Stoppers' = Stoppers \cup {h}
      /\ h \in Stoppers /\ h \notin Stoppers' => Stoppers' = Stoppers \ {h}
  BY DEF Stoppers
<1> HIDE DEF Starters, Stoppers
<1>4. h \notin Starters => Cardinality(Starters \cup {h}) = Cardinality(Starters) + 1
  BY Counts, FS_AddElement
<1>5. h \in Starters => Cardinality(Starters \ {h}) = Cardinality(Starters) - 1
  BY Counts, FS_RemoveElement
<1>6. h \notin Stoppers => Cardinality(Stoppers \cup {h}) = Cardinality(Stoppers) + 1
  BY Counts, FS_AddElement
<1>7. h \in Stoppers => Cardinality(Stoppers \ {h}) = Cardinality(Stoppers) - 1
  BY Counts, FS_RemoveElement
<1> QED
  BY <1>2, <1>3, <1>4, <1>5, <1>6, <1>7

\* The invariant implies what is checked.
LEMMA AppImplies == AppInv => ConfigInStep /\ ProxyInStep
<1> SUFFICES ASSUME AppInv PROVE ConfigInStep /\ ProxyInStep
  OBVIOUS
<1>1. AppTypeOK
  <2>1. Cardinality(Stoppers) \in Nat /\ Cardinality(Stoppers) <= Cardinality(Handlers) /\ Cardinality(Handlers) \in Nat
    <3>1. Stoppers \subseteq Handlers
      BY DEF Stoppers
    <3> QED
      BY <3>1, AppAssumption, FS_Subset, FS_CardinalityType
  <2>2. stops \in 0..Cardinality(Handlers)
    BY <2>1 DEF AppInv, Always, StopsCounted
  <2>3. store \in 0..openings /\ \A h \in Handlers : call[h].cfg \in Configs
    BY DEF AppInv, AppTyped, CallTyped, CallRecords
  <2> QED
    BY <2>2, <2>3 DEF AppInv, AppTyped, AppTypeOK
<1>2. ScopeReachesProxy
  BY DEF AppInv, InStep, Swapping, ScopeReachesProxy
<1>3. MemoryWasSaved
  BY DEF AppInv, Always, SavedBefore, MemoryWasSaved
<1>4. FileInStep
  <2> SUFFICES ASSUME ~racing, ~edited, \A h \in Handlers : call[h].at \notin Updates
               PROVE  \A c \in file : memory = c \/ memory = loaded(c)
    BY DEF FileInStep
  <2>1. ~Committing
    BY DEF Committing, Updates
  <2> QED
    BY <2>1 DEF AppInv, InStep
<1>5. FlagInStep
  <2> SUFFICES ASSUME ~overlapped, proxyMutex = "none", stops = 0
               PROVE  (running <=> proxy # 0) /\ listening = {proxy} \ (lost \cup {0})
    BY DEF FlagInStep
  <2>1. Stoppers = {}
    BY Counts, FS_EmptySet DEF AppInv, Always, StopsCounted
  <2>2. running <=> proxy # 0
    BY <2>1 DEF AppInv, FlagTrue, TakenOut, Stoppers
  <2>3. \A h \in Handlers : call[h].at # "install" /\ call[h].at # "drain"
    BY Distinct DEF AppInv, Always, MutexHeld, Holding
  <2>4. \A p \in listening : p = proxy
    BY <2>3 DEF AppInv, ListenersKnown
  <2>5. proxy # 0 => proxy \in listening \cup lost
    BY DEF AppInv, Always, ProxiesKnown
  <2>6. listening \intersect lost = {}
    BY DEF AppInv, Always, ProxiesKnown
  <2> QED
    BY <2>2, <2>4, <2>5, <2>6, Distinct DEF AppInv, AppTyped
<1>6. FreshStore
  BY DEF AppInv, StoreUnused, FreshStore
<1>7. InstalledListens
  BY DEF AppInv, Always, ProxiesKnown, InstalledListens
<1> QED
  BY <1>1, <1>2, <1>3, <1>4, <1>5, <1>6, <1>7 DEF ConfigInStep, ProxyInStep

\* The invariant holds when the application has been started for the first time.
LEMMA AppInitially == AppInit => AppInv
<1> SUFFICES ASSUME AppInit PROVE AppInv
  OBVIOUS
<1>1. CallTyped /\ \A h \in Handlers : call[h] = Idle
  BY Distinct DEF AppInit, CallTyped
<1>2. AppTyped
  <2>1. proxyScope \in [Proxies -> Settings] /\ proxyStore \in [Proxies -> Nat]
    BY Distinct DEF AppInit
  <2>2. /\ running \in BOOLEAN /\ overlapped \in BOOLEAN /\ racing \in BOOLEAN /\ edited \in BOOLEAN
        /\ memory \in Configs /\ file \subseteq Configs /\ saved \subseteq Settings \cup {Broken}
    BY Distinct, LoadedTyped DEF AppInit
  <2>3. calls \in Nat /\ calls <= MaxCalls /\ store \in Nat /\ openings \in Nat /\ store <= openings
    BY Distinct DEF AppInit
  <2> QED
    BY <2>1, <2>2, <2>3 DEF AppInit, AppTyped
<1>3. Starters = {} /\ Stoppers = {}
  BY <1>1, Distinct DEF Starters, Stoppers
<1>4. Cardinality(Starters) = 0 /\ Cardinality(Stoppers) = 0
  BY <1>3, FS_EmptySet
<1>5. ProxiesCounted
  <2>1. \A p \in Proxies : proxyStore[p] # 0 <=> p <= 0
    BY DEF AppInit, Proxies
  <2>2. 0 + Cardinality(Starters) <= calls
    BY <1>4 DEF AppInit
  <2> QED
    BY <2>1, <2>2 DEF ProxiesCounted
<1>6. MutexHeld /\ StopsCounted /\ ProxyInHand
  BY <1>1, <1>4, Distinct DEF AppInit, MutexHeld, StopsCounted, ProxyInHand, Holding
<1>7. ProxiesKnown /\ StoresKnown /\ SavedBefore
  <2>1. loaded(Start).scope = Initial
    BY LoadedTyped, Distinct DEF Start
  <2> QED
    BY <1>1, <2>1, Distinct DEF AppInit, ProxiesKnown, StoresKnown, SavedBefore
<1>8. InStep
  BY <1>1, Distinct DEF AppInit, InStep, Updates
<1>9. FlagTrue
  BY <1>1, <1>3, Distinct DEF AppInit, FlagTrue, TakenOut
<1>10. ListenersKnown /\ StoreUnused
  BY <1>1, Distinct DEF AppInit, ListenersKnown, StoreUnused
<1> QED
  BY <1>1, <1>2, <1>5, <1>6, <1>7, <1>8, <1>9, <1>10 DEF AppInv, Always

\* Whoever builds no proxy keeps the count, if no more starts are called than calls are counted.
LEMMA CountKept ==
  ASSUME AppInv, proxyStore' = proxyStore, calls' \in Nat,
         Cardinality(Starters') + calls <= Cardinality(Starters) + calls'
  PROVE  ProxiesCounted'
<1> PICK k \in Nat : (\A p \in Proxies : proxyStore[p] # 0 <=> p <= k) /\ k + Cardinality(Starters) <= calls
  BY DEF AppInv, Always, ProxiesCounted
<1>1. Cardinality(Starters) \in Nat /\ Cardinality(Starters') \in Nat /\ calls \in Nat
  BY Counts, CountsLater DEF AppInv, AppTyped
<1>2. k + Cardinality(Starters') <= calls'
  BY <1>1
<1> QED
  BY <1>2 DEF ProxiesCounted

\* A handler that gives up where nothing is to be undone, or answers without having done anything.
LEMMA GivesUp ==
  ASSUME AppInv, NEW h \in Handlers,
         call[h].at \in {"start", "build", "configure", "bind", "scope_read", "scope_save", "other_save", "load"},
         call' = [call EXCEPT ![h] = Idle], proxyMutex' = (IF proxyMutex = h THEN "none" ELSE proxyMutex),
         store' = store \/ store' = 0, file' = file \/ file' = {},
         UNCHANGED <<proxyVars, openings, memory, saved, edited, racing, calls>>
  PROVE  AppInv'
<1>1. UNCHANGED <<proxy, listening, lost, stopping, running, proxyScope, proxyStore, stops, overlapped>>
  BY DEF proxyVars
<1>2. /\ CallTyped' /\ call'[h] = Idle /\ \A g \in Handlers : g # h => call'[g] = call[g]
      /\ Cardinality(Starters') <= Cardinality(Starters) /\ Cardinality(Stoppers') = Cardinality(Stoppers)
  <2>1. h \notin Starters' /\ h \notin Stoppers /\ h \notin Stoppers'
    BY Distinct DEF AppInv, CallTyped, Starters, Stoppers
  <2> QED
    <3>1. CallTyped' /\ call'[h] = Idle /\ \A g \in Handlers : g # h => call'[g] = call[g]
      BY Distinct DEF AppInv, CallTyped
    <3>2. Cardinality(Starters') = Cardinality(Starters) \/ Cardinality(Starters') = Cardinality(Starters) - 1
      BY <2>1, <3>1, Moves
    <3>3. Cardinality(Stoppers') = Cardinality(Stoppers)
      BY <2>1, <3>1, Moves
    <3> QED
      BY <3>1, <3>2, <3>3, Counts
<1>3. AppTyped'
  BY <1>1, Distinct DEF AppInv, AppTyped
<1>4. MutexHeld'
  BY <1>1, <1>2, Distinct DEF AppInv, Always, MutexHeld, Holding
<1>9. ProxyInHand'
  BY <1>1, <1>2, Distinct DEF AppInv, Always, ProxyInHand
<1>5. ProxiesCounted'
  BY <1>1, <1>2, Counts, CountsLater, CountKept DEF AppInv, AppTyped
<1>6. StopsCounted' /\ ProxiesKnown' /\ StoresKnown' /\ SavedBefore'
  BY <1>1, <1>2, Distinct DEF AppInv, Always, StopsCounted, ProxiesKnown, StoresKnown, SavedBefore
<1>7. ~racing => InStep'
  BY <1>1, <1>2, Distinct DEF AppInv, InStep, Committing, Swapping, Updates
<1>8. ~overlapped => FlagTrue' /\ ListenersKnown' /\ StoreUnused'
  BY <1>1, <1>2, Distinct DEF AppInv, FlagTrue, ListenersKnown, StoreUnused, Stoppers, TakenOut
<1> QED
  BY <1>1, <1>2, <1>3, <1>4, <1>5, <1>6, <1>7, <1>8, <1>9 DEF AppInv, Always

\* A start that finds no proxy running has the mutex.
LEMMA LockStartBuilds ==
  ASSUME AppInv, NEW h \in Handlers,
         call[h].at = "start", ~running, proxyMutex = "none",
         call' = [call EXCEPT ![h] = [call[h] EXCEPT !.at = "build"]],
         proxyMutex' = h,
         UNCHANGED <<proxy, listening, lost, stopping, running, proxyScope, proxyStore, stops, overlapped, store, openings, memory, file, saved, edited, racing, calls>>
  PROVE  AppInv'
<1>2. /\ CallTyped' /\ call'[h].at = "build" /\ call'[h] = [call[h] EXCEPT !.at = "build"]
      /\ \A g \in Handlers : g # h => call'[g] = call[g]
  <2>1. CallTyped /\ call[h] \in CallRecords
    BY DEF AppInv, CallTyped
  <2>2. PICK r : r = [call[h] EXCEPT !.at = "build"]
    OBVIOUS
  <2>3. r \in CallRecords /\ r.at = "build"
    BY <2>1, <2>2, Distinct DEF AppInv, AppTyped, CallRecords, Steps, Updates
  <2>4. call' = [call EXCEPT ![h] = r]
    BY <2>2
  <2>5. CallTyped' /\ call'[h] = r /\ \A g \in Handlers : g # h => call'[g] = call[g]
    BY <2>1, <2>3, <2>4, CallMoves
  <2> QED
    BY <2>2, <2>3, <2>5
<1>3. /\ Cardinality(Starters') = Cardinality(Starters)
      /\ Cardinality(Stoppers') = Cardinality(Stoppers)
  <2>1. (h \in Starters <=> h \in Starters') /\ (h \in Stoppers <=> h \in Stoppers')
    BY <1>2 DEF Starters, Stoppers
  <2> QED
    BY <1>2, <2>1, Moves
<1>4. AppTyped'
  BY Distinct DEF AppInv, AppTyped
<1>5. MutexHeld'
  BY <1>2, Distinct DEF AppInv, Always, MutexHeld, Holding
<1>6. ProxyInHand'
  BY <1>2, Distinct DEF AppInv, Always, ProxyInHand
<1>7. ProxiesCounted'
  BY <1>3, Counts, CountsLater, CountKept DEF AppInv, AppTyped
<1>8. StopsCounted'
  BY <1>3 DEF AppInv, Always, StopsCounted
<1>9. ProxiesKnown' /\ StoresKnown' /\ SavedBefore'
  BY <1>2, Distinct DEF AppInv, Always, ProxiesKnown, StoresKnown, SavedBefore
<1>10. ~racing' => InStep'
  BY <1>2, Distinct DEF AppInv, InStep, Committing, Swapping, Updates
<1>11. ~overlapped' => FlagTrue'
  BY <1>2, Distinct DEF AppInv, FlagTrue, Stoppers, TakenOut
<1>12. ~overlapped' => ListenersKnown' /\ StoreUnused'
  BY <1>2, Distinct DEF AppInv, ListenersKnown, StoreUnused
<1> QED
  BY <1>2, <1>4, <1>5, <1>6, <1>7, <1>8, <1>9, <1>10, <1>11, <1>12 DEF AppInv, Always

\* The store opened for a proxy is that of no other proxy.
LEMMA StoreIsBuilt ==
  ASSUME AppInv, NEW h \in Handlers,
         call[h].at = "build",
         call' = [call EXCEPT ![h] = [call[h] EXCEPT !.at = "configure", !.st = store']],
         store' = (IF store # 0 THEN store ELSE openings + 1),
         openings' = (IF store = 0 THEN openings + 1 ELSE openings),
         UNCHANGED <<proxyMutex, proxy, listening, lost, stopping, running, proxyScope, proxyStore, stops, overlapped, memory, file, saved, edited, racing, calls>>
  PROVE  AppInv'
<1>1. /\ store' \in Nat \ {0} /\ openings' \in Nat /\ openings <= openings' /\ store' <= openings'
      /\ (store' = store /\ store # 0) \/ store' > openings
  BY DEF AppInv, AppTyped
<1>2. /\ CallTyped' /\ call'[h].at = "configure" /\ call'[h] = [call[h] EXCEPT !.at = "configure", !.st = store'] /\ call'[h].st = store'
      /\ \A g \in Handlers : g # h => call'[g] = call[g]
  <2>1. CallTyped /\ call[h] \in CallRecords
    BY DEF AppInv, CallTyped
  <2>2. PICK r : r = [call[h] EXCEPT !.at = "configure", !.st = store']
    OBVIOUS
  <2>3. r \in CallRecords /\ r.at = "configure" /\ r.st = store'
    BY <1>1, <2>1, <2>2, Distinct DEF AppInv, CallRecords, Steps
  <2>4. call' = [call EXCEPT ![h] = r]
    BY <2>2
  <2>5. CallTyped' /\ call'[h] = r /\ \A g \in Handlers : g # h => call'[g] = call[g]
    BY <2>1, <2>3, <2>4, CallMoves
  <2> QED
    BY <2>2, <2>3, <2>5
<1>3. /\ Cardinality(Starters') = Cardinality(Starters)
      /\ Cardinality(Stoppers') = Cardinality(Stoppers)
  <2>1. (h \in Starters <=> h \in Starters') /\ (h \in Stoppers <=> h \in Stoppers')
    BY <1>2 DEF Starters, Stoppers
  <2> QED
    BY <1>2, <2>1, Moves
<1>4. AppTyped'
  BY <1>1, Distinct DEF AppInv, AppTyped
<1>5. MutexHeld'
  BY <1>2, Distinct DEF AppInv, Always, MutexHeld, Holding
<1>6. ProxyInHand'
  BY <1>2, Distinct DEF AppInv, Always, ProxyInHand
<1>7. ProxiesCounted'
  BY <1>3, Counts, CountsLater, CountKept DEF AppInv, AppTyped
<1>8. StopsCounted'
  BY <1>3 DEF AppInv, Always, StopsCounted
<1>9. ProxiesKnown' /\ StoresKnown' /\ SavedBefore'
  <2>1. ProxiesKnown' /\ SavedBefore'
    BY <1>2 DEF AppInv, Always, ProxiesKnown, SavedBefore
  <2>2. StoresKnown'
    BY <1>1, <1>2, Distinct DEF AppInv, Always, StoresKnown, AppTyped, CallTyped, CallRecords
  <2> QED
    BY <2>1, <2>2
<1>10. ~racing' => InStep'
  BY <1>2, Distinct DEF AppInv, InStep, Committing, Swapping, Updates
<1>11. ~overlapped' => FlagTrue'
  BY <1>2, Distinct DEF AppInv, FlagTrue, Stoppers, TakenOut
<1>12. ~overlapped' => ListenersKnown' /\ StoreUnused'
  <2> SUFFICES ASSUME ~overlapped PROVE ListenersKnown' /\ StoreUnused'
    OBVIOUS
  <2>1. ListenersKnown'
    BY <1>2 DEF AppInv, ListenersKnown
  <2>2. \A p \in Proxies : proxyStore[p] \in Nat /\ proxyStore[p] <= openings
    BY DEF AppInv, AppTyped, Always, StoresKnown
  <2>3. proxy = 0 /\ \A g \in Handlers : call[g].at \notin {"drain", "reset"} \/ call[g].p = 0
    BY DEF AppInv, FlagTrue, TakenOut
  <2>4. \A g \in Handlers : call[g].at = "install" => FALSE
    BY Distinct DEF AppInv, Always, MutexHeld, Holding
  <2>5. \A p \in Proxies : proxyStore[p] # store'
    BY <1>1, <2>2, <2>3, <2>4, Distinct DEF AppInv, StoreUnused, AppTyped
  <2> QED
    BY <1>2, <2>1, <2>3, <2>5 DEF AppInv, StoreUnused
<1> QED
  BY <1>2, <1>4, <1>5, <1>6, <1>7, <1>8, <1>9, <1>10, <1>11, <1>12 DEF AppInv, Always

\* The proxy is built with the scope in memory.
LEMMA ConfigureStep ==
  ASSUME AppInv, NEW h \in Handlers,
         call[h].at = "configure", memory.scope # Broken,
         call' = [call EXCEPT ![h] = [call[h] EXCEPT !.at = "bind", !.cfg = memory]],
         UNCHANGED <<proxyMutex, proxy, listening, lost, stopping, running, proxyScope, proxyStore, stops, overlapped, store, openings, memory, file, saved, edited, racing, calls>>
  PROVE  AppInv'
<1>2. /\ CallTyped' /\ call'[h].at = "bind" /\ call'[h] = [call[h] EXCEPT !.at = "bind", !.cfg = memory] /\ call'[h].st = call[h].st /\ call'[h].cfg = memory
      /\ \A g \in Handlers : g # h => call'[g] = call[g]
  <2>1. call[h] \in CallRecords /\ CallTyped /\ memory \in Configs
    BY DEF AppInv, AppTyped, CallTyped
  <2>2. "bind" \in Steps
    BY DEF Steps, Updates
  <2>3. PICK r : r = [call[h] EXCEPT !.at = "bind", !.cfg = memory]
    OBVIOUS
  <2>4. r \in CallRecords /\ r.at = "bind" /\ r.st = call[h].st /\ r.cfg = memory
    BY <2>1, <2>2, <2>3 DEF CallRecords
  <2>5. call' = [call EXCEPT ![h] = r]
    BY <2>3
  <2>6. CallTyped' /\ call'[h] = r /\ \A g \in Handlers : g # h => call'[g] = call[g]
    BY <2>1, <2>4, <2>5, CallMoves
  <2> QED
    BY <2>3, <2>4, <2>6
<1>3. /\ Cardinality(Starters') = Cardinality(Starters)
      /\ Cardinality(Stoppers') = Cardinality(Stoppers)
  <2>1. (h \in Starters <=> h \in Starters') /\ (h \in Stoppers <=> h \in Stoppers')
    BY <1>2 DEF Starters, Stoppers
  <2> QED
    BY <1>2, <2>1, Moves
<1>4. AppTyped'
  BY Distinct DEF AppInv, AppTyped
<1>5. MutexHeld'
  BY <1>2, Distinct DEF AppInv, Always, MutexHeld, Holding
<1>6. ProxyInHand'
  BY <1>2, Distinct DEF AppInv, Always, ProxyInHand
<1>7. ProxiesCounted'
  BY <1>3, Counts, CountsLater, CountKept DEF AppInv, AppTyped
<1>8. StopsCounted'
  BY <1>3 DEF AppInv, Always, StopsCounted
<1>9. ProxiesKnown' /\ StoresKnown' /\ SavedBefore'
  BY <1>2, Distinct DEF AppInv, Always, ProxiesKnown, StoresKnown, SavedBefore
<1>10. ~racing' => InStep'
  BY <1>2, Distinct DEF AppInv, InStep, Committing, Swapping, Updates
<1>11. ~overlapped' => FlagTrue'
  BY <1>2, Distinct DEF AppInv, FlagTrue, Stoppers, TakenOut
<1>12. ~overlapped' => ListenersKnown' /\ StoreUnused'
  BY <1>2, Distinct DEF AppInv, ListenersKnown, StoreUnused
<1> QED
  BY <1>2, <1>4, <1>5, <1>6, <1>7, <1>8, <1>9, <1>10, <1>11, <1>12 DEF AppInv, Always

\* A request that reaches its handler.
LEMMA CallStep ==
  ASSUME AppInv, NEW h \in Handlers,
         NEW entry \in {"start", "stop", "scope", "other_read", "load"},
         call[h].at = "idle",
         call' = [call EXCEPT ![h] = [call[h] EXCEPT !.at = entry]],
         racing' = (racing \/ (entry \in {"other_read", "load"} /\ \E g \in Handlers : call[g].at \in Updates)),
         calls < MaxCalls,
         calls' = calls + 1,
         UNCHANGED <<proxyMutex, proxy, listening, lost, stopping, running, proxyScope, proxyStore, stops, overlapped, store, openings, memory, file, saved, edited>>
  PROVE  AppInv'
<1>2. /\ CallTyped' /\ call'[h].at = entry /\ call'[h] = [call[h] EXCEPT !.at = entry]
      /\ \A g \in Handlers : g # h => call'[g] = call[g]
  <2>1. CallTyped /\ call[h] \in CallRecords
    BY DEF AppInv, CallTyped
  <2>2. PICK r : r = [call[h] EXCEPT !.at = entry]
    OBVIOUS
  <2>3. r \in CallRecords /\ r.at = entry
    BY <2>1, <2>2, Distinct DEF AppInv, AppTyped, CallRecords, Steps, Updates
  <2>4. call' = [call EXCEPT ![h] = r]
    BY <2>2
  <2>5. CallTyped' /\ call'[h] = r /\ \A g \in Handlers : g # h => call'[g] = call[g]
    BY <2>1, <2>3, <2>4, CallMoves
  <2> QED
    BY <2>2, <2>3, <2>5
<1>3. /\ Cardinality(Starters') <= Cardinality(Starters) + 1
      /\ Cardinality(Stoppers') = Cardinality(Stoppers)
  <2>1. h \notin Starters /\ h \notin Stoppers /\ h \notin Stoppers'
    BY <1>2 DEF Starters, Stoppers
  <2>2. Cardinality(Starters') = Cardinality(Starters) \/ Cardinality(Starters') = Cardinality(Starters) + 1
    BY <1>2, <2>1, Moves
  <2> QED
    BY <1>2, <2>1, <2>2, Moves, Counts
<1>4. AppTyped'
  BY Distinct DEF AppInv, AppTyped
<1>5. MutexHeld'
  BY <1>2, Distinct DEF AppInv, Always, MutexHeld, Holding
<1>6. ProxyInHand'
  BY <1>2, Distinct DEF AppInv, Always, ProxyInHand
<1>7. ProxiesCounted'
  BY <1>3, Counts, CountsLater, CountKept DEF AppInv, AppTyped
<1>8. StopsCounted'
  BY <1>3 DEF AppInv, Always, StopsCounted
<1>9. ProxiesKnown' /\ StoresKnown' /\ SavedBefore'
  BY <1>2, Distinct DEF AppInv, Always, ProxiesKnown, StoresKnown, SavedBefore
<1>10. ~racing' => InStep'
  <2> SUFFICES ASSUME ~racing' PROVE InStep'
    OBVIOUS
  <2>1. ~racing /\ InStep /\ (entry \in Updates => \A g \in Handlers : call[g].at \notin Updates)
    BY DEF AppInv, Updates
  <2>2. \A f, g \in Handlers : call'[f].at \in Updates /\ call'[g].at \in Updates => f = g
    BY <1>2, <2>1 DEF InStep
  <2>3. (Committing' <=> Committing) /\ (Swapping' <=> Swapping)
    BY <1>2 DEF Committing, Swapping
  <2> QED
    BY <1>2, <2>1, <2>2, <2>3 DEF InStep
<1>11. ~overlapped' => FlagTrue'
  BY <1>2, Distinct DEF AppInv, FlagTrue, Stoppers, TakenOut
<1>12. ~overlapped' => ListenersKnown' /\ StoreUnused'
  BY <1>2, Distinct DEF AppInv, ListenersKnown, StoreUnused
<1> QED
  BY <1>2, <1>4, <1>5, <1>6, <1>7, <1>8, <1>9, <1>10, <1>11, <1>12 DEF AppInv, Always

\* A proxy that has been built and listens is installed.
LEMMA ProxyInstalled ==
  ASSUME AppInv, NEW h \in Handlers,
         call[h].at = "install",
         call' = [call EXCEPT ![h] = Idle],
         proxyMutex' = (IF proxyMutex = h THEN "none" ELSE proxyMutex),
         proxy' = call[h].p,
         running' = TRUE,
         overlapped' = (overlapped \/ stops > 0),
         UNCHANGED <<listening, lost, stopping, proxyScope, proxyStore, stops, store, openings, memory, file, saved, edited, racing, calls>>
  PROVE  AppInv'
<1>1. /\ call[h].p \in Proxies /\ call[h].p \in listening \cup lost /\ call[h].p \notin stopping
      /\ \A g \in Handlers : g # h => call[g].at \notin Holding
  <2>1. proxyMutex = h
    BY DEF AppInv, Always, MutexHeld, Holding
  <2> QED
    BY <2>1, Distinct DEF AppInv, AppTyped, Always, ProxiesKnown, MutexHeld
<1>2. /\ CallTyped' /\ call'[h].at = "idle" /\ call'[h] = Idle
      /\ \A g \in Handlers : g # h => call'[g] = call[g]
  <2>1. CallTyped /\ call[h] \in CallRecords
    BY DEF AppInv, CallTyped
  <2>2. PICK r : r = Idle
    OBVIOUS
  <2>3. r \in CallRecords /\ r.at = "idle"
    BY <2>1, <2>2, Distinct DEF AppInv, AppTyped, CallRecords, Steps, Updates
  <2>4. call' = [call EXCEPT ![h] = r]
    BY <2>2
  <2>5. CallTyped' /\ call'[h] = r /\ \A g \in Handlers : g # h => call'[g] = call[g]
    BY <2>1, <2>3, <2>4, CallMoves
  <2> QED
    BY <2>2, <2>3, <2>5
<1>3. /\ Cardinality(Starters') = Cardinality(Starters)
      /\ Cardinality(Stoppers') = Cardinality(Stoppers)
  <2>1. (h \in Starters <=> h \in Starters') /\ (h \in Stoppers <=> h \in Stoppers')
    BY <1>2 DEF Starters, Stoppers
  <2> QED
    BY <1>2, <2>1, Moves
<1>4. AppTyped'
  BY <1>1, Distinct DEF AppInv, AppTyped
<1>5. MutexHeld'
  BY <1>2, Distinct DEF AppInv, Always, MutexHeld, Holding
<1>6. ProxyInHand'
  BY <1>1, <1>2, Distinct DEF AppInv, Always, ProxyInHand, Holding
<1>7. ProxiesCounted'
  BY <1>3, Counts, CountsLater, CountKept DEF AppInv, AppTyped
<1>8. StopsCounted'
  BY <1>3 DEF AppInv, Always, StopsCounted
<1>9. ProxiesKnown' /\ StoresKnown' /\ SavedBefore'
  BY <1>1, <1>2, Distinct DEF AppInv, Always, ProxiesKnown, StoresKnown, SavedBefore, Holding
<1>10. ~racing' => InStep'
  BY <1>1, <1>2, Distinct DEF AppInv, InStep, Committing, Swapping, Updates, Holding
<1>11. ~overlapped' => FlagTrue'
  <2> SUFFICES ASSUME ~overlapped' PROVE FlagTrue'
    OBVIOUS
  <2>1. stops = 0 /\ ~overlapped
    <3>1. ~(overlapped \/ stops > 0)
      OBVIOUS
    <3>2. stops \in Nat
      BY Counts DEF AppInv, Always, StopsCounted
    <3> QED
      BY <3>1, <3>2
  <2>2. Stoppers = {}
    BY <2>1, Counts, FS_EmptySet DEF AppInv, Always, StopsCounted
  <2>3. Stoppers' = {} /\ ~TakenOut'
    BY <1>2, <2>2 DEF Stoppers, TakenOut
  <2>4. \A g \in Handlers : call'[g].at \notin {"build", "configure", "bind", "install"}
    BY <1>1, <1>2 DEF Holding
  <2> QED
    BY <1>1, <2>3, <2>4, Distinct DEF FlagTrue
<1>12. ~overlapped' => ListenersKnown' /\ StoreUnused'
  <2> SUFFICES ASSUME ~overlapped PROVE ListenersKnown' /\ StoreUnused'
    OBVIOUS
  <2>1. ListenersKnown /\ StoreUnused /\ proxy = 0
    BY DEF AppInv, FlagTrue
  <2>2. \A g \in Handlers : /\ call[g].at = "install" => g = h
                            /\ call'[g].at \notin {"configure", "bind", "install"}
    BY <1>1, <1>2 DEF Holding
  <2>3. ListenersKnown'
    <3>1. \A q \in listening : q # 0
      BY Distinct DEF AppInv, AppTyped
    <3> QED
      BY <1>1, <1>2, <2>1, <2>2, <3>1 DEF ListenersKnown
  <2>4. \A q \in Proxies : q # call[h].p /\ store # 0 /\ proxyStore[q] = store =>
          \E g \in Handlers : call'[g].at \in {"drain", "reset"} /\ call'[g].p # 0
    BY <1>1, <1>2, <2>1, <2>2, Distinct DEF StoreUnused
  <2>5. \A q \in Proxies \ {call[h].p} : proxyStore[q] # proxyStore[call[h].p]
    BY <2>1 DEF StoreUnused
  <2> QED
    BY <2>2, <2>3, <2>4, <2>5 DEF StoreUnused
<1> QED
  BY <1>2, <1>4, <1>5, <1>6, <1>7, <1>8, <1>9, <1>10, <1>11, <1>12 DEF AppInv, Always

\* A stop that finds no proxy.
LEMMA StopFindsNone ==
  ASSUME AppInv, NEW h \in Handlers,
         call[h].at = "stop", proxyMutex = "none", proxy = 0,
         call' = [call EXCEPT ![h] = [call[h] EXCEPT !.at = "reset"]],
         stops' = stops + 1,
         overlapped' = (overlapped \/ stops > 0),
         UNCHANGED <<proxyMutex, proxy, listening, lost, stopping, running, proxyScope, proxyStore, store, openings, memory, file, saved, edited, racing, calls>>
  PROVE  AppInv'
<1>1. \A g \in Handlers : call[g].at \notin Holding
  BY Distinct DEF AppInv, Always, MutexHeld
<1>2. /\ CallTyped' /\ call'[h].at = "reset" /\ call'[h] = [call[h] EXCEPT !.at = "reset"] /\ call'[h].p = 0
      /\ \A g \in Handlers : g # h => call'[g] = call[g]
  <2>1. CallTyped /\ call[h] \in CallRecords
    BY DEF AppInv, CallTyped
  <2>2. PICK r : r = [call[h] EXCEPT !.at = "reset"]
    OBVIOUS
  <2>3. r \in CallRecords /\ r.at = "reset" /\ r.p = 0
    BY <2>1, <2>2, Distinct DEF AppInv, CallRecords, Steps, Always, ProxyInHand
  <2>4. call' = [call EXCEPT ![h] = r]
    BY <2>2
  <2>5. CallTyped' /\ call'[h] = r /\ \A g \in Handlers : g # h => call'[g] = call[g]
    BY <2>1, <2>3, <2>4, CallMoves
  <2> QED
    BY <2>2, <2>3, <2>5
<1>3. /\ Cardinality(Starters') = Cardinality(Starters)
      /\ Cardinality(Stoppers') = Cardinality(Stoppers) + 1
  <2>1. (h \in Starters <=> h \in Starters') /\ h \notin Stoppers /\ h \in Stoppers'
    BY <1>2 DEF Starters, Stoppers
  <2> QED
    BY <1>2, <2>1, Moves
<1>4. AppTyped'
  BY Distinct DEF AppInv, AppTyped
<1>5. MutexHeld'
  BY <1>2, Distinct DEF AppInv, Always, MutexHeld, Holding
<1>6. ProxyInHand'
  BY <1>2, Distinct DEF AppInv, Always, ProxyInHand
<1>7. ProxiesCounted'
  BY <1>3, Counts, CountsLater, CountKept DEF AppInv, AppTyped
<1>8. StopsCounted'
  BY <1>3 DEF AppInv, Always, StopsCounted
<1>9. ProxiesKnown' /\ StoresKnown' /\ SavedBefore'
  BY <1>2, Distinct DEF AppInv, Always, ProxiesKnown, StoresKnown, SavedBefore
<1>10. ~racing' => InStep'
  BY <1>2, Distinct DEF AppInv, InStep, Committing, Swapping, Updates
<1>11. ~overlapped' => FlagTrue'
  <2> SUFFICES ASSUME ~overlapped' PROVE FlagTrue'
    OBVIOUS
  <2>1. ~overlapped /\ stops = 0
    <3>1. ~(overlapped \/ stops > 0)
      OBVIOUS
    <3>2. stops \in Nat
      BY Counts DEF AppInv, Always, StopsCounted
    <3> QED
      BY <3>1, <3>2
  <2>2. Stoppers = {}
    BY <2>1, Counts, FS_EmptySet DEF AppInv, Always, StopsCounted
  <2>3. Stoppers' = {h} /\ ~TakenOut
    BY <1>2, <2>2 DEF Stoppers, TakenOut
  <2>4. \A g \in Handlers : call'[g].at \notin {"build", "configure", "bind", "install"}
    BY <1>1, <1>2 DEF Holding
  <2>5. ~TakenOut'
    BY <1>2, <2>3 DEF TakenOut
  <2> QED
    BY <2>1, <2>3, <2>4, <2>5 DEF AppInv, FlagTrue
<1>12. ~overlapped' => ListenersKnown' /\ StoreUnused'
  <2> SUFFICES ASSUME ~overlapped PROVE ListenersKnown' /\ StoreUnused'
    OBVIOUS
  <2>1. ListenersKnown'
    BY <1>2 DEF AppInv, ListenersKnown
  <2>2. \A q \in Proxies : store # 0 /\ proxyStore[q] = store =>
          \E g \in Handlers : \/ call'[g].at = "install" /\ call'[g].p = q
                              \/ call'[g].at \in {"drain", "reset"} /\ call'[g].p # 0
    BY <1>2, Distinct DEF AppInv, StoreUnused
  <2> QED
    BY <1>1, <1>2, <2>1, <2>2 DEF StoreUnused, Holding
<1> QED
  BY <1>2, <1>4, <1>5, <1>6, <1>7, <1>8, <1>9, <1>10, <1>11, <1>12 DEF AppInv, Always

\* A stop takes the proxy out.
LEMMA StopTakesOut ==
  ASSUME AppInv, NEW h \in Handlers,
         call[h].at = "stop", proxyMutex = "none", proxy # 0,
         call' = [call EXCEPT ![h] = [call[h] EXCEPT !.at = "drain", !.p = proxy]],
         stops' = stops + 1,
         overlapped' = (overlapped \/ stops > 0),
         proxyMutex' = h,
         proxy' = 0,
         stopping' = stopping \cup {proxy},
         UNCHANGED <<listening, lost, running, proxyScope, proxyStore, store, openings, memory, file, saved, edited, racing, calls>>
  PROVE  AppInv'
<1>1. \A g \in Handlers : call[g].at \notin Holding
  BY Distinct DEF AppInv, Always, MutexHeld
<1>0. proxy \in Proxies /\ proxy \in listening \cup lost /\ proxy \notin stopping
  BY DEF AppInv, AppTyped, Always, ProxiesKnown
<1>2. /\ CallTyped' /\ call'[h].at = "drain" /\ call'[h] = [call[h] EXCEPT !.at = "drain", !.p = proxy] /\ call'[h].p = proxy
      /\ \A g \in Handlers : g # h => call'[g] = call[g]
  <2>1. [call[h] EXCEPT !.at = "drain", !.p = proxy] \in CallRecords
    BY <1>0 DEF AppInv, CallTyped, CallRecords, Steps
  <2> QED
    BY <2>1 DEF AppInv, CallTyped, CallRecords
<1>3. /\ Cardinality(Starters') = Cardinality(Starters)
      /\ Cardinality(Stoppers') = Cardinality(Stoppers) + 1
  <2>1. (h \in Starters <=> h \in Starters') /\ h \notin Stoppers /\ h \in Stoppers'
    BY <1>2 DEF Starters, Stoppers
  <2> QED
    BY <1>2, <2>1, Moves
<1>4. AppTyped'
  BY <1>0, Distinct DEF AppInv, AppTyped
<1>5. MutexHeld'
  BY <1>2, Distinct DEF AppInv, Always, MutexHeld, Holding
<1>6. ProxyInHand'
  BY <1>1, <1>2, Distinct DEF AppInv, Always, ProxyInHand, Holding
<1>7. ProxiesCounted'
  BY <1>3, Counts, CountsLater, CountKept DEF AppInv, AppTyped
<1>8. StopsCounted'
  BY <1>3 DEF AppInv, Always, StopsCounted
<1>9. ProxiesKnown' /\ StoresKnown' /\ SavedBefore'
  BY <1>0, <1>1, <1>2, Distinct DEF AppInv, Always, ProxiesKnown, StoresKnown, SavedBefore, Holding
<1>10. ~racing' => InStep'
  BY <1>2, Distinct DEF AppInv, InStep, Committing, Swapping, Updates
<1>11. ~overlapped' => FlagTrue'
  <2> SUFFICES ASSUME ~overlapped' PROVE FlagTrue'
    OBVIOUS
  <2>1. ~overlapped /\ stops = 0
    <3>1. ~(overlapped \/ stops > 0)
      OBVIOUS
    <3>2. stops \in Nat
      BY Counts DEF AppInv, Always, StopsCounted
    <3> QED
      BY <3>1, <3>2
  <2>2. Stoppers = {}
    BY <2>1, Counts, FS_EmptySet DEF AppInv, Always, StopsCounted
  <2>3. Stoppers' = {h} /\ ~TakenOut
    BY <1>2, <2>2 DEF Stoppers, TakenOut
  <2>4. \A g \in Handlers : call'[g].at \notin {"build", "configure", "bind", "install"}
    BY <1>1, <1>2 DEF Holding
  <2>5. TakenOut'
    BY <1>0, <1>2, Distinct DEF TakenOut
  <2>6. running
    BY <2>1 DEF AppInv, FlagTrue
  <2> QED
    BY <2>3, <2>4, <2>5, <2>6 DEF FlagTrue
<1>12. ~overlapped' => ListenersKnown' /\ StoreUnused'
  <2> SUFFICES ASSUME ~overlapped PROVE ListenersKnown' /\ StoreUnused'
    OBVIOUS
  <2>1. \A g \in Handlers : call[g].at # "install" /\ call[g].at # "drain" /\ call'[g].at \notin {"configure", "bind", "install"}
    BY <1>1, <1>2 DEF Holding
  <2>2. ListenersKnown'
    BY <1>0, <1>2, <2>1 DEF AppInv, ListenersKnown
  <2>3. call'[h].at \in {"drain", "reset"} /\ call'[h].p # 0
    BY <1>0, <1>2, Distinct
  <2> QED
    BY <2>1, <2>2, <2>3 DEF StoreUnused
<1> QED
  BY <1>2, <1>4, <1>5, <1>6, <1>7, <1>8, <1>9, <1>10, <1>11, <1>12 DEF AppInv, Always

\* The stop of the proxy is over.
LEMMA DrainedStep ==
  ASSUME AppInv, NEW h \in Handlers,
         call[h].at = "drain", call[h].p \notin stopping,
         call' = [call EXCEPT ![h] = [call[h] EXCEPT !.at = "reset"]],
         proxyMutex' = (IF proxyMutex = h THEN "none" ELSE proxyMutex),
         UNCHANGED <<proxy, listening, lost, stopping, running, proxyScope, proxyStore, stops, overlapped, store, openings, memory, file, saved, edited, racing, calls>>
  PROVE  AppInv'
<1>2. /\ CallTyped' /\ call'[h].at = "reset" /\ call'[h] = [call[h] EXCEPT !.at = "reset"] /\ call'[h].p = call[h].p
      /\ \A g \in Handlers : g # h => call'[g] = call[g]
  <2>1. CallTyped /\ call[h] \in CallRecords
    BY DEF AppInv, CallTyped
  <2>2. PICK r : r = [call[h] EXCEPT !.at = "reset"]
    OBVIOUS
  <2>3. r \in CallRecords /\ r.at = "reset" /\ r.p = call[h].p
    BY <2>1, <2>2, Distinct DEF AppInv, AppTyped, CallRecords, Steps, Updates
  <2>4. call' = [call EXCEPT ![h] = r]
    BY <2>2
  <2>5. CallTyped' /\ call'[h] = r /\ \A g \in Handlers : g # h => call'[g] = call[g]
    BY <2>1, <2>3, <2>4, CallMoves
  <2> QED
    BY <2>2, <2>3, <2>5
<1>3. /\ Cardinality(Starters') = Cardinality(Starters)
      /\ Cardinality(Stoppers') = Cardinality(Stoppers)
  <2>1. (h \in Starters <=> h \in Starters') /\ (h \in Stoppers <=> h \in Stoppers')
    BY <1>2 DEF Starters, Stoppers
  <2> QED
    BY <1>2, <2>1, Moves
<1>4. AppTyped'
  BY Distinct DEF AppInv, AppTyped
<1>5. MutexHeld'
  BY <1>2, Distinct DEF AppInv, Always, MutexHeld, Holding
<1>6. ProxyInHand'
  BY <1>2, Distinct DEF AppInv, Always, ProxyInHand
<1>7. ProxiesCounted'
  BY <1>3, Counts, CountsLater, CountKept DEF AppInv, AppTyped
<1>8. StopsCounted'
  BY <1>3 DEF AppInv, Always, StopsCounted
<1>9. ProxiesKnown' /\ StoresKnown' /\ SavedBefore'
  BY <1>2, Distinct DEF AppInv, Always, ProxiesKnown, StoresKnown, SavedBefore
<1>10. ~racing' => InStep'
  BY <1>2, Distinct DEF AppInv, InStep, Committing, Swapping, Updates
<1>11. ~overlapped' => FlagTrue'
  BY <1>2, Distinct DEF AppInv, FlagTrue, Stoppers, TakenOut
<1>12. ~overlapped' => ListenersKnown' /\ StoreUnused'
  BY <1>2, Distinct DEF AppInv, ListenersKnown, StoreUnused
<1> QED
  BY <1>2, <1>4, <1>5, <1>6, <1>7, <1>8, <1>9, <1>10, <1>11, <1>12 DEF AppInv, Always

\* The cached store is given up.
LEMMA ResetStep ==
  ASSUME AppInv, NEW h \in Handlers,
         call[h].at = "reset",
         call' = [call EXCEPT ![h] = [call[h] EXCEPT !.at = "clear"]],
         store' = 0,
         UNCHANGED <<proxyMutex, proxy, listening, lost, stopping, running, proxyScope, proxyStore, stops, overlapped, openings, memory, file, saved, edited, racing, calls>>
  PROVE  AppInv'
<1>2. /\ CallTyped' /\ call'[h].at = "clear" /\ call'[h] = [call[h] EXCEPT !.at = "clear"] /\ call'[h].p = call[h].p
      /\ \A g \in Handlers : g # h => call'[g] = call[g]
  <2>1. CallTyped /\ call[h] \in CallRecords
    BY DEF AppInv, CallTyped
  <2>2. PICK r : r = [call[h] EXCEPT !.at = "clear"]
    OBVIOUS
  <2>3. r \in CallRecords /\ r.at = "clear" /\ r.p = call[h].p
    BY <2>1, <2>2, Distinct DEF AppInv, AppTyped, CallRecords, Steps, Updates
  <2>4. call' = [call EXCEPT ![h] = r]
    BY <2>2
  <2>5. CallTyped' /\ call'[h] = r /\ \A g \in Handlers : g # h => call'[g] = call[g]
    BY <2>1, <2>3, <2>4, CallMoves
  <2> QED
    BY <2>2, <2>3, <2>5
<1>3. /\ Cardinality(Starters') = Cardinality(Starters)
      /\ Cardinality(Stoppers') = Cardinality(Stoppers)
  <2>1. (h \in Starters <=> h \in Starters') /\ (h \in Stoppers <=> h \in Stoppers')
    BY <1>2 DEF Starters, Stoppers
  <2> QED
    BY <1>2, <2>1, Moves
<1>4. AppTyped'
  BY Distinct DEF AppInv, AppTyped
<1>5. MutexHeld'
  BY <1>2, Distinct DEF AppInv, Always, MutexHeld, Holding
<1>6. ProxyInHand'
  BY <1>2, Distinct DEF AppInv, Always, ProxyInHand
<1>7. ProxiesCounted'
  BY <1>3, Counts, CountsLater, CountKept DEF AppInv, AppTyped
<1>8. StopsCounted'
  BY <1>3 DEF AppInv, Always, StopsCounted
<1>9. ProxiesKnown' /\ StoresKnown' /\ SavedBefore'
  BY <1>2, Distinct DEF AppInv, Always, ProxiesKnown, StoresKnown, SavedBefore
<1>10. ~racing' => InStep'
  BY <1>2, Distinct DEF AppInv, InStep, Committing, Swapping, Updates
<1>11. ~overlapped' => FlagTrue'
  BY <1>2, Distinct DEF AppInv, FlagTrue, Stoppers, TakenOut
<1>12. ~overlapped' => ListenersKnown' /\ StoreUnused'
  BY <1>2, Distinct DEF AppInv, ListenersKnown, StoreUnused
<1> QED
  BY <1>2, <1>4, <1>5, <1>6, <1>7, <1>8, <1>9, <1>10, <1>11, <1>12 DEF AppInv, Always

\* The flag is cleared.
LEMMA ClearStep ==
  ASSUME AppInv, NEW h \in Handlers,
         call[h].at = "clear",
         call' = [call EXCEPT ![h] = Idle],
         running' = FALSE,
         stops' = stops - 1,
         UNCHANGED <<proxyMutex, proxy, listening, lost, stopping, proxyScope, proxyStore, overlapped, store, openings, memory, file, saved, edited, racing, calls>>
  PROVE  AppInv'
<1>2. /\ CallTyped' /\ call'[h].at = "idle" /\ call'[h] = Idle
      /\ \A g \in Handlers : g # h => call'[g] = call[g]
  <2>1. CallTyped /\ call[h] \in CallRecords
    BY DEF AppInv, CallTyped
  <2>2. PICK r : r = Idle
    OBVIOUS
  <2>3. r \in CallRecords /\ r.at = "idle"
    BY <2>1, <2>2, Distinct DEF AppInv, AppTyped, CallRecords, Steps, Updates
  <2>4. call' = [call EXCEPT ![h] = r]
    BY <2>2
  <2>5. CallTyped' /\ call'[h] = r /\ \A g \in Handlers : g # h => call'[g] = call[g]
    BY <2>1, <2>3, <2>4, CallMoves
  <2> QED
    BY <2>2, <2>3, <2>5
<1>3. /\ Cardinality(Starters') = Cardinality(Starters)
      /\ Cardinality(Stoppers') = Cardinality(Stoppers) - 1
  <2>1. (h \in Starters <=> h \in Starters') /\ h \in Stoppers /\ h \notin Stoppers'
    BY <1>2 DEF Starters, Stoppers
  <2> QED
    BY <1>2, <2>1, Moves
<1>4. AppTyped'
  BY Distinct DEF AppInv, AppTyped
<1>5. MutexHeld'
  BY <1>2, Distinct DEF AppInv, Always, MutexHeld, Holding
<1>6. ProxyInHand'
  BY <1>2, Distinct DEF AppInv, Always, ProxyInHand
<1>7. ProxiesCounted'
  BY <1>3, Counts, CountsLater, CountKept DEF AppInv, AppTyped
<1>8. StopsCounted'
  BY <1>3 DEF AppInv, Always, StopsCounted
<1>9. ProxiesKnown' /\ StoresKnown' /\ SavedBefore'
  BY <1>2, Distinct DEF AppInv, Always, ProxiesKnown, StoresKnown, SavedBefore
<1>10. ~racing' => InStep'
  BY <1>2, Distinct DEF AppInv, InStep, Committing, Swapping, Updates
<1>11. ~overlapped' => FlagTrue'
  BY <1>2, Distinct DEF AppInv, FlagTrue, Stoppers, TakenOut
<1>12. ~overlapped' => ListenersKnown' /\ StoreUnused'
  BY <1>2, Distinct DEF AppInv, ListenersKnown, StoreUnused
<1> QED
  BY <1>2, <1>4, <1>5, <1>6, <1>7, <1>8, <1>9, <1>10, <1>11, <1>12 DEF AppInv, Always

\* An update of the scope has the mutex.
LEMMA ScopeLocked ==
  ASSUME AppInv, NEW h \in Handlers,
         call[h].at = "scope", proxyMutex = "none",
         call' = [call EXCEPT ![h] = [call[h] EXCEPT !.at = "scope_read", !.p = proxy]],
         proxyMutex' = h,
         racing' = (racing \/ \E g \in Handlers : call[g].at \in Updates),
         UNCHANGED <<proxy, listening, lost, stopping, running, proxyScope, proxyStore, stops, overlapped, store, openings, memory, file, saved, edited, calls>>
  PROVE  AppInv'
<1>2. /\ CallTyped' /\ call'[h].at = "scope_read" /\ call'[h] = [call[h] EXCEPT !.at = "scope_read", !.p = proxy] /\ call'[h].p = proxy
      /\ \A g \in Handlers : g # h => call'[g] = call[g]
  <2>1. call[h] \in CallRecords /\ CallTyped /\ proxy \in Proxies \cup {0}
    BY DEF AppInv, AppTyped, CallTyped
  <2>2. "scope_read" \in Steps
    BY DEF Steps, Updates
  <2>3. PICK r : r = [call[h] EXCEPT !.at = "scope_read", !.p = proxy]
    OBVIOUS
  <2>4. r \in CallRecords /\ r.at = "scope_read" /\ r.p = proxy
    BY <2>1, <2>2, <2>3 DEF CallRecords
  <2>5. call' = [call EXCEPT ![h] = r]
    BY <2>3
  <2>6. CallTyped' /\ call'[h] = r /\ \A g \in Handlers : g # h => call'[g] = call[g]
    BY <2>1, <2>4, <2>5, CallMoves
  <2> QED
    BY <2>3, <2>4, <2>6
<1>3. /\ Cardinality(Starters') = Cardinality(Starters)
      /\ Cardinality(Stoppers') = Cardinality(Stoppers)
  <2>1. (h \in Starters <=> h \in Starters') /\ (h \in Stoppers <=> h \in Stoppers')
    BY <1>2 DEF Starters, Stoppers
  <2> QED
    BY <1>2, <2>1, Moves
<1>4. AppTyped'
  BY Distinct DEF AppInv, AppTyped
<1>5. MutexHeld'
  BY <1>2, Distinct DEF AppInv, Always, MutexHeld, Holding
<1>6. ProxyInHand'
  BY <1>2, Distinct DEF AppInv, Always, ProxyInHand
<1>7. ProxiesCounted'
  BY <1>3, Counts, CountsLater, CountKept DEF AppInv, AppTyped
<1>8. StopsCounted'
  BY <1>3 DEF AppInv, Always, StopsCounted
<1>9. ProxiesKnown' /\ StoresKnown' /\ SavedBefore'
  BY <1>2, Distinct DEF AppInv, Always, ProxiesKnown, StoresKnown, SavedBefore
<1>10. ~racing' => InStep'
  <2> SUFFICES ASSUME ~racing' PROVE InStep'
    OBVIOUS
  <2>1. ~racing /\ InStep /\ \A g \in Handlers : call[g].at \notin Updates
    BY DEF AppInv, Updates
  <2>2. \A f, g \in Handlers : call'[f].at \in Updates /\ call'[g].at \in Updates => f = g
    BY <1>2, <2>1 DEF InStep
  <2>3. (Committing' <=> Committing) /\ (Swapping' <=> Swapping)
    BY <1>2 DEF Committing, Swapping
  <2> QED
    BY <1>2, <2>1, <2>2, <2>3 DEF InStep
<1>11. ~overlapped' => FlagTrue'
  BY <1>2, Distinct DEF AppInv, FlagTrue, Stoppers, TakenOut
<1>12. ~overlapped' => ListenersKnown' /\ StoreUnused'
  BY <1>2, Distinct DEF AppInv, ListenersKnown, StoreUnused
<1> QED
  BY <1>2, <1>4, <1>5, <1>6, <1>7, <1>8, <1>9, <1>10, <1>11, <1>12 DEF AppInv, Always

\* The candidate of an update of the scope.
LEMMA ScopeRead ==
  ASSUME AppInv, NEW h \in Handlers, NEW v \in Settings,
         call[h].at = "scope_read",
         call' = [call EXCEPT ![h] = [call[h] EXCEPT !.at = "scope_save", !.cfg = [memory EXCEPT !.scope = v]]],
         UNCHANGED <<proxyMutex, proxy, listening, lost, stopping, running, proxyScope, proxyStore, stops, overlapped, store, openings, memory, file, saved, edited, racing, calls>>
  PROVE  AppInv'
<1>1. [memory EXCEPT !.scope = v] \in Configs /\ [memory EXCEPT !.scope = v].scope # Broken
  BY Distinct DEF AppInv, AppTyped, Configs
<1>2. /\ CallTyped' /\ call'[h].at = "scope_save" /\ call'[h] = [call[h] EXCEPT !.at = "scope_save", !.cfg = [memory EXCEPT !.scope = v]] /\ call'[h].p = call[h].p /\ call'[h].cfg.scope # Broken
      /\ \A g \in Handlers : g # h => call'[g] = call[g]
  <2>1. CallTyped /\ call[h] \in CallRecords
    BY DEF AppInv, CallTyped
  <2>2. PICK r : r = [call[h] EXCEPT !.at = "scope_save", !.cfg = [memory EXCEPT !.scope = v]]
    OBVIOUS
  <2>3. r \in CallRecords /\ r.at = "scope_save" /\ r.p = call[h].p /\ r.cfg.scope # Broken
    BY <1>1, <2>1, <2>2, Distinct DEF AppInv, CallRecords, Steps, Updates
  <2>4. call' = [call EXCEPT ![h] = r]
    BY <2>2
  <2>5. CallTyped' /\ call'[h] = r /\ \A g \in Handlers : g # h => call'[g] = call[g]
    BY <2>1, <2>3, <2>4, CallMoves
  <2> QED
    BY <2>2, <2>3, <2>5
<1>3. /\ Cardinality(Starters') = Cardinality(Starters)
      /\ Cardinality(Stoppers') = Cardinality(Stoppers)
  <2>1. (h \in Starters <=> h \in Starters') /\ (h \in Stoppers <=> h \in Stoppers')
    BY <1>2 DEF Starters, Stoppers
  <2> QED
    BY <1>2, <2>1, Moves
<1>4. AppTyped'
  BY Distinct DEF AppInv, AppTyped
<1>5. MutexHeld'
  BY <1>2, Distinct DEF AppInv, Always, MutexHeld, Holding
<1>6. ProxyInHand'
  BY <1>2, Distinct DEF AppInv, Always, ProxyInHand
<1>7. ProxiesCounted'
  BY <1>3, Counts, CountsLater, CountKept DEF AppInv, AppTyped
<1>8. StopsCounted'
  BY <1>3 DEF AppInv, Always, StopsCounted
<1>9. ProxiesKnown' /\ StoresKnown' /\ SavedBefore'
  BY <1>2, Distinct DEF AppInv, Always, ProxiesKnown, StoresKnown, SavedBefore
<1>10. ~racing' => InStep'
  BY <1>2, Distinct DEF AppInv, InStep, Committing, Swapping, Updates
<1>11. ~overlapped' => FlagTrue'
  BY <1>2, Distinct DEF AppInv, FlagTrue, Stoppers, TakenOut
<1>12. ~overlapped' => ListenersKnown' /\ StoreUnused'
  BY <1>2, Distinct DEF AppInv, ListenersKnown, StoreUnused
<1> QED
  BY <1>2, <1>4, <1>5, <1>6, <1>7, <1>8, <1>9, <1>10, <1>11, <1>12 DEF AppInv, Always

\* The candidate of any other update.
LEMMA OtherRead ==
  ASSUME AppInv, NEW h \in Handlers, NEW v \in Settings,
         call[h].at = "other_read",
         call' = [call EXCEPT ![h] = [call[h] EXCEPT !.at = "other_save", !.cfg = [memory EXCEPT !.other = v]]],
         UNCHANGED <<proxyMutex, proxy, listening, lost, stopping, running, proxyScope, proxyStore, stops, overlapped, store, openings, memory, file, saved, edited, racing, calls>>
  PROVE  AppInv'
<1>1. [memory EXCEPT !.other = v] \in Configs /\ [memory EXCEPT !.other = v].scope = memory.scope
  BY DEF AppInv, AppTyped, Configs
<1>2. /\ CallTyped' /\ call'[h].at = "other_save" /\ call'[h] = [call[h] EXCEPT !.at = "other_save", !.cfg = [memory EXCEPT !.other = v]] /\ call'[h].cfg.scope = memory.scope
      /\ \A g \in Handlers : g # h => call'[g] = call[g]
  <2>1. CallTyped /\ call[h] \in CallRecords
    BY DEF AppInv, CallTyped
  <2>2. PICK r : r = [call[h] EXCEPT !.at = "other_save", !.cfg = [memory EXCEPT !.other = v]]
    OBVIOUS
  <2>3. r \in CallRecords /\ r.at = "other_save" /\ r.cfg.scope = memory.scope
    BY <1>1, <2>1, <2>2, Distinct DEF AppInv, CallRecords, Steps, Updates
  <2>4. call' = [call EXCEPT ![h] = r]
    BY <2>2
  <2>5. CallTyped' /\ call'[h] = r /\ \A g \in Handlers : g # h => call'[g] = call[g]
    BY <2>1, <2>3, <2>4, CallMoves
  <2> QED
    BY <2>2, <2>3, <2>5
<1>3. /\ Cardinality(Starters') = Cardinality(Starters)
      /\ Cardinality(Stoppers') = Cardinality(Stoppers)
  <2>1. (h \in Starters <=> h \in Starters') /\ (h \in Stoppers <=> h \in Stoppers')
    BY <1>2 DEF Starters, Stoppers
  <2> QED
    BY <1>2, <2>1, Moves
<1>4. AppTyped'
  BY Distinct DEF AppInv, AppTyped
<1>5. MutexHeld'
  BY <1>2, Distinct DEF AppInv, Always, MutexHeld, Holding
<1>6. ProxyInHand'
  BY <1>2, Distinct DEF AppInv, Always, ProxyInHand
<1>7. ProxiesCounted'
  BY <1>3, Counts, CountsLater, CountKept DEF AppInv, AppTyped
<1>8. StopsCounted'
  BY <1>3 DEF AppInv, Always, StopsCounted
<1>9. ProxiesKnown' /\ StoresKnown' /\ SavedBefore'
  BY <1>2, Distinct DEF AppInv, Always, ProxiesKnown, StoresKnown, SavedBefore
<1>10. ~racing' => InStep'
  BY <1>2, Distinct DEF AppInv, InStep, Committing, Swapping, Updates
<1>11. ~overlapped' => FlagTrue'
  BY <1>2, Distinct DEF AppInv, FlagTrue, Stoppers, TakenOut
<1>12. ~overlapped' => ListenersKnown' /\ StoreUnused'
  BY <1>2, Distinct DEF AppInv, ListenersKnown, StoreUnused
<1> QED
  BY <1>2, <1>4, <1>5, <1>6, <1>7, <1>8, <1>9, <1>10, <1>11, <1>12 DEF AppInv, Always

\* The candidate of an update of the scope is in the file.
LEMMA ScopeSaved ==
  ASSUME AppInv, NEW h \in Handlers,
         call[h].at = "scope_save",
         call' = [call EXCEPT ![h] = [call[h] EXCEPT !.at = "scope_commit"]],
         file' = {call[h].cfg},
         saved' = saved \cup {call[h].cfg.scope}, edited' = FALSE,
         UNCHANGED <<proxyMutex, proxy, listening, lost, stopping, running, proxyScope, proxyStore, stops, overlapped, store, openings, memory, racing, calls>>
  PROVE  AppInv'
<1>2. /\ CallTyped' /\ call'[h].at = "scope_commit" /\ call'[h] = [call[h] EXCEPT !.at = "scope_commit"] /\ call'[h].p = call[h].p /\ call'[h].cfg = call[h].cfg
      /\ \A g \in Handlers : g # h => call'[g] = call[g]
  <2>1. CallTyped /\ call[h] \in CallRecords
    BY DEF AppInv, CallTyped
  <2>2. PICK r : r = [call[h] EXCEPT !.at = "scope_commit"]
    OBVIOUS
  <2>3. r \in CallRecords /\ r.at = "scope_commit" /\ r.p = call[h].p /\ r.cfg = call[h].cfg
    BY <2>1, <2>2, Distinct DEF AppInv, AppTyped, CallRecords, Steps, Updates
  <2>4. call' = [call EXCEPT ![h] = r]
    BY <2>2
  <2>5. CallTyped' /\ call'[h] = r /\ \A g \in Handlers : g # h => call'[g] = call[g]
    BY <2>1, <2>3, <2>4, CallMoves
  <2> QED
    BY <2>2, <2>3, <2>5
<1>3. /\ Cardinality(Starters') = Cardinality(Starters)
      /\ Cardinality(Stoppers') = Cardinality(Stoppers)
  <2>1. (h \in Starters <=> h \in Starters') /\ (h \in Stoppers <=> h \in Stoppers')
    BY <1>2 DEF Starters, Stoppers
  <2> QED
    BY <1>2, <2>1, Moves
<1>4. AppTyped'
  <2>1. call[h].cfg \in Configs /\ call[h].cfg.scope \in Settings \cup {Broken}
    BY DEF AppInv, CallTyped, CallRecords, Configs
  <2> QED
    BY <2>1, Distinct DEF AppInv, AppTyped
<1>5. MutexHeld'
  BY <1>2, Distinct DEF AppInv, Always, MutexHeld, Holding
<1>6. ProxyInHand'
  BY <1>2, Distinct DEF AppInv, Always, ProxyInHand
<1>7. ProxiesCounted'
  BY <1>3, Counts, CountsLater, CountKept DEF AppInv, AppTyped
<1>8. StopsCounted'
  BY <1>3 DEF AppInv, Always, StopsCounted
<1>9. ProxiesKnown' /\ StoresKnown' /\ SavedBefore'
  BY <1>2, Distinct DEF AppInv, Always, ProxiesKnown, StoresKnown, SavedBefore
<1>10. ~racing' => InStep'
  BY <1>2, Distinct DEF AppInv, InStep, Committing, Swapping, Updates
<1>11. ~overlapped' => FlagTrue'
  BY <1>2, Distinct DEF AppInv, FlagTrue, Stoppers, TakenOut
<1>12. ~overlapped' => ListenersKnown' /\ StoreUnused'
  BY <1>2, Distinct DEF AppInv, ListenersKnown, StoreUnused
<1> QED
  BY <1>2, <1>4, <1>5, <1>6, <1>7, <1>8, <1>9, <1>10, <1>11, <1>12 DEF AppInv, Always

\* The candidate of any other update is in the file.
LEMMA OtherSaved ==
  ASSUME AppInv, NEW h \in Handlers,
         call[h].at = "other_save",
         call' = [call EXCEPT ![h] = [call[h] EXCEPT !.at = "other_commit"]],
         file' = {call[h].cfg},
         saved' = saved \cup {call[h].cfg.scope}, edited' = FALSE,
         UNCHANGED <<proxyMutex, proxy, listening, lost, stopping, running, proxyScope, proxyStore, stops, overlapped, store, openings, memory, racing, calls>>
  PROVE  AppInv'
<1>2. /\ CallTyped' /\ call'[h].at = "other_commit" /\ call'[h] = [call[h] EXCEPT !.at = "other_commit"] /\ call'[h].p = call[h].p /\ call'[h].cfg = call[h].cfg
      /\ \A g \in Handlers : g # h => call'[g] = call[g]
  <2>1. CallTyped /\ call[h] \in CallRecords
    BY DEF AppInv, CallTyped
  <2>2. PICK r : r = [call[h] EXCEPT !.at = "other_commit"]
    OBVIOUS
  <2>3. r \in CallRecords /\ r.at = "other_commit" /\ r.p = call[h].p /\ r.cfg = call[h].cfg
    BY <2>1, <2>2, Distinct DEF AppInv, AppTyped, CallRecords, Steps, Updates
  <2>4. call' = [call EXCEPT ![h] = r]
    BY <2>2
  <2>5. CallTyped' /\ call'[h] = r /\ \A g \in Handlers : g # h => call'[g] = call[g]
    BY <2>1, <2>3, <2>4, CallMoves
  <2> QED
    BY <2>2, <2>3, <2>5
<1>3. /\ Cardinality(Starters') = Cardinality(Starters)
      /\ Cardinality(Stoppers') = Cardinality(Stoppers)
  <2>1. (h \in Starters <=> h \in Starters') /\ (h \in Stoppers <=> h \in Stoppers')
    BY <1>2 DEF Starters, Stoppers
  <2> QED
    BY <1>2, <2>1, Moves
<1>4. AppTyped'
  <2>1. call[h].cfg \in Configs /\ call[h].cfg.scope \in Settings \cup {Broken}
    BY DEF AppInv, CallTyped, CallRecords, Configs
  <2> QED
    BY <2>1, Distinct DEF AppInv, AppTyped
<1>5. MutexHeld'
  BY <1>2, Distinct DEF AppInv, Always, MutexHeld, Holding
<1>6. ProxyInHand'
  BY <1>2, Distinct DEF AppInv, Always, ProxyInHand
<1>7. ProxiesCounted'
  BY <1>3, Counts, CountsLater, CountKept DEF AppInv, AppTyped
<1>8. StopsCounted'
  BY <1>3 DEF AppInv, Always, StopsCounted
<1>9. ProxiesKnown' /\ StoresKnown' /\ SavedBefore'
  BY <1>2, Distinct DEF AppInv, Always, ProxiesKnown, StoresKnown, SavedBefore
<1>10. ~racing' => InStep'
  BY <1>2, Distinct DEF AppInv, InStep, Committing, Swapping, Updates
<1>11. ~overlapped' => FlagTrue'
  BY <1>2, Distinct DEF AppInv, FlagTrue, Stoppers, TakenOut
<1>12. ~overlapped' => ListenersKnown' /\ StoreUnused'
  BY <1>2, Distinct DEF AppInv, ListenersKnown, StoreUnused
<1> QED
  BY <1>2, <1>4, <1>5, <1>6, <1>7, <1>8, <1>9, <1>10, <1>11, <1>12 DEF AppInv, Always

\* An update of the scope is in memory.
LEMMA ScopeCommitted ==
  ASSUME AppInv, NEW h \in Handlers,
         call[h].at = "scope_commit",
         call' = [call EXCEPT ![h] = [call[h] EXCEPT !.at = "scope_swap"]],
         memory' = call[h].cfg,
         UNCHANGED <<proxyMutex, proxy, listening, lost, stopping, running, proxyScope, proxyStore, stops, overlapped, store, openings, file, saved, edited, racing, calls>>
  PROVE  AppInv'
<1>2. /\ CallTyped' /\ call'[h].at = "scope_swap" /\ call'[h] = [call[h] EXCEPT !.at = "scope_swap"] /\ call'[h].p = call[h].p /\ call'[h].cfg = call[h].cfg
      /\ \A g \in Handlers : g # h => call'[g] = call[g]
  <2>1. CallTyped /\ call[h] \in CallRecords
    BY DEF AppInv, CallTyped
  <2>2. PICK r : r = [call[h] EXCEPT !.at = "scope_swap"]
    OBVIOUS
  <2>3. r \in CallRecords /\ r.at = "scope_swap" /\ r.p = call[h].p /\ r.cfg = call[h].cfg
    BY <2>1, <2>2, Distinct DEF AppInv, AppTyped, CallRecords, Steps, Updates
  <2>4. call' = [call EXCEPT ![h] = r]
    BY <2>2
  <2>5. CallTyped' /\ call'[h] = r /\ \A g \in Handlers : g # h => call'[g] = call[g]
    BY <2>1, <2>3, <2>4, CallMoves
  <2> QED
    BY <2>2, <2>3, <2>5
<1>3. /\ Cardinality(Starters') = Cardinality(Starters)
      /\ Cardinality(Stoppers') = Cardinality(Stoppers)
  <2>1. (h \in Starters <=> h \in Starters') /\ (h \in Stoppers <=> h \in Stoppers')
    BY <1>2 DEF Starters, Stoppers
  <2> QED
    BY <1>2, <2>1, Moves
<1>4. AppTyped'
  <2>1. call[h].cfg \in Configs
    BY DEF AppInv, CallTyped, CallRecords
  <2> QED
    BY <2>1, Distinct DEF AppInv, AppTyped
<1>5. MutexHeld'
  BY <1>2, Distinct DEF AppInv, Always, MutexHeld, Holding
<1>6. ProxyInHand'
  BY <1>2, Distinct DEF AppInv, Always, ProxyInHand
<1>7. ProxiesCounted'
  BY <1>3, Counts, CountsLater, CountKept DEF AppInv, AppTyped
<1>8. StopsCounted'
  BY <1>3 DEF AppInv, Always, StopsCounted
<1>9. ProxiesKnown' /\ StoresKnown' /\ SavedBefore'
  BY <1>2, Distinct DEF AppInv, Always, ProxiesKnown, StoresKnown, SavedBefore
<1>10. ~racing' => InStep'
  BY <1>2, Distinct DEF AppInv, InStep, Committing, Swapping, Updates
<1>11. ~overlapped' => FlagTrue'
  BY <1>2, Distinct DEF AppInv, FlagTrue, Stoppers, TakenOut
<1>12. ~overlapped' => ListenersKnown' /\ StoreUnused'
  BY <1>2, Distinct DEF AppInv, ListenersKnown, StoreUnused
<1> QED
  BY <1>2, <1>4, <1>5, <1>6, <1>7, <1>8, <1>9, <1>10, <1>11, <1>12 DEF AppInv, Always

\* Any other update is in memory.
LEMMA OtherCommitted ==
  ASSUME AppInv, NEW h \in Handlers,
         call[h].at = "other_commit",
         call' = [call EXCEPT ![h] = Idle],
         memory' = call[h].cfg,
         UNCHANGED <<proxyMutex, proxy, listening, lost, stopping, running, proxyScope, proxyStore, stops, overlapped, store, openings, file, saved, edited, racing, calls>>
  PROVE  AppInv'
<1>2. /\ CallTyped' /\ call'[h].at = "idle" /\ call'[h] = Idle
      /\ \A g \in Handlers : g # h => call'[g] = call[g]
  <2>1. CallTyped /\ call[h] \in CallRecords
    BY DEF AppInv, CallTyped
  <2>2. PICK r : r = Idle
    OBVIOUS
  <2>3. r \in CallRecords /\ r.at = "idle"
    BY <2>1, <2>2, Distinct DEF AppInv, AppTyped, CallRecords, Steps, Updates
  <2>4. call' = [call EXCEPT ![h] = r]
    BY <2>2
  <2>5. CallTyped' /\ call'[h] = r /\ \A g \in Handlers : g # h => call'[g] = call[g]
    BY <2>1, <2>3, <2>4, CallMoves
  <2> QED
    BY <2>2, <2>3, <2>5
<1>3. /\ Cardinality(Starters') = Cardinality(Starters)
      /\ Cardinality(Stoppers') = Cardinality(Stoppers)
  <2>1. (h \in Starters <=> h \in Starters') /\ (h \in Stoppers <=> h \in Stoppers')
    BY <1>2 DEF Starters, Stoppers
  <2> QED
    BY <1>2, <2>1, Moves
<1>4. AppTyped'
  <2>1. call[h].cfg \in Configs
    BY DEF AppInv, CallTyped, CallRecords
  <2> QED
    BY <2>1, Distinct DEF AppInv, AppTyped
<1>5. MutexHeld'
  BY <1>2, Distinct DEF AppInv, Always, MutexHeld, Holding
<1>6. ProxyInHand'
  BY <1>2, Distinct DEF AppInv, Always, ProxyInHand
<1>7. ProxiesCounted'
  BY <1>3, Counts, CountsLater, CountKept DEF AppInv, AppTyped
<1>8. StopsCounted'
  BY <1>3 DEF AppInv, Always, StopsCounted
<1>9. ProxiesKnown' /\ StoresKnown' /\ SavedBefore'
  BY <1>2, Distinct DEF AppInv, Always, ProxiesKnown, StoresKnown, SavedBefore
<1>10. ~racing' => InStep'
  BY <1>2, Distinct DEF AppInv, InStep, Committing, Swapping, Updates
<1>11. ~overlapped' => FlagTrue'
  BY <1>2, Distinct DEF AppInv, FlagTrue, Stoppers, TakenOut
<1>12. ~overlapped' => ListenersKnown' /\ StoreUnused'
  BY <1>2, Distinct DEF AppInv, ListenersKnown, StoreUnused
<1> QED
  BY <1>2, <1>4, <1>5, <1>6, <1>7, <1>8, <1>9, <1>10, <1>11, <1>12 DEF AppInv, Always

\* What was read from the file is in memory.
LEMMA LoadCommitted ==
  ASSUME AppInv, NEW h \in Handlers,
         call[h].at = "load_commit",
         call' = [call EXCEPT ![h] = [call[h] EXCEPT !.at = "load_swap"]],
         memory' = call[h].cfg,
         UNCHANGED <<proxyMutex, proxy, listening, lost, stopping, running, proxyScope, proxyStore, stops, overlapped, store, openings, file, saved, edited, racing, calls>>
  PROVE  AppInv'
<1>2. /\ CallTyped' /\ call'[h].at = "load_swap" /\ call'[h] = [call[h] EXCEPT !.at = "load_swap"] /\ call'[h].p = call[h].p /\ call'[h].cfg = call[h].cfg
      /\ \A g \in Handlers : g # h => call'[g] = call[g]
  <2>1. CallTyped /\ call[h] \in CallRecords
    BY DEF AppInv, CallTyped
  <2>2. PICK r : r = [call[h] EXCEPT !.at = "load_swap"]
    OBVIOUS
  <2>3. r \in CallRecords /\ r.at = "load_swap" /\ r.p = call[h].p /\ r.cfg = call[h].cfg
    BY <2>1, <2>2, Distinct DEF AppInv, AppTyped, CallRecords, Steps, Updates
  <2>4. call' = [call EXCEPT ![h] = r]
    BY <2>2
  <2>5. CallTyped' /\ call'[h] = r /\ \A g \in Handlers : g # h => call'[g] = call[g]
    BY <2>1, <2>3, <2>4, CallMoves
  <2> QED
    BY <2>2, <2>3, <2>5
<1>3. /\ Cardinality(Starters') = Cardinality(Starters)
      /\ Cardinality(Stoppers') = Cardinality(Stoppers)
  <2>1. (h \in Starters <=> h \in Starters') /\ (h \in Stoppers <=> h \in Stoppers')
    BY <1>2 DEF Starters, Stoppers
  <2> QED
    BY <1>2, <2>1, Moves
<1>4. AppTyped'
  <2>1. call[h].cfg \in Configs
    BY DEF AppInv, CallTyped, CallRecords
  <2> QED
    BY <2>1, Distinct DEF AppInv, AppTyped
<1>5. MutexHeld'
  BY <1>2, Distinct DEF AppInv, Always, MutexHeld, Holding
<1>6. ProxyInHand'
  BY <1>2, Distinct DEF AppInv, Always, ProxyInHand
<1>7. ProxiesCounted'
  BY <1>3, Counts, CountsLater, CountKept DEF AppInv, AppTyped
<1>8. StopsCounted'
  BY <1>3 DEF AppInv, Always, StopsCounted
<1>9. ProxiesKnown' /\ StoresKnown' /\ SavedBefore'
  BY <1>2, Distinct DEF AppInv, Always, ProxiesKnown, StoresKnown, SavedBefore
<1>10. ~racing' => InStep'
  BY <1>2, Distinct DEF AppInv, InStep, Committing, Swapping, Updates
<1>11. ~overlapped' => FlagTrue'
  BY <1>2, Distinct DEF AppInv, FlagTrue, Stoppers, TakenOut
<1>12. ~overlapped' => ListenersKnown' /\ StoreUnused'
  BY <1>2, Distinct DEF AppInv, ListenersKnown, StoreUnused
<1> QED
  BY <1>2, <1>4, <1>5, <1>6, <1>7, <1>8, <1>9, <1>10, <1>11, <1>12 DEF AppInv, Always

\* The proxy an update of the scope found is told.
LEMMA ScopeSwapped ==
  ASSUME AppInv, NEW h \in Handlers,
         call[h].at = "scope_swap",
         call' = [call EXCEPT ![h] = Idle],
         proxyMutex' = (IF proxyMutex = h THEN "none" ELSE proxyMutex),
         proxyScope' = (IF call[h].p = 0 THEN proxyScope ELSE [proxyScope EXCEPT ![call[h].p] = call[h].cfg.scope]),
         UNCHANGED <<proxy, listening, lost, stopping, running, proxyStore, stops, overlapped, store, openings, memory, file, saved, edited, racing, calls>>
  PROVE  AppInv'
<1>2. /\ CallTyped' /\ call'[h].at = "idle" /\ call'[h] = Idle
      /\ \A g \in Handlers : g # h => call'[g] = call[g]
  <2>1. CallTyped /\ call[h] \in CallRecords
    BY DEF AppInv, CallTyped
  <2>2. PICK r : r = Idle
    OBVIOUS
  <2>3. r \in CallRecords /\ r.at = "idle"
    BY <2>1, <2>2, Distinct DEF AppInv, AppTyped, CallRecords, Steps, Updates
  <2>4. call' = [call EXCEPT ![h] = r]
    BY <2>2
  <2>5. CallTyped' /\ call'[h] = r /\ \A g \in Handlers : g # h => call'[g] = call[g]
    BY <2>1, <2>3, <2>4, CallMoves
  <2> QED
    BY <2>2, <2>3, <2>5
<1>3. /\ Cardinality(Starters') = Cardinality(Starters)
      /\ Cardinality(Stoppers') = Cardinality(Stoppers)
  <2>1. (h \in Starters <=> h \in Starters') /\ (h \in Stoppers <=> h \in Stoppers')
    BY <1>2 DEF Starters, Stoppers
  <2> QED
    BY <1>2, <2>1, Moves
<1>4. AppTyped'
  <2>1. call[h].cfg.scope \in Settings \/ call[h].cfg.scope = Broken
    BY DEF AppInv, CallTyped, CallRecords, Configs
  <2>2. call[h].cfg.scope # Broken
    BY DEF AppInv, Always, SavedBefore
  <2> QED
    BY <2>1, <2>2, Distinct DEF AppInv, AppTyped
<1>5. MutexHeld'
  BY <1>2, Distinct DEF AppInv, Always, MutexHeld, Holding
<1>6. ProxyInHand'
  BY <1>2, Distinct DEF AppInv, Always, ProxyInHand
<1>7. ProxiesCounted'
  BY <1>3, Counts, CountsLater, CountKept DEF AppInv, AppTyped
<1>8. StopsCounted'
  BY <1>3 DEF AppInv, Always, StopsCounted
<1>9. ProxiesKnown' /\ StoresKnown' /\ SavedBefore'
  BY <1>2, Distinct DEF AppInv, Always, ProxiesKnown, StoresKnown, SavedBefore
<1>10. ~racing' => InStep'
  <2> SUFFICES ASSUME ~racing PROVE InStep'
    OBVIOUS
  <2>1. /\ call[h].cfg = memory /\ call[h].p = proxy
        /\ \A g \in Handlers : g # h => call[g].at \notin Updates
    BY DEF AppInv, InStep, Updates, Always, ProxyInHand
  <2>2. \A g \in Handlers : call[g].at \notin {"bind", "install"}
    <3>1. proxyMutex = h
      BY DEF AppInv, Always, MutexHeld, Holding
    <3> QED
      BY <3>1, Distinct DEF AppInv, Always, MutexHeld, Holding
  <2>3. ~Committing /\ (~edited => \A c \in file : memory = c \/ memory = loaded(c))
    BY <2>1 DEF AppInv, InStep, Committing, Updates
  <2>4. \A g \in Handlers : call'[g].at \notin Updates /\ call'[g].at \notin {"bind", "install"}
    BY <1>2, <2>1, <2>2, Distinct DEF Updates
  <2>5. proxy # 0 => proxyScope'[proxy] = memory.scope
    BY <2>1 DEF AppInv, AppTyped
  <2> QED
    BY <2>3, <2>4, <2>5 DEF InStep, Updates
<1>11. ~overlapped' => FlagTrue'
  BY <1>2, Distinct DEF AppInv, FlagTrue, Stoppers, TakenOut
<1>12. ~overlapped' => ListenersKnown' /\ StoreUnused'
  BY <1>2, Distinct DEF AppInv, ListenersKnown, StoreUnused
<1> QED
  BY <1>2, <1>4, <1>5, <1>6, <1>7, <1>8, <1>9, <1>10, <1>11, <1>12 DEF AppInv, Always

\* A configuration is read from the file.
LEMMA FileLoaded ==
  ASSUME AppInv, NEW h \in Handlers, NEW cfg \in file,
         call[h].at = "load",
         call' = [call EXCEPT ![h] = [call[h] EXCEPT !.at = "load_commit", !.cfg = loaded(cfg)]],
         saved' = saved \cup {cfg.scope}, edited' = FALSE,
         UNCHANGED <<proxyMutex, proxy, listening, lost, stopping, running, proxyScope, proxyStore, stops, overlapped, store, openings, memory, file, racing, calls>>
  PROVE  AppInv'
<1>1. cfg \in Configs /\ loaded(cfg) \in Configs /\ loaded(cfg).scope = cfg.scope
  BY LoadedTyped DEF AppInv, AppTyped
<1>2. /\ CallTyped' /\ call'[h].at = "load_commit" /\ call'[h] = [call[h] EXCEPT !.at = "load_commit", !.cfg = loaded(cfg)] /\ call'[h].cfg = loaded(cfg)
      /\ \A g \in Handlers : g # h => call'[g] = call[g]
  <2>1. CallTyped /\ call[h] \in CallRecords
    BY DEF AppInv, CallTyped
  <2>2. PICK r : r = [call[h] EXCEPT !.at = "load_commit", !.cfg = loaded(cfg)]
    OBVIOUS
  <2>3. r \in CallRecords /\ r.at = "load_commit" /\ r.cfg = loaded(cfg)
    BY <1>1, <2>1, <2>2, Distinct DEF AppInv, CallRecords, Steps, Updates
  <2>4. call' = [call EXCEPT ![h] = r]
    BY <2>2
  <2>5. CallTyped' /\ call'[h] = r /\ \A g \in Handlers : g # h => call'[g] = call[g]
    BY <2>1, <2>3, <2>4, CallMoves
  <2> QED
    BY <2>2, <2>3, <2>5
<1>3. /\ Cardinality(Starters') = Cardinality(Starters)
      /\ Cardinality(Stoppers') = Cardinality(Stoppers)
  <2>1. (h \in Starters <=> h \in Starters') /\ (h \in Stoppers <=> h \in Stoppers')
    BY <1>2 DEF Starters, Stoppers
  <2> QED
    BY <1>2, <2>1, Moves
<1>4. AppTyped'
  <2>1. cfg.scope \in Settings \cup {Broken}
    BY <1>1 DEF Configs
  <2> QED
    BY <2>1, Distinct DEF AppInv, AppTyped
<1>5. MutexHeld'
  BY <1>2, Distinct DEF AppInv, Always, MutexHeld, Holding
<1>6. ProxyInHand'
  BY <1>2, Distinct DEF AppInv, Always, ProxyInHand
<1>7. ProxiesCounted'
  BY <1>3, Counts, CountsLater, CountKept DEF AppInv, AppTyped
<1>8. StopsCounted'
  BY <1>3 DEF AppInv, Always, StopsCounted
<1>9. ProxiesKnown' /\ StoresKnown' /\ SavedBefore'
  BY <1>1, <1>2, Distinct DEF AppInv, Always, ProxiesKnown, StoresKnown, SavedBefore
<1>10. ~racing' => InStep'
  <2>1. \A c \in file : loaded(c) = loaded(cfg)
    BY DEF AppInv, Always, SavedBefore
  <2> QED
    BY <1>2, <2>1, Distinct DEF AppInv, InStep, Committing, Swapping, Updates
<1>11. ~overlapped' => FlagTrue'
  BY <1>2, Distinct DEF AppInv, FlagTrue, Stoppers, TakenOut
<1>12. ~overlapped' => ListenersKnown' /\ StoreUnused'
  BY <1>2, Distinct DEF AppInv, ListenersKnown, StoreUnused
<1> QED
  BY <1>2, <1>4, <1>5, <1>6, <1>7, <1>8, <1>9, <1>10, <1>11, <1>12 DEF AppInv, Always

\* The proxy installed is told what was read from the file.
LEMMA LoadSwapped ==
  ASSUME AppInv, NEW h \in Handlers,
         call[h].at = "load_swap", proxyMutex = "none",
         call' = [call EXCEPT ![h] = Idle],
         proxyScope' = (IF proxy = 0 \/ call[h].cfg.scope = Broken THEN proxyScope ELSE [proxyScope EXCEPT ![proxy] = call[h].cfg.scope]),
         UNCHANGED <<proxyMutex, proxy, listening, lost, stopping, running, proxyStore, stops, overlapped, store, openings, memory, file, saved, edited, racing, calls>>
  PROVE  AppInv'
<1>2. /\ CallTyped' /\ call'[h].at = "idle" /\ call'[h] = Idle
      /\ \A g \in Handlers : g # h => call'[g] = call[g]
  <2>1. CallTyped /\ call[h] \in CallRecords
    BY DEF AppInv, CallTyped
  <2>2. PICK r : r = Idle
    OBVIOUS
  <2>3. r \in CallRecords /\ r.at = "idle"
    BY <2>1, <2>2, Distinct DEF AppInv, AppTyped, CallRecords, Steps, Updates
  <2>4. call' = [call EXCEPT ![h] = r]
    BY <2>2
  <2>5. CallTyped' /\ call'[h] = r /\ \A g \in Handlers : g # h => call'[g] = call[g]
    BY <2>1, <2>3, <2>4, CallMoves
  <2> QED
    BY <2>2, <2>3, <2>5
<1>3. /\ Cardinality(Starters') = Cardinality(Starters)
      /\ Cardinality(Stoppers') = Cardinality(Stoppers)
  <2>1. (h \in Starters <=> h \in Starters') /\ (h \in Stoppers <=> h \in Stoppers')
    BY <1>2 DEF Starters, Stoppers
  <2> QED
    BY <1>2, <2>1, Moves
<1>4. AppTyped'
  <2>1. call[h].cfg.scope \in Settings \/ call[h].cfg.scope = Broken
    BY DEF AppInv, CallTyped, CallRecords, Configs
  <2> QED
    BY <2>1, Distinct DEF AppInv, AppTyped
<1>5. MutexHeld'
  BY <1>2, Distinct DEF AppInv, Always, MutexHeld, Holding
<1>6. ProxyInHand'
  BY <1>2, Distinct DEF AppInv, Always, ProxyInHand
<1>7. ProxiesCounted'
  BY <1>3, Counts, CountsLater, CountKept DEF AppInv, AppTyped
<1>8. StopsCounted'
  BY <1>3 DEF AppInv, Always, StopsCounted
<1>9. ProxiesKnown' /\ StoresKnown' /\ SavedBefore'
  BY <1>2, Distinct DEF AppInv, Always, ProxiesKnown, StoresKnown, SavedBefore
<1>10. ~racing' => InStep'
  <2> SUFFICES ASSUME ~racing PROVE InStep'
    OBVIOUS
  <2>1. /\ call[h].cfg = memory 
        /\ \A g \in Handlers : g # h => call[g].at \notin Updates
    BY DEF AppInv, InStep, Updates, Always, ProxyInHand
  <2>2. \A g \in Handlers : call[g].at \notin {"bind", "install"}
    BY Distinct DEF AppInv, Always, MutexHeld, Holding
  <2>3. ~Committing /\ (~edited => \A c \in file : memory = c \/ memory = loaded(c))
    BY <2>1 DEF AppInv, InStep, Committing, Updates
  <2>4. \A g \in Handlers : call'[g].at \notin Updates /\ call'[g].at \notin {"bind", "install"}
    BY <1>2, <2>1, <2>2, Distinct DEF Updates
  <2>5. proxy # 0 => proxyScope'[proxy] = memory.scope \/ memory.scope = Broken
    BY <2>1 DEF AppInv, AppTyped
  <2> QED
    BY <2>3, <2>4, <2>5 DEF InStep, Updates
<1>11. ~overlapped' => FlagTrue'
  BY <1>2, Distinct DEF AppInv, FlagTrue, Stoppers, TakenOut
<1>12. ~overlapped' => ListenersKnown' /\ StoreUnused'
  BY <1>2, Distinct DEF AppInv, ListenersKnown, StoreUnused
<1> QED
  BY <1>2, <1>4, <1>5, <1>6, <1>7, <1>8, <1>9, <1>10, <1>11, <1>12 DEF AppInv, Always

\* A proxy is built and listens; it is the next one.
LEMMA ProxyBound ==
  ASSUME AppInv, NEW h \in Handlers, NEW p \in Proxies,
         call[h].at = "bind", listening = {}, proxyStore[p] = 0, \A r \in 1..(p - 1) : proxyStore[r] # 0,
         call' = [call EXCEPT ![h] = [call[h] EXCEPT !.at = "install", !.p = p]],
         listening' = {p},
         proxyScope' = [proxyScope EXCEPT ![p] = call[h].cfg.scope],
         proxyStore' = [proxyStore EXCEPT ![p] = call[h].st],
         UNCHANGED <<proxyMutex, proxy, lost, stopping, running, stops, overlapped, store, openings, memory, file, saved, edited, racing, calls>>
  PROVE  AppInv'
<1>1. /\ proxy # p /\ p \notin stopping /\ p \notin lost /\ call[h].st \in Nat \ {0} /\ call[h].st <= openings /\ call[h].cfg.scope \in Settings
      /\ \A g \in Handlers : g # h => call[g].at \notin Holding
  <2>1. proxyMutex = h
    BY DEF AppInv, Always, MutexHeld, Holding
  <2>2. call[h].st \in Nat /\ call[h].cfg.scope \in Settings
    BY DEF AppInv, CallTyped, CallRecords, Configs, Always, SavedBefore
  <2> QED
    BY <2>1, <2>2, Distinct DEF AppInv, AppTyped, Always, ProxiesKnown, StoresKnown, MutexHeld
<1>0. /\ proxyScope'[p] = call[h].cfg.scope /\ proxyStore'[p] = call[h].st
      /\ \A q \in Proxies \ {p} : proxyScope'[q] = proxyScope[q] /\ proxyStore'[q] = proxyStore[q]
  BY DEF AppInv, AppTyped
<1>2. /\ CallTyped' /\ call'[h].at = "install" /\ call'[h] = [call[h] EXCEPT !.at = "install", !.p = p] /\ call'[h].p = p
      /\ \A g \in Handlers : g # h => call'[g] = call[g]
  <2>1. CallTyped /\ call[h] \in CallRecords
    BY DEF AppInv, CallTyped
  <2>2. PICK r : r = [call[h] EXCEPT !.at = "install", !.p = p]
    OBVIOUS
  <2>3. r \in CallRecords /\ r.at = "install" /\ r.p = p
    BY <2>1, <2>2, Distinct DEF AppInv, AppTyped, CallRecords, Steps, Updates
  <2>4. call' = [call EXCEPT ![h] = r]
    BY <2>2
  <2>5. CallTyped' /\ call'[h] = r /\ \A g \in Handlers : g # h => call'[g] = call[g]
    <3>1. \A q \in CallRecords : call' = [call EXCEPT ![h] = q] =>
            CallTyped' /\ call'[h] = q /\ \A g \in Handlers : g # h => call'[g] = call[g]
      BY <2>1, CallMoves
    <3> QED
      BY <2>3, <2>4, <3>1
  <2> QED
    BY <2>2, <2>3, <2>5
<1>3. /\ Cardinality(Starters') = Cardinality(Starters) - 1
      /\ Cardinality(Stoppers') = Cardinality(Stoppers)
  <2>1. h \in Starters /\ h \notin Starters' /\ (h \in Stoppers <=> h \in Stoppers')
    BY <1>2 DEF Starters, Stoppers
  <2> QED
    BY <1>2, <2>1, Moves
<1>4. AppTyped'
  BY <1>1, Distinct DEF AppInv, AppTyped
<1>5. MutexHeld'
  BY <1>2, Distinct DEF AppInv, Always, MutexHeld, Holding
<1>6. ProxyInHand'
  BY <1>2, Distinct DEF AppInv, Always, ProxyInHand
<1>7. ProxiesCounted'
  <2> PICK k \in Nat : (\A q \in Proxies : proxyStore[q] # 0 <=> q <= k) /\ k + Cardinality(Starters) <= calls
    BY DEF AppInv, Always, ProxiesCounted
  <2>1. p = k + 1
    <3>1. p \in Nat /\ p > k
      BY Distinct DEF Proxies
    <3>2. ASSUME k + 1 < p PROVE FALSE
      <4>1. k + 1 \in 1..(p - 1) /\ k + 1 \in Proxies
        BY <3>1, <3>2, Distinct DEF Proxies
      <4> QED
        BY <4>1
    <3> QED
      BY <3>1, <3>2
  <2>2. \A q \in Proxies : proxyStore'[q] # 0 <=> q <= k + 1
    <3>1. \A q \in Proxies \ {p} : q <= k <=> q <= k + 1
      BY <2>1, Distinct DEF Proxies
    <3> QED
      BY <1>0, <1>1, <2>1, <3>1
  <2>3. (k + 1) + Cardinality(Starters') <= calls'
    BY <1>3, Counts, CountsLater DEF AppInv, AppTyped
  <2> QED
    BY <2>2, <2>3 DEF ProxiesCounted
<1>8. StopsCounted'
  BY <1>3 DEF AppInv, Always, StopsCounted
<1>9. ProxiesKnown' /\ StoresKnown' /\ SavedBefore'
  BY <1>0, <1>1, <1>2, Distinct DEF AppInv, Always, ProxiesKnown, StoresKnown, SavedBefore, Holding
<1>10. ~racing' => InStep'
  BY <1>0, <1>1, <1>2, Distinct DEF AppInv, InStep, Committing, Swapping, Updates, Holding
<1>11. ~overlapped' => FlagTrue'
  BY <1>2, Distinct DEF AppInv, FlagTrue, Stoppers, TakenOut
<1>12. ~overlapped' => ListenersKnown' /\ StoreUnused'
  <2> SUFFICES ASSUME ~overlapped PROVE ListenersKnown' /\ StoreUnused'
    OBVIOUS
  <2>0. proxy = 0 /\ stopping = {}
    BY <1>1 DEF AppInv, FlagTrue, ListenersKnown, Holding
  <2>1. \A g \in Handlers : call'[g].at = "install" => g = h
    BY <1>1, <1>2 DEF Holding
  <2>2. ListenersKnown'
    BY <1>2, <2>0 DEF ListenersKnown
  <2>3. \A q \in Proxies \ {p} : store # 0 /\ proxyStore[q] = store =>
          \E g \in Handlers : call'[g].at \in {"drain", "reset"} /\ call'[g].p # 0
    BY <1>1, <1>2, <2>0, Distinct DEF AppInv, StoreUnused, Holding
  <2>4. \A q \in Proxies \ {p} : proxyStore[q] # call[h].st
    BY DEF AppInv, StoreUnused
  <2>5. \A q \in Proxies : q # proxy' /\ store' # 0 /\ proxyStore'[q] = store' =>
          \E g \in Handlers : \/ call'[g].at = "install" /\ call'[g].p = q
                              \/ call'[g].at \in {"drain", "reset"} /\ call'[g].p # 0
    <3>1. call'[h].at = "install" /\ call'[h].p = p
      BY <1>2
    <3>2. store' = store /\ \A q \in Proxies \ {p} : proxyStore'[q] = proxyStore[q]
      BY <1>0
    <3>3. ASSUME NEW q \in Proxies, store' # 0, proxyStore'[q] = store'
          PROVE  \E g \in Handlers : \/ call'[g].at = "install" /\ call'[g].p = q
                                     \/ call'[g].at \in {"drain", "reset"} /\ call'[g].p # 0
      <4>1. CASE q = p
        BY <3>1, <4>1
      <4>2. CASE q # p
        BY <2>3, <3>2, <3>3, <4>2
      <4> QED
        BY <4>1, <4>2
    <3> QED
      BY <3>3
  <2>6. \A g \in Handlers :
       /\ call'[g].at \in {"configure", "bind"} => FALSE
       /\ call'[g].at = "install" => \A q \in Proxies \ {call'[g].p} : proxyStore'[q] # proxyStore'[call'[g].p]
    BY <1>0, <1>1, <1>2, <2>1, <2>4 DEF Holding
  <2> QED
    BY <2>0, <2>2, <2>5, <2>6 DEF StoreUnused
<1> QED
  BY <1>2, <1>4, <1>5, <1>6, <1>7, <1>8, <1>9, <1>10, <1>11, <1>12 DEF AppInv, Always

\* The browser has gone away.
LEMMA Dropped ==
  ASSUME AppInv, NEW h \in Handlers,
         call[h].at \in Awaiting,
         call' = [call EXCEPT ![h] = Idle],
         proxyMutex' = (IF proxyMutex = h THEN "none" ELSE proxyMutex),
         overlapped' = TRUE,
         stops' = (IF call[h].at \in {"drain", "reset", "clear"} THEN stops - 1 ELSE stops),
         racing' = (racing \/ call[h].at = "load_swap"),
         UNCHANGED <<proxy, listening, lost, stopping, running, proxyScope, proxyStore, store, openings, memory, file, saved, edited, calls>>
  PROVE  AppInv'
<1>2. /\ CallTyped' /\ call'[h].at = "idle" /\ call'[h] = Idle
      /\ \A g \in Handlers : g # h => call'[g] = call[g]
  <2>1. CallTyped /\ call[h] \in CallRecords
    BY DEF AppInv, CallTyped
  <2>2. PICK r : r = Idle
    OBVIOUS
  <2>3. r \in CallRecords /\ r.at = "idle"
    BY <2>1, <2>2, Distinct DEF AppInv, AppTyped, CallRecords, Steps, Updates
  <2>4. call' = [call EXCEPT ![h] = r]
    BY <2>2
  <2>5. CallTyped' /\ call'[h] = r /\ \A g \in Handlers : g # h => call'[g] = call[g]
    BY <2>1, <2>3, <2>4, CallMoves
  <2> QED
    BY <2>2, <2>3, <2>5
<1>3. /\ Cardinality(Starters') <= Cardinality(Starters)
      /\ Cardinality(Stoppers') = IF h \in Stoppers THEN Cardinality(Stoppers) - 1 ELSE Cardinality(Stoppers)
  <2>1. h \notin Starters' /\ h \notin Stoppers'
    BY <1>2 DEF Starters, Stoppers
  <2>2. Cardinality(Starters') = Cardinality(Starters) \/ Cardinality(Starters') = Cardinality(Starters) - 1
    BY <1>2, <2>1, Moves
  <2> QED
    BY <1>2, <2>1, <2>2, Moves, Counts
<1>4. AppTyped'
  BY Distinct DEF AppInv, AppTyped
<1>5. MutexHeld'
  BY <1>2, Distinct DEF AppInv, Always, MutexHeld, Holding
<1>6. ProxyInHand'
  BY <1>2, Distinct DEF AppInv, Always, ProxyInHand
<1>7. ProxiesCounted'
  BY <1>3, Counts, CountsLater, CountKept DEF AppInv, AppTyped
<1>8. StopsCounted'
  BY <1>3 DEF AppInv, Always, StopsCounted, Stoppers
<1>9. ProxiesKnown' /\ StoresKnown' /\ SavedBefore'
  BY <1>2, Distinct DEF AppInv, Always, ProxiesKnown, StoresKnown, SavedBefore
<1>10. ~racing' => InStep'
  <2> SUFFICES ASSUME ~racing' PROVE InStep'
    OBVIOUS
  <2>1. ~racing /\ InStep /\ call[h].at \notin Updates /\ call'[h].at \notin Updates
    BY <1>2, Distinct DEF AppInv, Updates, Awaiting
  <2>2. (Committing' <=> Committing) /\ (Swapping' <=> Swapping)
    BY <1>2, <2>1 DEF Committing, Swapping, Updates
  <2>3. \A f, g \in Handlers : call'[f].at \in Updates /\ call'[g].at \in Updates => f = g
    BY <1>2, <2>1 DEF InStep
  <2> QED
    BY <1>2, <2>1, <2>2, <2>3, Distinct DEF InStep
<1>11. ~overlapped' => FlagTrue'
  BY <1>2, Distinct DEF AppInv, FlagTrue, Stoppers, TakenOut
<1>12. ~overlapped' => ListenersKnown' /\ StoreUnused'
  BY <1>2, Distinct DEF AppInv, ListenersKnown, StoreUnused
<1> QED
  BY <1>2, <1>4, <1>5, <1>6, <1>7, <1>8, <1>9, <1>10, <1>11, <1>12 DEF AppInv, Always

\* The stop of a proxy ends.
LEMMA StoppedStep ==
  ASSUME AppInv, NEW p \in stopping, stopping' = stopping \ {p}, listening' = listening \ {p},
         UNCHANGED <<proxyMutex, proxy, lost, running, proxyScope, proxyStore, stops, overlapped, poolVars, configVars, call, calls>>
  PROVE  AppInv'
<1>1. UNCHANGED <<store, openings, memory, file, saved, edited, racing>>
  BY DEF poolVars, configVars
<1>2. Starters' = Starters /\ Stoppers' = Stoppers
  BY DEF Starters, Stoppers
<1>3. CallTyped' /\ AppTyped'
  BY <1>1, Distinct DEF AppInv, CallTyped, AppTyped
<1>4. MutexHeld' /\ StopsCounted' /\ StoresKnown' /\ SavedBefore' /\ ProxyInHand'
  BY <1>1, <1>2 DEF AppInv, Always, MutexHeld, StopsCounted, StoresKnown, SavedBefore, ProxyInHand
<1>5. ProxiesCounted'
  BY <1>2, Counts, CountKept DEF AppInv, AppTyped
<1>6. ProxiesKnown'
  BY DEF AppInv, Always, ProxiesKnown
<1>7. ~racing => InStep'
  BY <1>1 DEF AppInv, InStep, Committing, Swapping
<1>8. ~overlapped => FlagTrue'
  BY <1>2 DEF AppInv, FlagTrue, TakenOut
<1>9. ~overlapped => ListenersKnown' /\ StoreUnused'
  BY <1>1 DEF AppInv, ListenersKnown, StoreUnused
<1> QED
  BY <1>1, <1>3, <1>4, <1>5, <1>6, <1>7, <1>8, <1>9 DEF AppInv, Always

\* An accept loop ends by itself.
LEMMA LostStep ==
  ASSUME AppInv, NEW p \in listening, listening' = listening \ {p}, lost' = lost \cup {p},
         UNCHANGED <<proxyMutex, proxy, stopping, running, proxyScope, proxyStore, stops, overlapped, poolVars, configVars, call, calls>>
  PROVE  AppInv'
<1>1. UNCHANGED <<store, openings, memory, file, saved, edited, racing>>
  BY DEF poolVars, configVars
<1>2. Starters' = Starters /\ Stoppers' = Stoppers
  BY DEF Starters, Stoppers
<1>3. CallTyped' /\ AppTyped'
  BY <1>1, Distinct DEF AppInv, CallTyped, AppTyped
<1>4. MutexHeld' /\ StopsCounted' /\ StoresKnown' /\ SavedBefore' /\ ProxyInHand'
  BY <1>1, <1>2 DEF AppInv, Always, MutexHeld, StopsCounted, StoresKnown, SavedBefore, ProxyInHand
<1>5. ProxiesCounted'
  BY <1>2, Counts, CountKept DEF AppInv, AppTyped
<1>6. ProxiesKnown'
  BY DEF AppInv, Always, ProxiesKnown
<1>7. ~racing => InStep'
  BY <1>1 DEF AppInv, InStep, Committing, Swapping
<1>8. ~overlapped => FlagTrue'
  BY <1>2 DEF AppInv, FlagTrue, TakenOut
<1>9. ~overlapped => ListenersKnown' /\ StoreUnused'
  BY <1>1 DEF AppInv, ListenersKnown, StoreUnused
<1> QED
  BY <1>1, <1>3, <1>4, <1>5, <1>6, <1>7, <1>8, <1>9 DEF AppInv, Always

\* Someone edits the file.
LEMMA EditStep == ASSUME AppInv, EditFile PROVE AppInv'
<1>1. /\ calls < MaxCalls /\ calls' = calls + 1 /\ edited' = TRUE
      /\ UNCHANGED <<proxyMutex, proxy, listening, lost, stopping, running, proxyScope, proxyStore, stops, overlapped,
                     store, openings, memory, saved, racing, call>>
  BY DEF EditFile, proxyVars, poolVars
<1>2. Starters' = Starters /\ Stoppers' = Stoppers
  BY <1>1 DEF Starters, Stoppers
<1>3. file' \subseteq Configs /\ \A c, d \in file' : c = d
  BY DEF EditFile
<1>4. CallTyped' /\ AppTyped'
  BY <1>1, <1>3, Distinct DEF AppInv, CallTyped, AppTyped
<1>5. MutexHeld' /\ StopsCounted' /\ ProxyInHand' /\ ProxiesKnown' /\ StoresKnown'
  BY <1>1, <1>2 DEF AppInv, Always, MutexHeld, StopsCounted, ProxyInHand, ProxiesKnown, StoresKnown
<1>6. SavedBefore'
  BY <1>1, <1>3 DEF AppInv, Always, SavedBefore
<1>7. ProxiesCounted'
  BY <1>1, <1>2, Counts, CountKept DEF AppInv, AppTyped
<1>8. ~racing => InStep'
  BY <1>1 DEF AppInv, InStep, Swapping
<1>9. ~overlapped => FlagTrue' /\ ListenersKnown' /\ StoreUnused'
  BY <1>1, <1>2 DEF AppInv, FlagTrue, TakenOut, ListenersKnown, StoreUnused
<1> QED
  BY <1>1, <1>4, <1>5, <1>6, <1>7, <1>8, <1>9 DEF AppInv, Always

\* An opening of the store by anyone else is that of no proxy so far.
LEMMA OpenedElsewhere == ASSUME AppInv, OpenElsewhere PROVE AppInv'
<1>1. /\ store = 0 /\ calls < MaxCalls /\ calls' = calls + 1 /\ openings' = openings + 1 /\ store' = openings + 1
      /\ UNCHANGED <<proxyMutex, proxy, listening, lost, stopping, running, proxyScope, proxyStore, stops, overlapped,
                     memory, file, saved, edited, racing, call>>
  BY DEF OpenElsewhere, proxyVars, configVars
<1>2. Starters' = Starters /\ Stoppers' = Stoppers
  BY <1>1 DEF Starters, Stoppers
<1>3. CallTyped' /\ AppTyped'
  BY <1>1, Distinct DEF AppInv, CallTyped, AppTyped
<1>4. MutexHeld' /\ StopsCounted' /\ SavedBefore' /\ ProxyInHand' /\ ProxiesKnown'
  BY <1>1, <1>2 DEF AppInv, Always, MutexHeld, StopsCounted, SavedBefore, ProxyInHand, ProxiesKnown
<1>5. ProxiesCounted'
  BY <1>1, <1>2, Counts, CountKept DEF AppInv, AppTyped
<1>6. StoresKnown'
  <2>1. openings \in Nat /\ (\A p \in Proxies : proxyStore[p] \in Nat) /\ \A h \in Handlers : call[h].st \in Nat
    BY DEF AppInv, AppTyped, CallTyped, CallRecords
  <2> QED
    BY <1>1, <2>1 DEF AppInv, Always, StoresKnown
<1>7. ~racing => InStep'
  BY <1>1 DEF AppInv, InStep, Committing, Swapping
<1>8. ~overlapped => FlagTrue' /\ ListenersKnown'
  BY <1>1, <1>2 DEF AppInv, FlagTrue, TakenOut, ListenersKnown
<1>9. ~overlapped => StoreUnused'
  <2>1. \A p \in Proxies : proxyStore[p] # store'
    BY <1>1 DEF AppInv, AppTyped, Always, StoresKnown
  <2> QED
    BY <1>1, <2>1 DEF AppInv, StoreUnused
<1> QED
  BY <1>1, <1>3, <1>4, <1>5, <1>6, <1>7, <1>8, <1>9 DEF AppInv, Always

\* The program is started again from what the file has.
LEMMA Restarted == ASSUME AppInv, Restart PROVE AppInv'
<1>1. \A h \in Handlers : call'[h] = Idle /\ call'[h].at = "idle" /\ call'[h].p = 0
  BY Distinct DEF Restart
<1>2. Starters' = {} /\ Stoppers' = {}
  BY <1>1 DEF Starters, Stoppers
<1>3. Cardinality(Starters') = 0 /\ Cardinality(Stoppers') = 0
  BY <1>2, FS_EmptySet
<1>4. CallTyped' /\ AppTyped'
  <2>1. memory' \in Configs /\ saved' \subseteq Settings \cup {Broken}
    <3> PICK cfg \in file : memory' = loaded(cfg) /\ saved' = saved \cup {cfg.scope}
      BY DEF Restart
    <3>1. cfg \in Configs /\ saved \subseteq Settings \cup {Broken}
      BY DEF AppInv, AppTyped
    <3> QED
      BY <3>1, LoadedTyped DEF Configs
  <2>2. CallTyped'
    BY Distinct DEF Restart, CallTyped
  <2>3. calls' \in Nat /\ calls' <= MaxCalls /\ store' \in Nat /\ openings' \in Nat /\ store' <= openings'
    BY Distinct DEF AppInv, AppTyped, Restart
  <2> QED
    BY <2>1, <2>2, <2>3, Distinct DEF AppInv, AppTyped, Restart
<1>5. MutexHeld' /\ StopsCounted' /\ ProxyInHand'
  BY <1>1, <1>3, Distinct DEF Restart, MutexHeld, Holding, StopsCounted, ProxyInHand
<1>6. ProxiesCounted'
  BY <1>3, Counts, CountKept DEF AppInv, AppTyped, Restart
<1> PICK cfg \in file : memory' = loaded(cfg) /\ saved' = saved \cup {cfg.scope}
  BY DEF Restart
<1>7. ProxiesKnown' /\ StoresKnown' /\ SavedBefore'
  <2>1. loaded(cfg).scope = cfg.scope
    BY LoadedTyped DEF AppInv, AppTyped
  <2>2. SavedBefore'
    BY <1>1, <2>1, Distinct DEF AppInv, Always, SavedBefore, Restart
  <2> QED
    BY <1>1, <2>2, Distinct DEF AppInv, AppTyped, Always, ProxiesKnown, StoresKnown, Restart
<1>8. InStep'
  <2>1. \A c \in file' : memory' = loaded(c)
    BY DEF AppInv, Always, SavedBefore, Restart
  <2> QED
    BY <1>1, <2>1, Distinct DEF InStep, Updates, Restart
<1>9. FlagTrue' /\ ListenersKnown' /\ StoreUnused'
  BY <1>1, <1>2, Distinct DEF FlagTrue, TakenOut, ListenersKnown, StoreUnused, Restart
<1> QED
  BY <1>4, <1>5, <1>6, <1>7, <1>8, <1>9 DEF AppInv, Always

\* A start that reaches bind() finds a proxy still to be built, and builds the next one.
LEMMA ProxyToBuild ==
  ASSUME AppInv, NEW h \in Handlers, call[h].at = "bind"
  PROVE  \E p \in Proxies : /\ proxyStore[p] = 0 /\ \A r \in 1..(p - 1) : proxyStore[r] # 0
                            /\ p = CHOOSE q \in Proxies : proxyStore[q] = 0 /\ \A r \in 1..(q - 1) : proxyStore[r] # 0
<1> PICK k \in Nat : (\A q \in Proxies : proxyStore[q] # 0 <=> q <= k) /\ k + Cardinality(Starters) <= calls
  BY DEF AppInv, Always, ProxiesCounted
<1>1. Cardinality(Starters) # 0
  <2>1. h \in Starters
    BY DEF Starters
  <2> QED
    BY <2>1, Counts, FS_EmptySet
<1>2. k + 1 <= MaxCalls
  BY <1>1, Counts, Distinct DEF AppInv, AppTyped
<1>3. k + 1 \in Proxies /\ \A r \in 1..k : r \in Proxies /\ r <= k
  BY <1>2, Distinct DEF Proxies
<1>4. proxyStore[k + 1] = 0 /\ \A r \in 1..((k + 1) - 1) : proxyStore[r] # 0
  BY <1>3
<1> QED
  BY <1>3, <1>4

-------------------------------------------------------------------------------

\* Every step of a handler keeps the invariant: each action is one of the steps above, or gives up.
LEMMA HandlerKeeps == ASSUME AppInv, NEW h \in Handlers, HandlerStep(h) PROVE AppInv'
<1> USE DEF At, Goto, Return, Lock, Unlock
<1> DEFINE released == IF proxyMutex = h THEN "none" ELSE proxyMutex
<1>1. CASE LockStart(h)
  <2>1. CASE running
    <3>1. proxyMutex # h
      BY <1>1, Distinct DEF LockStart
    <3> QED
      BY <1>1, <2>1, <3>1, GivesUp DEF LockStart, poolVars, configVars
  <2>2. CASE ~running
    BY <1>1, <2>2, LockStartBuilds DEF LockStart, proxyVars, poolVars, configVars
  <2> QED
    BY <2>1, <2>2
<1>2. CASE BuildStore(h)
  <2>1. CASE Return(h) /\ Unlock(h) /\ UNCHANGED poolVars
    BY <1>2, <2>1, GivesUp DEF BuildStore, poolVars, configVars
  <2> QED
    BY <1>2, <2>1, GivesUp, StoreIsBuilt DEF BuildStore, opened, proxyVars, poolVars, configVars
<1>3. CASE Configure(h)
  BY <1>3, GivesUp, ConfigureStep DEF Configure, proxyVars, poolVars, configVars
<1>4. CASE Bind(h)
  <2> PICK p \in Proxies : /\ proxyStore[p] = 0 /\ \A r \in 1..(p - 1) : proxyStore[r] # 0
                           /\ p = CHOOSE q \in Proxies : proxyStore[q] = 0 /\ \A r \in 1..(q - 1) : proxyStore[r] # 0
    BY <1>4, ProxyToBuild DEF Bind
  <2>1. CASE listening = {} /\ listening' = {p}
    BY <1>4, <2>1, ProxyBound DEF Bind, configVars
  <2>2. CASE Return(h) /\ Unlock(h) /\ UNCHANGED <<listening, proxyScope, proxyStore>>
    BY <1>4, <2>2, GivesUp DEF Bind, proxyVars, configVars
  <2> QED
    BY <1>4, <2>1, <2>2 DEF Bind
<1>5. CASE Install(h)
  BY <1>5, ProxyInstalled DEF Install, poolVars, configVars
<1>6. CASE LockStop(h)
  <2>1. CASE proxy = 0
    BY <1>6, <2>1, StopFindsNone DEF LockStop, poolVars, configVars
  <2>2. CASE proxy # 0
    BY <1>6, <2>2, StopTakesOut DEF LockStop, poolVars, configVars
  <2> QED
    BY <2>1, <2>2
<1>7. CASE Drained(h)
  BY <1>7, DrainedStep DEF Drained, proxyVars, poolVars, configVars
<1>8. CASE ResetStore(h)
  BY <1>8, ResetStep DEF ResetStore, proxyVars, configVars
<1>9. CASE ClearRunning(h)
  BY <1>9, ClearStep DEF ClearRunning, poolVars, configVars
<1>10. CASE LockScope(h)
  BY <1>10, ScopeLocked DEF LockScope, proxyVars, poolVars
<1>11. CASE ReadConfig(h)
  BY <1>11, ScopeRead, OtherRead, GivesUp DEF ReadConfig, proxyVars, poolVars, configVars
<1>12. CASE SaveConfig(h)
  BY <1>12, ScopeSaved, OtherSaved, GivesUp DEF SaveConfig, proxyVars, poolVars
<1>13. CASE CommitConfig(h)
  BY <1>13, ScopeCommitted, OtherCommitted DEF CommitConfig, proxyVars, poolVars
<1>14. CASE SwapScope(h)
  BY <1>14, ScopeSwapped DEF SwapScope, poolVars, configVars
<1>15. CASE LoadConfig(h)
  <2>1. CASE file = {} /\ Return(h)
    <3>1. proxyMutex # h
      BY <1>15, Distinct DEF LoadConfig, AppInv, Always, MutexHeld, Holding
    <3> QED
      BY <1>15, <2>1, <3>1, GivesUp DEF LoadConfig, poolVars
  <2> QED
    BY <1>15, <2>1, FileLoaded DEF LoadConfig, proxyVars, poolVars
<1>16. CASE CommitLoaded(h)
  BY <1>16, LoadCommitted DEF CommitLoaded, proxyVars, poolVars
<1>17. CASE SwapLoaded(h)
  BY <1>17, LoadSwapped DEF SwapLoaded, poolVars, configVars
<1> QED
  BY <1>1, <1>2, <1>3, <1>4, <1>5, <1>6, <1>7, <1>8, <1>9, <1>10, <1>11, <1>12, <1>13, <1>14, <1>15, <1>16, <1>17
  DEF HandlerStep, StartStep, StopStep, UpdateStep, ReloadStep

\* The invariant is inductive.
LEMMA AppStep == AppInv /\ [AppNext]_appVars => AppInv'
<1> SUFFICES ASSUME AppInv, [AppNext]_appVars PROVE AppInv'
  OBVIOUS
<1>1. CASE UNCHANGED appVars
  <2>1. UNCHANGED <<proxyMutex, proxy, listening, lost, stopping, running, proxyScope, proxyStore, stops, overlapped, store,
                    openings, memory, file, saved, edited, racing, call, calls>>
    BY <1>1 DEF appVars, proxyVars, poolVars, configVars
  <2>2. Starters' = Starters /\ Stoppers' = Stoppers
    BY <2>1 DEF Starters, Stoppers
  <2>3. CallTyped' /\ AppTyped' /\ (~racing => InStep')
    BY <2>1 DEF AppInv, CallTyped, AppTyped, InStep, Committing, Swapping
  <2>4. Always'
    BY <2>1, <2>2 DEF AppInv, Always, MutexHeld, ProxiesCounted, StopsCounted, ProxiesKnown, StoresKnown, SavedBefore, ProxyInHand
  <2>5. ~overlapped => FlagTrue' /\ ListenersKnown' /\ StoreUnused'
    BY <2>1, <2>2 DEF AppInv, FlagTrue, TakenOut, ListenersKnown, StoreUnused
  <2> QED
    BY <2>1, <2>3, <2>4, <2>5 DEF AppInv
<1>2. ASSUME NEW h \in Handlers, NEW entry \in {"start", "stop", "scope", "other_read", "load"}, Call(h, entry)
      PROVE  AppInv'
  BY <1>2, CallStep DEF Call, At, Goto, proxyVars, poolVars
<1>3. ASSUME NEW h \in Handlers, DropHandler(h) PROVE AppInv'
  BY <1>3, Dropped DEF DropHandler, At, Return, Unlock, poolVars
<1>4. CASE ProxyStopped
  BY <1>4, StoppedStep DEF ProxyStopped
<1>5. CASE ListenerLost
  BY <1>5, LostStep DEF ListenerLost
<1> QED
  BY <1>1, <1>2, <1>3, <1>4, <1>5, HandlerKeeps, OpenedElsewhere, EditStep, Restarted DEF AppNext

\* The configuration in memory, in the file and in the running proxy follow each other,
\* however requests, failures, disconnections and restarts interleave.
THEOREM ConfigFollows == AppSpec => []ConfigInStep
<1>1. AppInv => ConfigInStep
  BY AppImplies
<1> QED
  BY AppInitially, AppStep, <1>1, PTL DEF AppSpec

\* What the dashboard says of the proxy, what is installed, what listens and what it stores to agree.
THEOREM ProxyFollows == AppSpec => []ProxyInStep
<1>1. AppInv => ProxyInStep
  BY AppImplies
<1> QED
  BY AppInitially, AppStep, <1>1, PTL DEF AppSpec

-------------------------------------------------------------------------------
(* How far a handler is from its return                                      *)

\* The steps up to the return of a handler.
StepsLeft(s) ==
  CASE s \in {"start", "scope"} -> 5 [] s \in {"build", "stop", "scope_read"} -> 4
    [] s \in {"configure", "drain", "scope_save", "other_read", "load"} -> 3
    [] s \in {"bind", "reset", "scope_commit", "other_save", "load_commit"} -> 2
    [] s \in {"install", "clear", "scope_swap", "other_commit", "load_swap"} -> 1 [] OTHER -> 0

\* The steps at which a handler waits for the mutex of the proxy.
Waiting == {"start", "stop", "scope", "load_swap"}

\* A handler's own steps take it on, and nothing that others do takes it back.
HandlersDescend ==
  \A h \in Handlers :
    /\ HandlerStep(h) => StepsLeft(call'[h].at) < StepsLeft(call[h].at)
    /\ StepsLeft(call'[h].at) > StepsLeft(call[h].at) => call[h].at = "idle"

\* Who has the mutex of the proxy does not wait for it; it waits, if for anything, for a proxy
\* whose stop() is running.
HolderGoesOn ==
  proxyMutex # "none" =>
    proxyMutex \in Handlers /\ call[proxyMutex].at \in Holding \ Waiting

\* A number at every step.
LEMMA StepsLeftTyped == \A s : StepsLeft(s) \in 0..5
BY DEF StepsLeft

\* What a handler's step makes of its record, and of no other.
LEMMA RecordMoves ==
  ASSUME CallTyped, NEW h \in Handlers, NEW s,
         \/ call' = [call EXCEPT ![h] = Idle] /\ s = "idle"
         \/ call' = [call EXCEPT ![h].at = s]
         \/ \E v : call' = [call EXCEPT ![h] = [@ EXCEPT !.at = s, !.p = v]]
         \/ \E v : call' = [call EXCEPT ![h] = [@ EXCEPT !.at = s, !.cfg = v]]
         \/ \E v : call' = [call EXCEPT ![h] = [@ EXCEPT !.at = s, !.st = v]]
  PROVE  call'[h].at = s /\ \A g \in Handlers : g # h => call'[g] = call[g]
<1>1. CASE call' = [call EXCEPT ![h] = Idle] /\ s = "idle"
  BY <1>1 DEF CallTyped, Idle
<1>2. CASE call' = [call EXCEPT ![h].at = s]
  BY <1>2 DEF CallTyped, CallRecords
<1>3. ASSUME NEW v, call' = [call EXCEPT ![h] = [@ EXCEPT !.at = s, !.p = v]]
      PROVE  call'[h].at = s /\ \A g \in Handlers : g # h => call'[g] = call[g]
  BY <1>3 DEF CallTyped, CallRecords
<1>4. ASSUME NEW v, call' = [call EXCEPT ![h] = [@ EXCEPT !.at = s, !.cfg = v]]
      PROVE  call'[h].at = s /\ \A g \in Handlers : g # h => call'[g] = call[g]
  BY <1>4 DEF CallTyped, CallRecords
<1>5. ASSUME NEW v, call' = [call EXCEPT ![h] = [@ EXCEPT !.at = s, !.st = v]]
      PROVE  call'[h].at = s /\ \A g \in Handlers : g # h => call'[g] = call[g]
  BY <1>5 DEF CallTyped, CallRecords
<1> QED
  BY <1>1, <1>2, <1>3, <1>4, <1>5

\* A handler that goes on or returns is at a later step, and the others are where they were.
LEMMA HandlerMoves ==
  ASSUME CallTyped, NEW h \in Handlers, HandlerStep(h)
  PROVE  /\ StepsLeft(call'[h].at) < StepsLeft(call[h].at)
         /\ \A g \in Handlers : g # h => call'[g] = call[g]
<1> USE DEF At, Goto, Return, Lock, Unlock
<1>1. CASE StartStep(h)
  <2>1. \/ call[h].at \in {"start", "build", "configure", "bind", "install"} /\ call' = [call EXCEPT ![h] = Idle]
        \/ call[h].at = "start" /\ call' = [call EXCEPT ![h].at = "build"]
        \/ call[h].at = "build" /\ call' = [call EXCEPT ![h] = [@ EXCEPT !.at = "configure", !.st = store']]
        \/ call[h].at = "configure" /\ call' = [call EXCEPT ![h] = [@ EXCEPT !.at = "bind", !.cfg = memory]]
        \/ call[h].at = "bind" /\ \E v : call' = [call EXCEPT ![h] = [@ EXCEPT !.at = "install", !.p = v]]
    BY <1>1 DEF StartStep, LockStart, BuildStore, Configure, Bind, Install
  <2>2. CASE call[h].at \in {"start", "build", "configure", "bind", "install"} /\ call' = [call EXCEPT ![h] = Idle]
    <3>1. call'[h].at = "idle" /\ \A g \in Handlers : g # h => call'[g] = call[g]
      BY <2>2, RecordMoves
    <3> QED
      BY <2>2, <3>1 DEF StepsLeft
  <2>3. CASE call[h].at = "start" /\ call' = [call EXCEPT ![h].at = "build"]
    <3>1. call'[h].at = "build" /\ \A g \in Handlers : g # h => call'[g] = call[g]
      BY <2>3, RecordMoves
    <3> QED
      BY <2>3, <3>1 DEF StepsLeft
  <2>4. CASE call[h].at = "build" /\ call' = [call EXCEPT ![h] = [@ EXCEPT !.at = "configure", !.st = store']]
    <3>1. \E v : call' = [call EXCEPT ![h] = [@ EXCEPT !.at = "configure", !.st = v]]
      BY <2>4
    <3>2. call'[h].at = "configure" /\ \A g \in Handlers : g # h => call'[g] = call[g]
      BY <3>1, RecordMoves
    <3> QED
      BY <2>4, <3>2 DEF StepsLeft
  <2>5. CASE call[h].at = "configure" /\ call' = [call EXCEPT ![h] = [@ EXCEPT !.at = "bind", !.cfg = memory]]
    <3>1. \E v : call' = [call EXCEPT ![h] = [@ EXCEPT !.at = "bind", !.cfg = v]]
      BY <2>5
    <3>2. call'[h].at = "bind" /\ \A g \in Handlers : g # h => call'[g] = call[g]
      BY <3>1, RecordMoves
    <3> QED
      BY <2>5, <3>2 DEF StepsLeft
  <2>6. CASE call[h].at = "bind" /\ \E v : call' = [call EXCEPT ![h] = [@ EXCEPT !.at = "install", !.p = v]]
    <3>1. \E v : call' = [call EXCEPT ![h] = [@ EXCEPT !.at = "install", !.p = v]]
      BY <2>6
    <3>2. call'[h].at = "install" /\ \A g \in Handlers : g # h => call'[g] = call[g]
      BY <3>1, RecordMoves
    <3> QED
      BY <2>6, <3>2 DEF StepsLeft
  <2> QED
    BY <2>1, <2>2, <2>3, <2>4, <2>5, <2>6
<1>2. CASE StopStep(h)
  <2>1. \/ call[h].at = "stop" /\ call' = [call EXCEPT ![h].at = "reset"]
        \/ call[h].at = "stop" /\ call' = [call EXCEPT ![h] = [@ EXCEPT !.at = "drain", !.p = proxy]]
        \/ call[h].at = "drain" /\ call' = [call EXCEPT ![h].at = "reset"]
        \/ call[h].at = "reset" /\ call' = [call EXCEPT ![h].at = "clear"]
        \/ call[h].at \in {"clear"} /\ call' = [call EXCEPT ![h] = Idle]
    BY <1>2 DEF StopStep, LockStop, Drained, ResetStore, ClearRunning
  <2>2. CASE call[h].at = "stop" /\ call' = [call EXCEPT ![h].at = "reset"]
    <3>1. call'[h].at = "reset" /\ \A g \in Handlers : g # h => call'[g] = call[g]
      BY <2>2, RecordMoves
    <3> QED
      BY <2>2, <3>1 DEF StepsLeft
  <2>3. CASE call[h].at = "stop" /\ call' = [call EXCEPT ![h] = [@ EXCEPT !.at = "drain", !.p = proxy]]
    <3>1. \E v : call' = [call EXCEPT ![h] = [@ EXCEPT !.at = "drain", !.p = v]]
      BY <2>3
    <3>2. call'[h].at = "drain" /\ \A g \in Handlers : g # h => call'[g] = call[g]
      BY <3>1, RecordMoves
    <3> QED
      BY <2>3, <3>2 DEF StepsLeft
  <2>4. CASE call[h].at = "drain" /\ call' = [call EXCEPT ![h].at = "reset"]
    <3>1. call'[h].at = "reset" /\ \A g \in Handlers : g # h => call'[g] = call[g]
      BY <2>4, RecordMoves
    <3> QED
      BY <2>4, <3>1 DEF StepsLeft
  <2>5. CASE call[h].at = "reset" /\ call' = [call EXCEPT ![h].at = "clear"]
    <3>1. call'[h].at = "clear" /\ \A g \in Handlers : g # h => call'[g] = call[g]
      BY <2>5, RecordMoves
    <3> QED
      BY <2>5, <3>1 DEF StepsLeft
  <2>6. CASE call[h].at \in {"clear"} /\ call' = [call EXCEPT ![h] = Idle]
    <3>1. call'[h].at = "idle" /\ \A g \in Handlers : g # h => call'[g] = call[g]
      BY <2>6, RecordMoves
    <3> QED
      BY <2>6, <3>1 DEF StepsLeft
  <2> QED
    BY <2>1, <2>2, <2>3, <2>4, <2>5, <2>6
<1>3. CASE UpdateStep(h)
  <2>1. \/ call[h].at = "scope" /\ call' = [call EXCEPT ![h] = [@ EXCEPT !.at = "scope_read", !.p = proxy]]
        \/ call[h].at = "scope_read" /\ \E v : call' = [call EXCEPT ![h] = [@ EXCEPT !.at = "scope_save", !.cfg = v]]
        \/ call[h].at = "other_read" /\ \E v : call' = [call EXCEPT ![h] = [@ EXCEPT !.at = "other_save", !.cfg = v]]
        \/ call[h].at = "scope_save" /\ call' = [call EXCEPT ![h].at = "scope_commit"]
        \/ call[h].at = "other_save" /\ call' = [call EXCEPT ![h].at = "other_commit"]
        \/ call[h].at = "scope_commit" /\ call' = [call EXCEPT ![h].at = "scope_swap"]
        \/ call[h].at \in {"scope_read", "scope_save", "other_save", "other_commit", "scope_swap"} /\ call' = [call EXCEPT ![h] = Idle]
    BY <1>3 DEF UpdateStep, LockScope, ReadConfig, SaveConfig, CommitConfig, SwapScope
  <2>2. CASE call[h].at = "scope" /\ call' = [call EXCEPT ![h] = [@ EXCEPT !.at = "scope_read", !.p = proxy]]
    <3>1. \E v : call' = [call EXCEPT ![h] = [@ EXCEPT !.at = "scope_read", !.p = v]]
      BY <2>2
    <3>2. call'[h].at = "scope_read" /\ \A g \in Handlers : g # h => call'[g] = call[g]
      BY <3>1, RecordMoves
    <3> QED
      BY <2>2, <3>2 DEF StepsLeft
  <2>3. CASE call[h].at = "scope_read" /\ \E v : call' = [call EXCEPT ![h] = [@ EXCEPT !.at = "scope_save", !.cfg = v]]
    <3>1. \E v : call' = [call EXCEPT ![h] = [@ EXCEPT !.at = "scope_save", !.cfg = v]]
      BY <2>3
    <3>2. call'[h].at = "scope_save" /\ \A g \in Handlers : g # h => call'[g] = call[g]
      BY <3>1, RecordMoves
    <3> QED
      BY <2>3, <3>2 DEF StepsLeft
  <2>4. CASE call[h].at = "other_read" /\ \E v : call' = [call EXCEPT ![h] = [@ EXCEPT !.at = "other_save", !.cfg = v]]
    <3>1. \E v : call' = [call EXCEPT ![h] = [@ EXCEPT !.at = "other_save", !.cfg = v]]
      BY <2>4
    <3>2. call'[h].at = "other_save" /\ \A g \in Handlers : g # h => call'[g] = call[g]
      BY <3>1, RecordMoves
    <3> QED
      BY <2>4, <3>2 DEF StepsLeft
  <2>5. CASE call[h].at = "scope_save" /\ call' = [call EXCEPT ![h].at = "scope_commit"]
    <3>1. call'[h].at = "scope_commit" /\ \A g \in Handlers : g # h => call'[g] = call[g]
      BY <2>5, RecordMoves
    <3> QED
      BY <2>5, <3>1 DEF StepsLeft
  <2>6. CASE call[h].at = "other_save" /\ call' = [call EXCEPT ![h].at = "other_commit"]
    <3>1. call'[h].at = "other_commit" /\ \A g \in Handlers : g # h => call'[g] = call[g]
      BY <2>6, RecordMoves
    <3> QED
      BY <2>6, <3>1 DEF StepsLeft
  <2>7. CASE call[h].at = "scope_commit" /\ call' = [call EXCEPT ![h].at = "scope_swap"]
    <3>1. call'[h].at = "scope_swap" /\ \A g \in Handlers : g # h => call'[g] = call[g]
      BY <2>7, RecordMoves
    <3> QED
      BY <2>7, <3>1 DEF StepsLeft
  <2>8. CASE call[h].at \in {"scope_read", "scope_save", "other_save", "other_commit", "scope_swap"} /\ call' = [call EXCEPT ![h] = Idle]
    <3>1. call'[h].at = "idle" /\ \A g \in Handlers : g # h => call'[g] = call[g]
      BY <2>8, RecordMoves
    <3> QED
      BY <2>8, <3>1 DEF StepsLeft
  <2> QED
    BY <2>1, <2>2, <2>3, <2>4, <2>5, <2>6, <2>7, <2>8
<1>4. CASE ReloadStep(h)
  <2>1. \/ call[h].at = "load" /\ \E v : call' = [call EXCEPT ![h] = [@ EXCEPT !.at = "load_commit", !.cfg = v]]
        \/ call[h].at = "load_commit" /\ call' = [call EXCEPT ![h].at = "load_swap"]
        \/ call[h].at \in {"load", "load_swap"} /\ call' = [call EXCEPT ![h] = Idle]
    BY <1>4 DEF ReloadStep, LoadConfig, CommitLoaded, SwapLoaded
  <2>2. CASE call[h].at = "load" /\ \E v : call' = [call EXCEPT ![h] = [@ EXCEPT !.at = "load_commit", !.cfg = v]]
    <3>1. \E v : call' = [call EXCEPT ![h] = [@ EXCEPT !.at = "load_commit", !.cfg = v]]
      BY <2>2
    <3>2. call'[h].at = "load_commit" /\ \A g \in Handlers : g # h => call'[g] = call[g]
      BY <3>1, RecordMoves
    <3> QED
      BY <2>2, <3>2 DEF StepsLeft
  <2>3. CASE call[h].at = "load_commit" /\ call' = [call EXCEPT ![h].at = "load_swap"]
    <3>1. call'[h].at = "load_swap" /\ \A g \in Handlers : g # h => call'[g] = call[g]
      BY <2>3, RecordMoves
    <3> QED
      BY <2>3, <3>1 DEF StepsLeft
  <2>4. CASE call[h].at \in {"load", "load_swap"} /\ call' = [call EXCEPT ![h] = Idle]
    <3>1. call'[h].at = "idle" /\ \A g \in Handlers : g # h => call'[g] = call[g]
      BY <2>4, RecordMoves
    <3> QED
      BY <2>4, <3>1 DEF StepsLeft
  <2> QED
    BY <2>1, <2>2, <2>3, <2>4
<1> QED
  BY <1>1, <1>2, <1>3, <1>4 DEF HandlerStep

\* Every handler returns (HandlersReturn), however requests, failures, disconnections and restarts
\* interleave: its own steps are few and each leads on, and the mutex some of them wait for is with a
\* handler that does not wait for it.
THEOREM HandlersRunOut ==
  AppSpec => /\ [](HolderGoesOn /\ \A h \in Handlers : StepsLeft(call[h].at) \in 0..5)
             /\ [][HandlersDescend]_appVars
<1>1. AppInv => HolderGoesOn /\ \A h \in Handlers : StepsLeft(call[h].at) \in 0..5
  <2> SUFFICES ASSUME AppInv PROVE HolderGoesOn
    BY StepsLeftTyped
  <2>1. \A h \in Handlers : proxyMutex = h <=> call[h].at \in Holding
    BY DEF AppInv, Always, MutexHeld
  <2>2. Holding \ Waiting = Holding
    BY DEF Holding, Waiting
  <2>3. proxyMutex \in Handlers \cup {"none"}
    BY DEF AppInv, AppTyped
  <2> QED
    BY <2>1, <2>2, <2>3 DEF HolderGoesOn
<1>2. AppInv /\ [AppNext]_appVars => [HandlersDescend]_appVars
  <2> SUFFICES ASSUME AppInv, AppNext PROVE HandlersDescend
    OBVIOUS
  <2>1. CallTyped
    BY DEF AppInv
  <2>2. \A h \in Handlers : HandlerStep(h) => StepsLeft(call'[h].at) < StepsLeft(call[h].at)
    BY <2>1, HandlerMoves
  <2> SUFFICES ASSUME NEW g \in Handlers, StepsLeft(call'[g].at) > StepsLeft(call[g].at) PROVE call[g].at = "idle"
    BY <2>2 DEF HandlersDescend
  <2>3. /\ StepsLeft(call'[g].at) \in 0..5 /\ StepsLeft(call[g].at) \in 0..5
        /\ call'[g] # call[g] /\ call'[g] # Idle
    BY StepsLeftTyped DEF StepsLeft, Idle
  <2>4. ASSUME NEW h \in Handlers, HandlerStep(h) PROVE FALSE
    BY <2>1, <2>3, <2>4, HandlerMoves
  <2>5. ASSUME NEW h \in Handlers, NEW entry \in {"start", "stop", "scope", "other_read", "load"}, Call(h, entry)
        PROVE  call[g].at = "idle"
    BY <2>1, <2>3, <2>5 DEF Call, At, Goto, CallTyped
  <2>6. ASSUME NEW h \in Handlers, DropHandler(h) PROVE FALSE
    BY <2>1, <2>3, <2>6 DEF DropHandler, Return, CallTyped
  <2>7. ~ProxyStopped /\ ~ListenerLost /\ ~OpenElsewhere /\ ~EditFile /\ ~Restart
    BY <2>3 DEF ProxyStopped, ListenerLost, OpenElsewhere, EditFile, Restart
  <2> QED
    BY <2>4, <2>5, <2>6, <2>7 DEF AppNext
<1> QED
  BY <1>1, <1>2, AppInitially, AppStep, PTL DEF AppSpec

-------------------------------------------------------------------------------
(* SecretScan                                                                *)

\* What can be found at all.
Findable == Patterns \cup GitleaksRules \cup {<<"CWE-215">>}

\* What is right to answer of body b if gitleaks failed for the bodies missed (AnswersOwnBody).
Fit(b, found, missed) ==
  /\ analyze_uncached(b, {}) \subseteq found
  /\ found \subseteq analyze_uncached(b, In(GitleaksRules, b.text))
  /\ b \notin missed => gitleaks_report(b) \subseteq found

\* What a thread can be doing, what the cache can hold, and the types of the variables.
AnalysisStates ==
  [at : {"idle", "scan", "probe", "spawn", "wait", "join", "rest", "done"}, body : Bodies, child : {"none", "running", "exited"},
   leaks : SUBSET Findable, result : SUBSET Findable]
Remembered == [body : Bodies, result : SUBSET Findable]
LeakTyped ==
  /\ analysis \in [Analysts -> AnalysisStates]
  /\ scan_cache \in Seq(Remembered)
  /\ waitErrors \in 0..MaxWaitErrors /\ partial \subseteq Bodies

\* What a thread knows of the body it has: nothing before gitleaks has answered or failed to, then
\* what gitleaks told of it, then the result.
Knows(t) ==
  LET own == analysis[t].body IN
  /\ analysis[t].at \in {"scan", "probe", "spawn", "wait", "join"} => analysis[t].leaks = {}
  /\ analysis[t].at = "rest" => /\ analysis[t].leaks \subseteq In(GitleaksRules, own.text)
                                /\ own \notin partial => analysis[t].leaks = gitleaks_report(own)
  /\ analysis[t].at = "done" /\ own.text # <<>> => Fit(own, analysis[t].result, partial)

\* The cache, in every answer it remembers.
CacheFits == \A k \in 1..Len(scan_cache) : Fit(scan_cache[k].body, scan_cache[k].result, partial)

LeakInv == LeakTyped /\ CacheSound /\ CacheFits /\ \A t \in Analysts : Knows(t)

\* What gitleaks reports of the part it is given is in the body.
LEMMA ReportInBody == ASSUME NEW b \in Bodies PROVE gitleaks_report(b) \subseteq In(GitleaksRules, b.text)
<1> DEFINE Symbols == UNION {ToSet(d.text) : d \in Bodies}
           n == IF Len(b.text) > MaxInput THEN MaxInput ELSE Len(b.text)
<1>1. b.text \in Seq(Symbols) /\ n \in 0..Len(b.text) /\ MaxInput \in Nat
  <2>1. b.text \in Seq(Symbols) /\ MaxInput \in Nat
    BY LeakAssumption
  <2> HIDE DEF Symbols
  <2>2. Len(b.text) \in Nat
    BY <2>1
  <2> QED
    BY <2>1, <2>2
<1> HIDE DEF Symbols, n
<1>2. ASSUME NEW i \in 0..n, NEW j \in 0..n PROVE SubSeq(SubSeq(b.text, 1, n), i + 1, j) = SubSeq(b.text, i + 1, j)
  <2>1. SubSeq(b.text, 1, n) \in Seq(Symbols) /\ Len(SubSeq(b.text, 1, n)) = n
    BY <1>1
  <2>3. QED
    <3> DEFINE part == SubSeq(b.text, 1, n)
               x == SubSeq(part, i + 1, j)
               y == SubSeq(b.text, i + 1, j)
    <3>1. part \in Seq(Symbols) /\ Len(part) = n /\ \A k \in 1..n : part[k] = b.text[k]
      BY <1>1, <2>1
    <3> HIDE DEF part
    <3>2. /\ x \in Seq(Symbols) /\ Len(x) = IF i + 1 <= j THEN j - (i + 1) + 1 ELSE 0
          /\ \A k \in 1..(j - (i + 1) + 1) : x[k] = part[(i + 1) + k - 1]
      BY <3>1, SubSeqProperties
    <3>3. /\ y \in Seq(Symbols) /\ Len(y) = IF i + 1 <= j THEN j - (i + 1) + 1 ELSE 0
          /\ \A k \in 1..(j - (i + 1) + 1) : y[k] = b.text[(i + 1) + k - 1]
      BY <1>1, SubSeqProperties
    <3> HIDE DEF x, y
    <3>4. ASSUME NEW k \in 1..Len(x) PROVE x[k] = y[k]
      <4>1. i \in Nat /\ j \in Nat /\ n \in Nat /\ j <= n
        BY <1>1
      <4>2. i + 1 <= j /\ k \in 1..(j - (i + 1) + 1)
        BY <3>2, <4>1
      <4>3. x[k] = part[(i + 1) + k - 1] /\ y[k] = b.text[(i + 1) + k - 1]
        BY <3>2, <3>3, <4>2
      <4>4. (i + 1) + k - 1 \in 1..n
        BY <4>1, <4>2
      <4> QED
        BY <3>1, <4>3, <4>4
    <3>5. Len(x) = Len(y) /\ x \in Seq(Symbols) /\ y \in Seq(Symbols)
      BY <3>2, <3>3
    <3>6. x = y
      BY <3>4, <3>5, SeqEqual
    <3> QED
      BY <3>6 DEF part, x, y
<1>3. Len(SubSeq(b.text, 1, n)) = n /\ 0..n \subseteq 0..Len(b.text)
  BY <1>1
<1> QED
  BY <1>2, <1>3 DEF gitleaks_report, capped_input, In, n

\* What analyze_uncached returns of a body is findable, and with what gitleaks tells of the body, or
\* part of it, it is right.
LEMMA UncachedFits ==
  ASSUME NEW b \in Bodies, NEW told, told \subseteq In(GitleaksRules, b.text),
         b \notin partial => told = gitleaks_report(b)
  PROVE  analyze_uncached(b, told) \subseteq Findable /\ Fit(b, analyze_uncached(b, told), partial)
<1>1. In(GitleaksRules, b.text) \subseteq GitleaksRules /\ scan_regex(b.text) \subseteq Patterns
  BY DEF In, scan_regex
<1>2. scan_chunks(b) \subseteq Patterns
  BY DEF scan_chunks, scan_regex, In
<1>3. detect(b) \subseteq {<<"CWE-215">>}
  BY DEF detect
<1> QED
  BY <1>1, <1>2, <1>3, ReportInBody DEF analyze_uncached, Findable, Fit

\* An answer that was right stays so, as gitleaks can only have failed for more bodies.
LEMMA FitLasts ==
  ASSUME NEW b, NEW found, NEW missed, NEW more, Fit(b, found, missed), missed \subseteq more PROVE Fit(b, found, more)
BY DEF Fit

\* A step that leaves the cache alone, or as it should be, and gives one thread a new state in which it
\* knows what it should.
LEMMA OneThread ==
  ASSUME LeakInv, NEW t \in Analysts,
         NEW r \in AnalysisStates,
         analysis' = [analysis EXCEPT ![t] = r],
         \/ UNCHANGED scan_cache
         \/ scan_cache' \in Seq(Remembered) /\ CacheSound' /\ CacheFits',
         waitErrors' \in 0..MaxWaitErrors, partial \subseteq partial', partial' \subseteq Bodies, Knows(t)'
  PROVE  LeakInv'
<1>1. LeakTyped'
  BY DEF LeakInv, LeakTyped
<1>2. CacheSound' /\ CacheFits'
  <2> SUFFICES ASSUME UNCHANGED scan_cache PROVE CacheSound' /\ CacheFits'
    OBVIOUS
  <2>1. \A k \in 1..Len(scan_cache) : Fit(scan_cache[k].body, scan_cache[k].result, partial')
    BY FitLasts DEF LeakInv, CacheFits
  <2> QED
    BY <2>1 DEF LeakInv, CacheSound, CacheFits
<1>3. ASSUME NEW u \in Analysts, u # t PROVE Knows(u)'
  <2>1. Knows(u) /\ analysis'[u] = analysis[u]
    BY <1>3 DEF LeakInv, LeakTyped
  <2>2. analysis[u].at = "done" /\ analysis[u].body.text # <<>> => Fit(analysis[u].body, analysis[u].result, partial')
    BY <2>1, FitLasts DEF Knows
  <2> QED
    BY <2>1, <2>2 DEF Knows
<1> QED
  BY <1>1, <1>2, <1>3 DEF LeakInv

\* The idle state is one of them.
LEMMA IdleTyped == IdleAnalysis \in AnalysisStates
<1>1. (CHOOSE b \in Bodies : TRUE) \in Bodies
  BY LeakAssumption
<1> QED
  BY <1>1 DEF IdleAnalysis, AnalysisStates

\* A thread that takes a body answers from the cache what is right of it.
LEMMA AnalyzeKeeps == ASSUME LeakInv, NEW t \in Analysts, NEW b \in Bodies, Analyze(t, b) PROVE LeakInv'
<1> DEFINE found == IF b.text # <<>> THEN UNION {e.result : e \in cached_analysis(b)} ELSE {}
           r == [IdleAnalysis EXCEPT !.body = b, !.at = IF b.text = <<>> \/ cached_analysis(b) # {} THEN "done" ELSE "scan",
                                     !.result = found]
<1>1. analysis' = [analysis EXCEPT ![t] = r] /\ UNCHANGED <<scan_cache, waitErrors, partial>>
  BY DEF Analyze
<1>2. scan_cache \in Seq(Remembered)
  BY DEF LeakInv, LeakTyped
<1>3. ASSUME cached_analysis(b) # {}
      PROVE  \E k \in 1..Len(scan_cache) : scan_cache[k].body = b /\ cached_analysis(b) = {scan_cache[k]}
  <2>1. PICK k \in 1..Len(scan_cache) : scan_cache[k].body = b
    BY <1>2, <1>3 DEF cached_analysis, same_key, ToSet
  <2>2. \A i \in 1..Len(scan_cache) : scan_cache[i].body = b => i = k
    BY <1>2, <2>1 DEF LeakInv, CacheSound
  <2> QED
    BY <1>2, <2>1, <2>2 DEF cached_analysis, same_key, ToSet
<1>4. found \in SUBSET Findable
  <2>1. ASSUME NEW e \in cached_analysis(b) PROVE e.result \in SUBSET Findable
    <3>1. PICK k \in 1..Len(scan_cache) : e = scan_cache[k]
      BY <1>2 DEF cached_analysis, ToSet
    <3>2. scan_cache[k] \in Remembered
      BY <1>2
    <3> QED
      BY <3>1, <3>2 DEF Remembered
  <2> QED
    BY <2>1
<1>5. /\ r.at = IF b.text = <<>> \/ cached_analysis(b) # {} THEN "done" ELSE "scan"
      /\ r.leaks = {} /\ r.body = b /\ r.result = found
  BY DEF IdleAnalysis
<1>6. r \in AnalysisStates
  <2>1. ASSUME NEW place \in {"done", "scan"}, NEW f \in SUBSET Findable
        PROVE  [IdleAnalysis EXCEPT !.body = b, !.at = place, !.result = f] \in AnalysisStates
    BY IdleTyped DEF AnalysisStates
  <2> DEFINE place == IF b.text = <<>> \/ cached_analysis(b) # {} THEN "done" ELSE "scan"
  <2>2. place \in {"done", "scan"} /\ r = [IdleAnalysis EXCEPT !.body = b, !.at = place, !.result = found]
    OBVIOUS
  <2> HIDE DEF place, found, r
  <2> QED
    BY <1>4, <2>1, <2>2
<1>7. b.text # <<>> /\ cached_analysis(b) # {} => Fit(b, found, partial)
  <2> SUFFICES ASSUME b.text # <<>>, cached_analysis(b) # {} PROVE Fit(b, found, partial)
    OBVIOUS
  <2>1. PICK k \in 1..Len(scan_cache) : scan_cache[k].body = b /\ cached_analysis(b) = {scan_cache[k]}
    BY <1>3
  <2>2. found = scan_cache[k].result
    BY <2>1
  <2> QED
    BY <2>1, <2>2 DEF LeakInv, CacheFits
<1> HIDE DEF found, r
<1>8. analysis'[t] = r
  BY <1>1 DEF LeakInv, LeakTyped
<1>9. Knows(t)'
  <2>2. analysis'[t].at = "done" /\ b.text # <<>> => cached_analysis(b) # {}
    BY <1>5, <1>8
  <2>3. /\ analysis'[t].at # "rest" /\ analysis'[t].leaks = {} /\ analysis'[t].body = b /\ analysis'[t].result = found
    BY <1>5, <1>8
  <2>4. analysis'[t].at = "done" /\ b.text # <<>> => Fit(b, analysis[t].result, partial)'
    BY <1>1, <1>7, <2>2, <2>3
  <2> QED
    BY <2>3, <2>4 DEF Knows
<1> QED
  BY <1>1, <1>6, <1>9, OneThread DEF LeakInv, LeakTyped

\* What gitleaks does, and what is made of it, tells a thread of its own body only.
LEMMA GitleaksKeeps ==
  ASSUME LeakInv, NEW t \in Analysts, Resolve(t) \/ VersionPrinted(t) \/ Spawn(t) \/ Reaped(t) \/ TimeoutKills(t) \/ GitleaksExits(t) \/ WaitFails(t)
           \/ Returns(t)
  PROVE  LeakInv'
<1>1. analysis \in [Analysts -> AnalysisStates] /\ waitErrors \in 0..MaxWaitErrors /\ partial \subseteq Bodies /\ Knows(t)
  BY DEF LeakInv, LeakTyped, AnalysisStates
<1>2. UNCHANGED scan_cache
  BY DEF Resolve, VersionPrinted, Spawn, Reaped, TimeoutKills, GitleaksExits, WaitFails, Returns
<1>3. /\ waitErrors' \in 0..MaxWaitErrors
      /\ partial \subseteq partial' /\ partial' \subseteq partial \cup {analysis[t].body}
  <2>1. waitErrors' = waitErrors \/ (waitErrors < MaxWaitErrors /\ waitErrors' = waitErrors + 1)
    BY DEF Resolve, VersionPrinted, Spawn, Reaped, TimeoutKills, GitleaksExits, WaitFails, Returns
  <2>2. waitErrors' \in 0..MaxWaitErrors
    BY <1>1, <2>1, LeakAssumption
  <2>3. partial' = partial \/ partial' = partial \cup {analysis[t].body}
    BY DEF Resolve, VersionPrinted, Spawn, Reaped, TimeoutKills, GitleaksExits, WaitFails, Returns
  <2> QED
    BY <2>2, <2>3
<1>4. analysis[t].body \in Bodies /\ partial' \subseteq Bodies
  BY <1>1, <1>3 DEF AnalysisStates
<1>5. /\ gitleaks_report(analysis[t].body) \in SUBSET Findable
      /\ gitleaks_report(analysis[t].body) \subseteq In(GitleaksRules, analysis[t].body.text)
  BY <1>4, ReportInBody DEF In, Findable
<1> DEFINE after(place, child, told) == [analysis[t] EXCEPT !.at = place, !.child = child, !.leaks = told]
<1>6. ASSUME NEW place \in {"probe", "spawn", "wait", "join", "rest"}, NEW child \in {"none", "running", "exited"}, NEW told \in SUBSET Findable,
             NEW r, r = after(place, child, told)
      PROVE  r \in AnalysisStates /\ r.at = place /\ r.leaks = told /\ r.body = analysis[t].body
  BY <1>1, <1>6 DEF AnalysisStates
<1>7. ASSUME NEW place \in {"probe", "spawn", "wait", "join", "rest"}, NEW child \in {"none", "running", "exited"}, NEW told \in SUBSET Findable,
             analysis' = [analysis EXCEPT ![t] = after(place, child, told)],
             place # "rest" => told = {},
             place = "rest" => /\ told \subseteq In(GitleaksRules, analysis[t].body.text)
                               /\ analysis[t].body \notin partial' => told = gitleaks_report(analysis[t].body)
      PROVE  LeakInv'
  <2>1. PICK r : r = after(place, child, told)
    OBVIOUS
  <2> HIDE DEF after
  <2>2. r \in AnalysisStates /\ r.at = place /\ r.leaks = told /\ r.body = analysis[t].body
    BY <1>6, <2>1
  <2>3. analysis' = [analysis EXCEPT ![t] = r] /\ analysis'[t] = r
    BY <1>1, <1>7, <2>1
  <2>4. Knows(t)'
    BY <1>7, <2>2, <2>3 DEF Knows
  <2> QED
    BY <1>2, <1>3, <1>4, <2>2, <2>3, <2>4, OneThread
<1>8. CASE Spawn(t)
  <2>1. analysis[t].at = "spawn" /\ analysis[t].leaks = {} /\ analysis[t].child \in {"none", "running", "exited"}
    BY <1>1, <1>8 DEF Spawn, Knows, AnalysisStates
  <2>2. \/ analysis' = [analysis EXCEPT ![t] = after("rest", analysis[t].child, {})] /\ analysis[t].body \in partial'
        \/ analysis' = [analysis EXCEPT ![t] = after("wait", "running", {})]
    <3>1. \/ analysis' = [analysis EXCEPT ![t] = [analysis[t] EXCEPT !.at = "rest"]] /\ analysis[t].body \in partial'
          \/ analysis' = [analysis EXCEPT ![t] = [analysis[t] EXCEPT !.at = "wait", !.child = "running"]]
      BY <1>8 DEF Spawn
    <3>2. analysis[t] \in AnalysisStates
      BY <1>1
    <3>3. /\ after("rest", analysis[t].child, {}) = [analysis[t] EXCEPT !.at = "rest"]
          /\ after("wait", "running", {}) = [analysis[t] EXCEPT !.at = "wait", !.child = "running"]
      BY <2>1, <3>2 DEF AnalysisStates
    <3> HIDE DEF after
    <3> QED
      BY <3>1, <3>3
  <2> HIDE DEF after
  <2> QED
    BY <1>7, <2>1, <2>2
<1>14. CASE Resolve(t) \/ VersionPrinted(t)
  <2>1. /\ analysis[t].at \in {"scan", "probe"} /\ analysis[t].leaks = {}
        /\ analysis[t].child \in {"none", "running", "exited"} /\ analysis[t] \in AnalysisStates
    BY <1>1, <1>14 DEF Resolve, VersionPrinted, Knows, AnalysisStates
  <2>2. \E place \in {"probe", "spawn", "rest"} :
          /\ analysis' = [analysis EXCEPT ![t] = [analysis[t] EXCEPT !.at = place]]
          /\ place = "rest" => analysis[t].body \in partial'
    BY <1>14 DEF Resolve, VersionPrinted
  <2>3. \A place \in {"probe", "spawn", "rest"} :
          after(place, analysis[t].child, {}) = [analysis[t] EXCEPT !.at = place]
    BY <2>1 DEF AnalysisStates
  <2> HIDE DEF after
  <2>4. PICK place \in {"probe", "spawn", "rest"} :
          /\ analysis' = [analysis EXCEPT ![t] = after(place, analysis[t].child, {})]
          /\ place = "rest" => analysis[t].body \in partial'
    BY <2>2, <2>3
  <2> QED
    BY <1>7, <2>1, <2>4
<1>9. CASE Reaped(t)
  <2>1. analysis[t].at \in {"wait", "join"} /\ analysis[t].leaks = {}
    BY <1>1, <1>9 DEF Reaped, Knows
  <2>2. \/ analysis' = [analysis EXCEPT ![t] = after("rest", "none", gitleaks_report(analysis[t].body))]
        \/ analysis' = [analysis EXCEPT ![t] = after("rest", "none", {})] /\ analysis[t].body \in partial'
    BY <1>1, <1>9, <2>1 DEF Reaped, AnalysisStates
  <2> HIDE DEF after
  <2> QED
    BY <1>5, <1>7, <2>1, <2>2
<1>10. CASE TimeoutKills(t)
  <2>1. analysis[t].at = "wait" /\ analysis[t].leaks = {}
    BY <1>1, <1>10 DEF TimeoutKills, Knows
  <2>2. analysis' = [analysis EXCEPT ![t] = after("rest", "none", {})] /\ analysis[t].body \in partial'
    BY <1>1, <1>10, <2>1 DEF TimeoutKills, AnalysisStates
  <2> HIDE DEF after
  <2> QED
    BY <1>7, <2>1, <2>2
<1>11. CASE WaitFails(t)
  <2>1. analysis[t].at = "wait" /\ analysis[t].leaks = {} /\ analysis[t].child \in {"none", "running", "exited"}
    BY <1>1, <1>11 DEF WaitFails, Knows, AnalysisStates
  <2>2. analysis' = [analysis EXCEPT ![t] = after("join", analysis[t].child, {})]
    BY <1>1, <1>11, <2>1 DEF WaitFails, AnalysisStates
  <2> HIDE DEF after
  <2> QED
    BY <1>7, <2>1, <2>2
<1> HIDE DEF after
<1>12. CASE GitleaksExits(t)
  <2> DEFINE r == [analysis[t] EXCEPT !.child = "exited"]
  <2>1. r = [at |-> analysis[t].at, body |-> analysis[t].body, child |-> "exited",
             leaks |-> analysis[t].leaks, result |-> analysis[t].result] /\ r \in AnalysisStates
    BY <1>1 DEF AnalysisStates
  <2>2. analysis' = [analysis EXCEPT ![t] = r] /\ partial' = partial
    BY <1>1, <1>12 DEF GitleaksExits
  <2>3. analysis'[t] = r
    BY <1>1, <2>2
  <2>4. Knows(t)'
    <3>1. /\ analysis'[t].at = analysis[t].at /\ analysis'[t].leaks = analysis[t].leaks
          /\ analysis'[t].body = analysis[t].body /\ analysis'[t].result = analysis[t].result
      BY <2>1, <2>3
    <3>2. /\ gitleaks_report(analysis[t].body)' = gitleaks_report(analysis[t].body)
          /\ In(GitleaksRules, analysis[t].body.text)' = In(GitleaksRules, analysis[t].body.text)
      BY <3>1 DEF gitleaks_report, capped_input, In
    <3>3. Fit(analysis[t].body, analysis[t].result, partial)' <=> Fit(analysis[t].body, analysis[t].result, partial)
      BY <2>2, <3>1
    <3> QED
      BY <1>1, <2>2, <3>1, <3>2, <3>3 DEF Knows
  <2> HIDE DEF r
  <2> QED
    BY <1>2, <1>3, <1>4, <2>1, <2>2, <2>4, OneThread
<1>13. CASE Returns(t)
  <2>1. analysis' = [analysis EXCEPT ![t] = IdleAnalysis] /\ analysis'[t] = IdleAnalysis
    BY <1>1, <1>13 DEF Returns
  <2>2. analysis'[t].at = "idle"
    BY <2>1 DEF IdleAnalysis
  <2>3. Knows(t)'
    BY <2>2 DEF Knows
  <2> QED
    BY <1>2, <1>3, <1>4, <2>1, <2>3, OneThread, IdleTyped
<1> QED
  BY <1>8, <1>9, <1>10, <1>11, <1>12, <1>13, <1>14

\* What is stored is right of the body it is stored under, and the cache keeps to its capacity.
LEMMA StoreKeeps == ASSUME LeakInv, NEW t \in Analysts, Store(t) PROVE LeakInv'
<1> DEFINE own == analysis[t].body
           found == analyze_uncached(own, analysis[t].leaks)
           kept == IF Len(scan_cache) >= ScanCacheCapacity THEN Tail(scan_cache) ELSE scan_cache
           r == [analysis[t] EXCEPT !.at = "done", !.result = found]
<1>1. /\ analysis \in [Analysts -> AnalysisStates] /\ Knows(t) /\ scan_cache \in Seq(Remembered)
      /\ CacheSound /\ CacheFits /\ ScanCacheCapacity \in Nat \ {0}
  BY LeakAssumption DEF LeakInv, LeakTyped, AnalysisStates
<1>2. /\ analysis' = [analysis EXCEPT ![t] = r] /\ UNCHANGED <<waitErrors, partial>>
      /\ scan_cache' = IF cached_analysis(own) # {} THEN scan_cache ELSE Append(kept, [body |-> own, result |-> found])
  BY <1>1 DEF Store
<1>3. own \in Bodies /\ found \in SUBSET Findable /\ Fit(own, found, partial)
  <2>1. own \in Bodies /\ analysis[t].at = "rest"
    BY <1>1 DEF AnalysisStates, Store
  <2> QED
    BY <1>1, <2>1, UncachedFits DEF Knows
<1>5. kept \in Seq(Remembered) /\ Len(kept) < ScanCacheCapacity
  <2>1. CASE Len(scan_cache) >= ScanCacheCapacity
    <3>1. scan_cache # <<>> /\ Len(scan_cache) <= ScanCacheCapacity
      BY <1>1, <2>1 DEF CacheSound
    <3> QED
      BY <1>1, <2>1, <3>1
  <2> QED
    BY <1>1, <2>1
<1>6. \A k \in 1..Len(kept) : \E i \in 1..Len(scan_cache) : kept[k] = scan_cache[i]
  BY <1>1
<1>7. \A i, k \in 1..Len(kept) : kept[i].body = kept[k].body => i = k
  BY <1>1 DEF CacheSound
<1>8. [body |-> own, result |-> found] \in Remembered
  BY <1>3 DEF Remembered
<1>9. r \in AnalysisStates /\ r.at = "done" /\ r.body = own /\ r.result = found
  BY <1>1, <1>3 DEF AnalysisStates
<1> HIDE DEF found, kept, r
<1>10. scan_cache' \in Seq(Remembered) /\ CacheSound' /\ CacheFits'
  <2> SUFFICES ASSUME cached_analysis(own) = {} PROVE scan_cache' \in Seq(Remembered) /\ CacheSound' /\ CacheFits'
    <3>1. CASE cached_analysis(own) # {}
      <4>1. scan_cache' = scan_cache
        BY <1>2, <3>1
      <4>2. CacheFits'
        BY <1>1, <1>2, <4>1 DEF CacheFits
      <4> QED
        BY <1>1, <4>1, <4>2 DEF CacheSound
    <3> QED
      BY <3>1
  <2> DEFINE new == [body |-> own, result |-> found]
  <2>1. scan_cache' = Append(kept, new) /\ new \in Remembered /\ new.body = own /\ new.result = found
    BY <1>2, <1>8
  <2>2. \A k \in 1..Len(kept) : kept[k].body # own /\ kept[k].body \in Bodies /\ Fit(kept[k].body, kept[k].result, partial)
    <3>1. ASSUME NEW i \in 1..Len(scan_cache) PROVE scan_cache[i].body # own /\ scan_cache[i].body \in Bodies
      <4>1. scan_cache[i] \in Remembered /\ scan_cache[i] \in ToSet(scan_cache)
        BY <1>1 DEF ToSet
      <4> QED
        BY <4>1 DEF cached_analysis, same_key, Remembered
    <3> QED
      BY <1>1, <1>6, <3>1 DEF CacheFits
  <2> HIDE DEF new
  <2>3. /\ scan_cache' \in Seq(Remembered) /\ Len(scan_cache') = Len(kept) + 1 /\ scan_cache'[Len(kept) + 1] = new
        /\ \A k \in 1..Len(kept) : scan_cache'[k] = kept[k]
        /\ \A k \in 1..(Len(kept) + 1) : k \in 1..Len(kept) \/ k = Len(kept) + 1
        /\ DOMAIN scan_cache' = 1..(Len(kept) + 1)
    BY <1>5, <2>1
  <2>4. CacheSound'
    <3>1. Len(scan_cache') <= ScanCacheCapacity
      BY <1>1, <1>5, <2>3
    <3>2. ASSUME NEW i \in 1..(Len(kept) + 1), NEW k \in 1..(Len(kept) + 1), scan_cache'[i].body = scan_cache'[k].body
          PROVE  i = k
      BY <1>7, <2>1, <2>2, <2>3, <3>2
    <3> QED
      BY <2>3, <3>1, <3>2 DEF CacheSound
  <2>5. CacheFits'
    <3>1. ASSUME NEW k \in 1..(Len(kept) + 1) PROVE Fit(scan_cache[k].body, scan_cache[k].result, partial)'
      <4>1. Fit(scan_cache'[k].body, scan_cache'[k].result, partial)
        BY <1>3, <2>1, <2>2, <2>3
      <4> QED
        BY <1>2, <4>1
    <3> QED
      BY <2>3, <3>1 DEF CacheFits
  <2> QED
    BY <2>3, <2>4, <2>5
<1>11. analysis'[t] = r
  BY <1>1, <1>2
<1>12. Knows(t)'
  <2>1. analysis'[t].at = "done" /\ analysis'[t].body = own /\ analysis'[t].result = found
    BY <1>9, <1>11
  <2>2. own \in Bodies /\ Fit(own, found, partial)
    BY <1>3
  <2> HIDE DEF own
  <2>3. Fit(analysis[t].body, analysis[t].result, partial)'
    BY <1>2, <2>1, <2>2
  <2> QED
    BY <2>1, <2>3 DEF Knows
<1>13. waitErrors' \in 0..MaxWaitErrors /\ partial \subseteq partial' /\ partial' \subseteq Bodies
  BY <1>2 DEF LeakInv, LeakTyped
<1> QED
  BY <1>2, <1>9, <1>10, <1>12, <1>13, OneThread

\* The invariant holds before the first analysis.
LEMMA LeakInitially == LeakInit => LeakInv
<1> SUFFICES ASSUME LeakInit PROVE LeakInv
  OBVIOUS
<1>1. analysis = [t \in Analysts |-> IdleAnalysis] /\ scan_cache = <<>> /\ waitErrors = 0 /\ partial = {}
  BY DEF LeakInit
<1>2. LeakTyped
  BY <1>1, IdleTyped, LeakAssumption DEF LeakTyped, AnalysisStates
<1>3. CacheSound /\ CacheFits
  BY <1>1, LeakAssumption DEF CacheSound, CacheFits
<1>4. ASSUME NEW t \in Analysts PROVE Knows(t)
  BY <1>1 DEF Knows, IdleAnalysis
<1> QED
  BY <1>2, <1>3, <1>4 DEF LeakInv

\* No step breaks it.
LEMMA LeakStep == LeakInv /\ [LeakNext]_leakVars => LeakInv'
<1> SUFFICES ASSUME LeakInv, [LeakNext]_leakVars PROVE LeakInv'
  OBVIOUS
<1>1. ASSUME NEW t \in Analysts, NEW b \in Bodies, Analyze(t, b) PROVE LeakInv'
  BY <1>1, AnalyzeKeeps
<1>2. ASSUME NEW t \in Analysts, AnalysisStep(t) \/ VersionPrinted(t) \/ GitleaksExits(t) \/ WaitFails(t) PROVE LeakInv'
  BY <1>2, GitleaksKeeps, StoreKeeps DEF AnalysisStep
<1>3. CASE UNCHANGED leakVars
  <2>1. UNCHANGED <<analysis, scan_cache, waitErrors, partial>>
    BY <1>3 DEF leakVars
  <2>2. CacheSound' /\ CacheFits' /\ LeakTyped'
    BY <2>1 DEF LeakInv, LeakTyped, CacheSound, CacheFits
  <2>3. ASSUME NEW t \in Analysts PROVE Knows(t)'
    BY <2>1 DEF LeakInv, Knows
  <2> QED
    BY <2>2, <2>3 DEF LeakInv
<1> QED
  BY <1>1, <1>2, <1>3 DEF LeakNext

\* It implies what is checked.
LEMMA LeakImplies == LeakInv => LeaksFound
<1> SUFFICES ASSUME LeakInv PROVE LeaksFound
  OBVIOUS
<1>1. LeakTypeOK
  <2>1. \A k \in DOMAIN scan_cache : scan_cache[k].body \in Bodies
    <3>1. ASSUME NEW k \in DOMAIN scan_cache PROVE scan_cache[k] \in Remembered
      BY DEF LeakInv, LeakTyped
    <3> QED
      BY <3>1 DEF Remembered
  <2>2. \A t \in Analysts : analysis[t] \in AnalysisStates
    BY DEF LeakInv, LeakTyped
  <2> QED
    BY <2>1, <2>2 DEF LeakInv, LeakTyped, LeakTypeOK, AnalysisStates
<1>2. AnswersOwnBody
  BY DEF LeakInv, Knows, Fit, AnswersOwnBody
<1> QED
  BY <1>1, <1>2 DEF LeakInv, LeaksFound

\* For every number of threads, all bodies, patterns and rules and every capacity: a body is in the cache
\* once and the cache keeps to its capacity, and what is answered of a body, by an analysis or from the
\* cache, is what that body holds: all that the patterns find, and what gitleaks finds in the part it is
\* given unless it failed for the body once (crates/analysis).
THEOREM LeaksAreFound == LeakSpec => []LeaksFound
BY LeakInitially, LeakStep, LeakImplies, PTL DEF LeakSpec

\* The steps an analysis may still take.
AnalysisLeft(t) ==
  CASE analysis[t].at = "scan" -> 7 [] analysis[t].at = "probe" -> 6 [] analysis[t].at = "spawn" -> 5 
    [] analysis[t].at = "wait" -> 4 [] analysis[t].at = "join" -> 3
    [] analysis[t].at = "rest" -> 2 [] analysis[t].at = "done" -> 1 [] OTHER -> 0

\* A thread's own steps take its analysis on, and nothing takes it back; a new one begins at its end.
AnalysesDescend ==
  \A t \in Analysts : /\ AnalysisStep(t) => AnalysisLeft(t)' < AnalysisLeft(t)
                      /\ AnalysisLeft(t)' > AnalysisLeft(t) => analysis[t].at = "idle"

\* An analysis has a bounded number of steps to take (the argument AnalysesEnd rests on): each step of its
\* thread leads on, and neither what the gitleaks processes do nor a failure to wait for one leads back.
\* Where the thread has to wait for a process, for its version or for its pipes, the process decides
\* whether there is a next step (gitleaks_scanner.rs:157, 115).
THEOREM AnalysesRunOut == LeakSpec => [](\A t \in Analysts : AnalysisLeft(t) \in 0..7) /\ [][AnalysesDescend]_leakVars
<1>1. \A t \in Analysts : AnalysisLeft(t) \in 0..7
  BY DEF AnalysisLeft
<1>2. LeakInv /\ [LeakNext]_leakVars => [AnalysesDescend]_leakVars
  <2> SUFFICES ASSUME LeakInv, LeakNext PROVE AnalysesDescend
    OBVIOUS
  <2>1. analysis \in [Analysts -> AnalysisStates] /\ IdleAnalysis \in AnalysisStates /\ IdleAnalysis.at = "idle"
    BY IdleTyped DEF LeakInv, LeakTyped, IdleAnalysis
  <2>2. ASSUME NEW u \in Analysts, AnalysisStep(u)
        PROVE  AnalysisLeft(u)' < AnalysisLeft(u) /\ \A t \in Analysts : t # u => analysis'[t] = analysis[t]
    <3>1. CASE Resolve(u) \/ Spawn(u)
      BY <2>1, <3>1 DEF Resolve, Spawn, AnalysisLeft, AnalysisStates
    <3>2. CASE Reaped(u) \/ TimeoutKills(u)
      BY <2>1, <3>2 DEF Reaped, TimeoutKills, AnalysisLeft, AnalysisStates
    <3>3. CASE Store(u)
      <4>1. PICK r : analysis[u].at = "rest" /\ analysis' = [analysis EXCEPT ![u].at = "done", ![u].result = r]
        BY <3>3 DEF Store
      <4> QED
        BY <2>1, <4>1 DEF AnalysisLeft, AnalysisStates
    <3>4. CASE Returns(u)
      BY <2>1, <3>4 DEF Returns, AnalysisLeft
    <3> QED
      BY <2>2, <3>1, <3>2, <3>3, <3>4 DEF AnalysisStep
  <2>3. ASSUME NEW u \in Analysts, NEW b \in Bodies, Analyze(u, b)
        PROVE  analysis[u].at = "idle" /\ \A t \in Analysts : t # u => analysis'[t] = analysis[t]
    BY <2>1, <2>3 DEF Analyze
  <2>4. ASSUME NEW u \in Analysts, GitleaksExits(u) \/ WaitFails(u) \/ VersionPrinted(u)
        PROVE  \A t \in Analysts : AnalysisLeft(t)' <= AnalysisLeft(t)
    <3>1. CASE GitleaksExits(u)
      <4>1. \A t \in Analysts : analysis'[t].at = analysis[t].at
        BY <2>1, <3>1 DEF GitleaksExits, AnalysisStates
      <4> QED
        BY <4>1 DEF AnalysisLeft
    <3>2. CASE WaitFails(u)
      <4>1. \A t \in Analysts : analysis'[t].at = analysis[t].at \/ (analysis[t].at = "wait" /\ analysis'[t].at = "join")
        BY <2>1, <3>2 DEF WaitFails, AnalysisStates
      <4> QED
        BY <4>1 DEF AnalysisLeft
    <3>3. CASE VersionPrinted(u)
      <4>1. \A t \in Analysts : analysis'[t].at = analysis[t].at \/ (analysis[t].at = "probe" /\ analysis'[t].at = "spawn")
        BY <2>1, <3>3 DEF VersionPrinted, AnalysisStates
      <4> QED
        BY <4>1 DEF AnalysisLeft
    <3> QED
      BY <2>4, <3>1, <3>2, <3>3
  <2> SUFFICES ASSUME NEW t \in Analysts, AnalysisLeft(t)' > AnalysisLeft(t) PROVE analysis[t].at = "idle"
    BY <2>2 DEF AnalysesDescend
  <2>5. analysis'[t] # analysis[t] /\ AnalysisLeft(t) \in 0..7 /\ AnalysisLeft(t)' \in 0..7
    BY DEF AnalysisLeft
  <2>6. PICK u \in Analysts : (\E b \in Bodies : Analyze(u, b)) \/ AnalysisStep(u) \/ VersionPrinted(u) \/ GitleaksExits(u) \/ WaitFails(u)
    BY DEF LeakNext
  <2>7. ~AnalysisStep(u) /\ ~VersionPrinted(u) /\ ~GitleaksExits(u) /\ ~WaitFails(u)
    BY <2>2, <2>4, <2>5
  <2>8. PICK b \in Bodies : Analyze(u, b)
    BY <2>6, <2>7
  <2> QED
    BY <2>3, <2>5, <2>8
<1> QED
  BY <1>1, <1>2, LeakInitially, LeakStep, PTL DEF LeakSpec
===============================================================================
