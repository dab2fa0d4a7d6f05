-------------------------------- MODULE AppProxy --------------------------------
(***************************************************************************)
(* apps/api-tester-server: how requests of the browser start and stop the  *)
(* proxy and change the configuration (backend.rs, state.rs, main.rs).     *)
(* Handlers run concurrently, on several threads; the mutex of the proxy   *)
(* orders some of them only, and a browser that disconnects drops the      *)
(* handler at its next await.  A configuration is [scope, other]: other    *)
(* stands for the security scope and the settings of the AI, some of which *)
(* the environment overrides whenever the file is read.  A file that is    *)
(* not there reads as the defaults.                                        *)
(***************************************************************************)
EXTENDS Naturals, FiniteSets

CONSTANTS Handlers,   \* handlers that may run at a time
          Settings,   \* values of one part of the configuration
          Broken,     \* a scope one of whose patterns does not compile
          Override,   \* the values the environment gives the other part: none or one
          Initial,    \* the value of both parts in the file at first
          MaxCalls    \* bound on the calls of a behaviour

ASSUME AppAssumption ==
  /\ IsFiniteSet(Handlers) /\ "none" \notin Handlers /\ MaxCalls \in Nat /\ Initial \in Settings
  /\ Broken \notin Settings /\ Override \subseteq Settings

VARIABLES proxyMutex,  \* handler that holds AppState::proxy locked, or "none"
          proxy,       \* the proxy installed, or 0
          listening,   \* proxies with a listener
          lost,        \* history: proxies whose accept loop ended by itself
          stopping,    \* proxies whose stop() is still running
          running,     \* proxy_running
          proxyScope,  \* per proxy: the scope it filters by
          proxyStore,  \* per proxy: the opening of the store its sessions use
          store,       \* the cached opening of the store, or 0
          openings,    \* openings so far
          memory,      \* AppState::config
          file,        \* what config.json reads as: {a configuration}, or {} when it is torn
          call,        \* per handler: what it does next, and what it has read
          calls,       \* calls and openings so far
          stops,       \* history: handlers past the mutex in stop_proxy
          overlapped,  \* history: one of those met another or an installation, or a handler was dropped
          racing,      \* history: two updates of the configuration overlapped
          edited,      \* history: the file was edited by hand, and neither read nor written since
          saved        \* history: the scope of every configuration read from or written to the file

poolVars    == <<store, openings>>
configVars  == <<memory, file, saved, edited, racing>>
proxyVars   == <<proxy, listening, lost, stopping, running, proxyScope, proxyStore, stops, overlapped>>
appVars     == <<proxyMutex, proxyVars, poolVars, configVars, call, calls>>

Proxies == 1..MaxCalls
Configs == [scope : Settings \cup {Broken}, other : Settings]
Start   == [scope |-> Initial, other |-> Initial]
Idle    == [at |-> "idle", cfg |-> Start, p |-> 0, st |-> 0]
Updates == {"scope_read", "scope_save", "scope_commit", "scope_swap", "other_read", "other_save",
            "other_commit", "load", "load_commit", "load_swap"}

\* ConfigLoader::load of a file that can be read.
loaded(cfg) == IF Override = {} THEN cfg ELSE [cfg EXCEPT !.other = CHOOSE v \in Override : TRUE]

AppInit ==
  /\ proxyMutex = "none" /\ proxy = 0 /\ listening = {} /\ lost = {} /\ stopping = {} /\ running = FALSE
  /\ proxyScope = [p \in Proxies |-> Initial] /\ proxyStore = [p \in Proxies |-> 0]
  /\ store = 0 /\ openings = 0 /\ memory = loaded(Start) /\ file = {Start}
  /\ call = [h \in Handlers |-> Idle] /\ calls = 0
  /\ stops = 0 /\ overlapped = FALSE /\ racing = FALSE /\ edited = FALSE /\ saved = {Initial}

At(h, step)   == call[h].at = step
Goto(h, step) == call' = [call EXCEPT ![h].at = step]
Return(h)     == call' = [call EXCEPT ![h] = Idle]
Lock(h)       == proxyMutex = "none" /\ proxyMutex' = h
Unlock(h)     == proxyMutex' = IF proxyMutex = h THEN "none" ELSE proxyMutex

\* A request reaches its handler.
Call(h, entry) ==
  /\ At(h, "idle") /\ calls < MaxCalls /\ calls' = calls + 1
  /\ Goto(h, entry)
  /\ racing' = (racing \/ (entry \in {"other_read", "load"} /\ \E g \in Handlers : call[g].at \in Updates))
  /\ UNCHANGED <<proxyMutex, proxyVars, poolVars, memory, file, saved, edited>>

-------------------------------------------------------------------------------
(* ensure_proxy_running, build_proxy *)

LockStart(h) ==
  /\ At(h, "start") /\ proxyMutex = "none"
  /\ IF running THEN Return(h) /\ UNCHANGED proxyMutex
     ELSE Goto(h, "build") /\ Lock(h)
  /\ UNCHANGED <<proxyVars, poolVars, configVars, calls>>

\* open_store: the cached store, or a new one.
opened(s) == IF s # 0 THEN s ELSE openings + 1

BuildStore(h) ==
  /\ At(h, "build")
  /\ \/ /\ store' = opened(store) /\ openings' = IF store = 0 THEN openings + 1 ELSE openings
        /\ call' = [call EXCEPT ![h] = [@ EXCEPT !.at = "configure", !.st = store']]
        /\ UNCHANGED proxyMutex
     \/ store = 0 /\ UNCHANGED poolVars /\ Return(h) /\ Unlock(h)
  /\ UNCHANGED <<proxyVars, configVars, calls>>

\* The configuration is read and the proxy built from it, or a part of it fails, as the
\* filter does of a pattern that does not compile.
Configure(h) ==
  /\ At(h, "configure")
  /\ \/ memory.scope # Broken /\ call' = [call EXCEPT ![h] = [@ EXCEPT !.at = "bind", !.cfg = memory]] /\ UNCHANGED proxyMutex
     \/ Return(h) /\ Unlock(h)
  /\ UNCHANGED <<proxyVars, poolVars, configVars, calls>>

\* proxy.start(): the port is free, or it is taken, be it by another program.  A message of
\* a database that is locked or read-only makes the store be opened anew.
Bind(h) ==
  /\ At(h, "bind")
  /\ \/ LET p == CHOOSE q \in Proxies : proxyStore[q] = 0 /\ \A r \in 1..(q - 1) : proxyStore[r] # 0 IN
        /\ listening = {} /\ listening' = {p} /\ proxyScope' = [proxyScope EXCEPT ![p] = call[h].cfg.scope]
        /\ proxyStore' = [proxyStore EXCEPT ![p] = call[h].st]
        /\ call' = [call EXCEPT ![h] = [@ EXCEPT !.at = "install", !.p = p]]
        /\ UNCHANGED <<store, proxyMutex>>
     \/ /\ store' \in {store, 0} /\ Return(h) /\ Unlock(h)
        /\ UNCHANGED <<listening, proxyScope, proxyStore>>
  /\ UNCHANGED <<proxy, lost, stopping, running, stops, overlapped, openings, configVars, calls>>

Install(h) ==
  /\ At(h, "install") /\ proxy' = call[h].p /\ running' = TRUE
  /\ Return(h) /\ Unlock(h) /\ overlapped' = (overlapped \/ stops > 0)
  /\ UNCHANGED <<listening, lost, stopping, proxyScope, proxyStore, stops, poolVars, configVars, calls>>

-------------------------------------------------------------------------------
(* stop_proxy *)

\* The proxy is taken out; its stop() is run by a task, the mutex held until it is over.
LockStop(h) ==
  /\ At(h, "stop") /\ proxyMutex = "none" /\ stops' = stops + 1
  /\ overlapped' = (overlapped \/ stops > 0)
  /\ IF proxy = 0 THEN Goto(h, "reset") /\ UNCHANGED <<proxyMutex, proxy, stopping>>
     ELSE /\ Lock(h) /\ proxy' = 0 /\ stopping' = stopping \cup {proxy}
          /\ call' = [call EXCEPT ![h] = [@ EXCEPT !.at = "drain", !.p = proxy]]
  /\ UNCHANGED <<listening, lost, running, proxyScope, proxyStore, poolVars, configVars, calls>>

\* bug: stop() itself waits for the mutex
ProxyStoppedBug ==
  /\ proxyMutex = "none"
  /\ \E p \in stopping : stopping' = stopping \ {p} /\ listening' = listening \ {p}
  /\ UNCHANGED <<proxyMutex, proxy, lost, running, proxyScope, proxyStore, stops, overlapped, poolVars,
                 configVars, call, calls>>

ProxyStopped ==
  /\ \E p \in stopping : stopping' = stopping \ {p} /\ listening' = listening \ {p}
  /\ UNCHANGED <<proxyMutex, proxy, lost, running, proxyScope, proxyStore, stops, overlapped, poolVars,
                 configVars, call, calls>>

\* accept() fails: the loop ends and drops the listener, and nobody is told.
ListenerLost ==
  /\ \E p \in listening : listening' = listening \ {p} /\ lost' = lost \cup {p}
  /\ UNCHANGED <<proxyMutex, proxy, stopping, running, proxyScope, proxyStore, stops, overlapped, poolVars,
                 configVars, call, calls>>

Drained(h) ==
  /\ At(h, "drain") /\ call[h].p \notin stopping /\ Goto(h, "reset") /\ Unlock(h)
  /\ UNCHANGED <<proxyVars, poolVars, configVars, calls>>

\* bug: the store stays open
ResetStoreBug(h) ==
  /\ At(h, "reset") /\ Goto(h, "clear") /\ UNCHANGED store
  /\ UNCHANGED <<proxyMutex, proxyVars, openings, configVars, calls>>

ResetStore(h) ==
  /\ At(h, "reset") /\ Goto(h, "clear") /\ store' = 0
  /\ UNCHANGED <<proxyMutex, proxyVars, openings, configVars, calls>>

ClearRunning(h) ==
  /\ At(h, "clear") /\ Return(h) /\ running' = FALSE /\ stops' = stops - 1
  /\ UNCHANGED <<proxyMutex, proxy, listening, lost, stopping, proxyScope, proxyStore, overlapped,
                 poolVars, configVars, calls>>

\* Any other handler, and the capture sink, opens the store when none is cached.
OpenElsewhere ==
  /\ store = 0 /\ calls < MaxCalls /\ calls' = calls + 1 /\ openings' = openings + 1 /\ store' = openings'
  /\ UNCHANGED <<proxyMutex, proxyVars, configVars, call>>

-------------------------------------------------------------------------------
(* update_scope; update_security_scope and update_ai_config; reload_config *)

\* bug: the proxy is looked up before the update, the mutex given back
LockScopeBug(h) ==
  /\ At(h, "scope") /\ proxyMutex = "none"
  /\ call' = [call EXCEPT ![h] = [@ EXCEPT !.at = "scope_read", !.p = proxy]]
  /\ racing' = (racing \/ \E g \in Handlers : call[g].at \in Updates)
  /\ UNCHANGED <<proxyMutex, proxyVars, poolVars, memory, file, saved, edited, calls>>

LockScope(h) ==
  /\ At(h, "scope") /\ Lock(h)
  /\ call' = [call EXCEPT ![h] = [@ EXCEPT !.at = "scope_read", !.p = proxy]]
  /\ racing' = (racing \/ \E g \in Handlers : call[g].at \in Updates)
  /\ UNCHANGED <<proxyVars, poolVars, memory, file, saved, edited, calls>>

\* The candidate: the configuration of the moment with one part replaced.  A scope that
\* does not compile is refused.
ReadConfig(h) ==
  /\ \/ /\ At(h, "scope_read")
        /\ \/ /\ UNCHANGED proxyMutex
              /\ \E v \in Settings : call' = [call EXCEPT ![h] = [@ EXCEPT !.at = "scope_save", !.cfg = [memory EXCEPT !.scope = v]]]
           \/ Return(h) /\ Unlock(h)
     \/ /\ At(h, "other_read") /\ UNCHANGED proxyMutex
        /\ \E v \in Settings : call' = [call EXCEPT ![h] = [@ EXCEPT !.at = "other_save", !.cfg = [memory EXCEPT !.other = v]]]
  /\ UNCHANGED <<proxyVars, poolVars, configVars, calls>>

\* ConfigLoader::save; a write that fails may leave the file in pieces.
SaveConfig(h) ==
  /\ At(h, "scope_save") \/ At(h, "other_save")
  /\ \/ /\ Goto(h, IF At(h, "scope_save") THEN "scope_commit" ELSE "other_commit")
        /\ file' = {call[h].cfg} /\ saved' = saved \cup {call[h].cfg.scope} /\ edited' = FALSE
        /\ UNCHANGED proxyMutex
     \/ /\ Return(h) /\ Unlock(h) /\ file' \in {file, {}} /\ UNCHANGED <<saved, edited>>
  /\ UNCHANGED <<proxyVars, poolVars, memory, racing, calls>>

CommitConfig(h) ==
  /\ memory' = call[h].cfg
  /\ \/ At(h, "scope_commit") /\ Goto(h, "scope_swap")
     \/ At(h, "other_commit") /\ Return(h)
  /\ UNCHANGED <<proxyMutex, proxyVars, poolVars, file, saved, edited, racing, calls>>

\* proxy.replace_scope
SwapScope(h) ==
  /\ At(h, "scope_swap") /\ Return(h) /\ Unlock(h)
  /\ proxyScope' = IF call[h].p = 0 THEN proxyScope ELSE [proxyScope EXCEPT ![call[h].p] = call[h].cfg.scope]
  /\ UNCHANGED <<proxy, listening, lost, stopping, running, proxyStore, stops, overlapped, poolVars, configVars, calls>>

\* What is read counts with what the environment overrides.
LoadConfig(h) ==
  /\ At(h, "load")
  /\ \/ file = {} /\ Return(h) /\ UNCHANGED <<saved, edited>>
     \/ /\ \E cfg \in file : /\ call' = [call EXCEPT ![h] = [@ EXCEPT !.at = "load_commit", !.cfg = loaded(cfg)]]
                             /\ saved' = saved \cup {cfg.scope}
        /\ edited' = FALSE
  /\ UNCHANGED <<proxyMutex, proxyVars, poolVars, memory, file, racing, calls>>

CommitLoaded(h) ==
  /\ At(h, "load_commit") /\ memory' = call[h].cfg /\ Goto(h, "load_swap")
  /\ UNCHANGED <<proxyMutex, proxyVars, poolVars, file, saved, edited, racing, calls>>

\* A scope that does not compile leaves the proxy on the one it has.
SwapLoaded(h) ==
  /\ At(h, "load_swap") /\ proxyMutex = "none" /\ Return(h)
  /\ proxyScope' = IF proxy = 0 \/ call[h].cfg.scope = Broken THEN proxyScope ELSE [proxyScope EXCEPT ![proxy] = call[h].cfg.scope]
  /\ UNCHANGED <<proxyMutex, proxy, listening, lost, stopping, running, proxyStore, stops, overlapped,
                 poolVars, configVars, calls>>

-------------------------------------------------------------------------------
(* The browser disconnects; the program ends and is started again *)

\* The handler is dropped where it awaits; what it has spawned runs on.
Awaiting == {"start", "build", "install", "stop", "drain", "reset", "clear", "scope", "load_swap"}
DropHandler(h) ==
  /\ call[h].at \in Awaiting /\ Return(h) /\ Unlock(h) /\ overlapped' = TRUE
  /\ stops' = IF call[h].at \in {"drain", "reset", "clear"} THEN stops - 1 ELSE stops
  /\ racing' = (racing \/ At(h, "load_swap"))
  /\ UNCHANGED <<proxy, listening, lost, stopping, running, proxyScope, proxyStore, poolVars, memory, file,
                 saved, edited, calls>>

\* Someone edits the file: what is in it is a configuration again, or nothing that can be read.
EditFile ==
  /\ calls < MaxCalls /\ calls' = calls + 1 /\ edited' = TRUE
  /\ file' = {} \/ \E cfg \in Configs : file' = {cfg}
  /\ UNCHANGED <<proxyMutex, proxyVars, poolVars, memory, saved, racing, call>>

\* main: a file that cannot be read keeps the program from starting.
Restart ==
  /\ calls < MaxCalls /\ calls' = calls + 1
  /\ \E cfg \in file : memory' = loaded(cfg) /\ saved' = saved \cup {cfg.scope}
  /\ racing' = FALSE /\ edited' = FALSE
  /\ proxyMutex' = "none" /\ proxy' = 0 /\ listening' = {} /\ stopping' = {} /\ running' = FALSE
  /\ store' = 0 /\ call' = [h \in Handlers |-> Idle] /\ stops' = 0 /\ overlapped' = FALSE
  /\ UNCHANGED <<lost, proxyScope, proxyStore, openings, file>>

StartStep(h)  == LockStart(h) \/ BuildStore(h) \/ Configure(h) \/ Bind(h) \/ Install(h)
StopStep(h)   == LockStop(h) \/ Drained(h) \/ ResetStore(h) \/ ClearRunning(h)
UpdateStep(h) == LockScope(h) \/ ReadConfig(h) \/ SaveConfig(h) \/ CommitConfig(h) \/ SwapScope(h)
ReloadStep(h) == LoadConfig(h) \/ CommitLoaded(h) \/ SwapLoaded(h)
HandlerStep(h) == StartStep(h) \/ StopStep(h) \/ UpdateStep(h) \/ ReloadStep(h)

AppNext ==
  \/ \E h \in Handlers : \/ \E entry \in {"start", "stop", "scope", "other_read", "load"} : Call(h, entry)
                         \/ HandlerStep(h) \/ DropHandler(h)
  \/ ProxyStopped \/ ListenerLost \/ OpenElsewhere \/ EditFile \/ Restart

AppSpec == AppInit /\ [][AppNext]_appVars

\* tokio polls each handler and grants a mutex in the order of the requests for it;
\* stop() gives up waiting after DRAIN_TIMEOUT.
AppFairness == WF_appVars(ProxyStopped) /\ \A h \in Handlers : SF_appVars(HandlerStep(h))
AppFairSpec == AppSpec /\ AppFairness

-------------------------------------------------------------------------------
(* Properties *)

AppTypeOK ==
  /\ proxyMutex \in Handlers \cup {"none"} /\ proxy \in Proxies \cup {0} /\ running \in BOOLEAN
  /\ listening \subseteq Proxies /\ stopping \subseteq Proxies /\ memory \in Configs
  /\ file \subseteq Configs /\ saved \subseteq Settings \cup {Broken} /\ store \in 0..openings
  /\ proxyScope \in [Proxies -> Settings]
  /\ stops \in 0..Cardinality(Handlers) /\ \A h \in Handlers : call[h].cfg \in Configs

\* backend.rs:633, "an update cannot miss it": unless two updates of the configuration
\* overlapped, an installed proxy filters by the scope in memory whenever no handler is
\* about to give it that, and the scope compiles.
ScopeReachesProxy ==
  ~racing /\ proxy # 0 /\ memory.scope # Broken /\ (\A h \in Handlers : call[h].at \notin {"scope_swap", "load_swap"})
    => proxyScope[proxy] = memory.scope

\* backend.rs:637, "a failed write never leaves in-memory scope ahead of disk": the scope in
\* memory was in the file.
MemoryWasSaved == memory.scope \in saved

\* When no update is under way and none overlapped, what is in memory is what the file has,
\* or what reading it gave, unless the file was edited since.
FileInStep ==
  ~racing /\ ~edited /\ (\A h \in Handlers : call[h].at \notin Updates)
    => \A cfg \in file : memory = cfg \/ memory = loaded(cfg)

\* Unless a stop met another stop or an installation, or a handler was dropped, the flag the
\* dashboard shows and the next start goes by says whether a proxy is installed, and nothing
\* listens besides; the proxy itself does unless its accept loop has ended by itself.
FlagInStep ==
  ~overlapped /\ proxyMutex = "none" /\ stops = 0 =>
    /\ running <=> proxy # 0
    /\ listening = {proxy} \ (lost \cup {0})

\* backend.rs:253, "Reopen SQLite on the next start": likewise, the proxy installed uses
\* an opening of the store that no proxy before it used.
FreshStore ==
  ~overlapped /\ proxy # 0 => \A p \in Proxies \ {proxy} : proxyStore[p] # proxyStore[proxy]

\* Whatever overlaps, no stop takes the listener from a proxy that is installed: it is lost
\* when accept() fails, and only then.
InstalledListens == proxy # 0 => proxy \in listening \cup lost

\* Every handler returns: the mutex of the proxy is always given back.
HandlersReturn == <>[](\A h \in Handlers : At(h, "idle"))

\* Configuration in memory, in the file and in the running proxy follow each other.
ConfigInStep == AppTypeOK /\ ScopeReachesProxy /\ MemoryWasSaved /\ FileInStep

\* What the dashboard says of the proxy, what is installed, what listens and what it
\* stores to agree.
ProxyInStep == FlagInStep /\ FreshStore /\ InstalledListens
===============================================================================
