----------------------------- MODULE Lifecycle ------------------------------
(***************************************************************************)
(* The process from main (main.rs) to its exit: serve (server/mod.rs)      *)
(* builds the state, binds the listeners, spawns a task per server, waits  *)
(* for a signal, notifies the servers and joins them.                      *)
(*                                                                         *)
(* axum::serve runs the future that waits for the notification in a task   *)
(* of its own: a server accepts requests (Start) before that task has      *)
(* created its Notified future (Register), and Notify::notify_waiters      *)
(* reaches only the futures that exist.  Graceful shutdown closes the      *)
(* listener and ends when the requests in flight are answered.             *)
(*                                                                         *)
(* When main returns the runtime is dropped with all tasks.  Every action  *)
(* below therefore needs a process that has not exited.                    *)
(***************************************************************************)
EXTENDS Config

CONSTANTS
  Configs,          \* the configuration files that may be given
  MaxOpen           \* bound on the requests a server has in flight

ASSUME ConfigAssumption == \A c \in Configs : c \in Config
ASSUME MaxOpenAssumption == MaxOpen \in Nat

VARIABLES
  config,           \* the file the process is started with
  at,               \* where main and serve are
  bound,            \* the addresses whose listeners this process holds
  task,             \* the state of each server's task
  waiting, told,    \* servers whose Notified future exists; and was woken
  open              \* requests in flight in each server

vars == <<config, at, bound, task, waiting, told, open>>

Exits == {"exit_ok", "exit_err", "killed"}
Starting == {"load", "validate", "build", "bind_main", "bind_admin", "spawn",
             "bind_metrics", "install"}
Joining == {"join_main", "join_metrics", "join_admin"}

Alive == at \notin Exits

TypeOK ==
  /\ config \in Configs
  /\ at \in Starting \cup {"signal", "notify"} \cup Joining \cup Exits
  /\ bound \in SUBSET Addresses
  /\ task \in [Servers ->
                 {"none", "spawned", "serving", "draining", "ended", "failed"}]
  /\ waiting \in SUBSET Servers /\ told \in SUBSET Servers
  /\ open \in [Servers -> Nat]

Init ==
  /\ config \in Configs
  /\ at = "load"
  /\ bound = {}
  /\ task = [s \in Servers |-> "none"]
  /\ waiting = {} /\ told = {}
  /\ open = [s \in Servers |-> 0]

-----------------------------------------------------------------------------
(***************************************************************************)
(* main and serve.  Where the code has a "?", the process may exit.        *)
(***************************************************************************)
Go(next) == at' = next /\ UNCHANGED config
NoTask == UNCHANGED <<task, waiting, told, open>>

(* Config::load: the file cannot be read or parsed, or it can. *)
Load ==
  /\ at = "load"
  /\ \E next \in {"validate", "exit_err"} : Go(next)
  /\ NoTask /\ UNCHANGED bound

CheckConfig ==
  /\ at = "validate"
  /\ Go(IF Validate(config) THEN "build" ELSE "exit_err")
  /\ NoTask /\ UNCHANGED bound

(* build_state fails only if the key database cannot be opened. *)
BuildState ==
  /\ at = "build"
  /\ \E next \in {"bind_main"} \cup (IF config.auth THEN {"exit_err"} ELSE {}) :
       Go(next)
  /\ NoTask /\ UNCHANGED bound

(* TcpListener::bind, at the step of serve named here, in favour of s. *)
Binds(step, s) ==
  /\ at = step
  /\ config.bind[s] \notin bound
  /\ bound' = bound \cup {config.bind[s]}

(* The address is in use, here or elsewhere, or not allowed. *)
BindFails ==
  /\ at \in {"bind_main", "bind_admin"} \/ (at = "bind_metrics" /\ config.metrics)
  /\ Go("exit_err") /\ NoTask /\ UNCHANGED bound

BindMain  == Binds("bind_main", "main") /\ Go("bind_admin") /\ NoTask
BindAdmin == Binds("bind_admin", "admin") /\ Go("spawn") /\ NoTask

Spawn ==
  /\ at = "spawn"
  /\ task' = [task EXCEPT !["main"] = "spawned", !["admin"] = "spawned"]
  /\ Go("bind_metrics")
  /\ UNCHANGED <<bound, waiting, told, open>>

BindMetrics ==
  /\ config.metrics
  /\ Binds("bind_metrics", "metrics")
  /\ task' = [task EXCEPT !["metrics"] = "spawned"]
  /\ Go("install")
  /\ UNCHANGED <<waiting, told, open>>

(* Without metrics a task that ends at once stands in for the server. *)
NoMetrics ==
  /\ at = "bind_metrics" /\ ~config.metrics
  /\ task' = [task EXCEPT !["metrics"] = "ended"]
  /\ Go("install")
  /\ UNCHANGED <<bound, waiting, told, open>>

(* shutdown_signal installs its handlers when it is first polled... *)
Install == at = "install" /\ Go("signal") /\ NoTask /\ UNCHANGED bound

(* ...so that an earlier SIGINT or SIGTERM kills the process. *)
Signal ==
  /\ at \in Starting \cup {"signal"}
  /\ Go(IF at = "signal" THEN "notify" ELSE "killed")
  /\ NoTask /\ UNCHANGED bound

(* Mutant: notify_one. *)
NotifyOne ==
  /\ at = "notify"
  /\ \/ \E s \in waiting : told' = told \cup {s} /\ waiting' = waiting \ {s}
     \/ waiting = {} /\ UNCHANGED <<told, waiting>>
  /\ Go("join_main")
  /\ UNCHANGED <<bound, task, open>>

(* notify_waiters. *)
Notify ==
  /\ at = "notify"
  /\ told' = told \cup waiting /\ waiting' = {}
  /\ Go("join_main")
  /\ UNCHANGED <<bound, task, open>>

(* Mutant: the result of the task is dropped. *)
JoinIgnoringErrors(step, s, next) ==
  /\ at = step /\ task[s] \in {"ended", "failed"}
  /\ Go(next)
  /\ NoTask /\ UNCHANGED bound

(* handle.await?? *)
Join(step, s, next) ==
  /\ at = step /\ task[s] \in {"ended", "failed"}
  /\ Go(IF task[s] = "failed" THEN "exit_err" ELSE next)
  /\ NoTask /\ UNCHANGED bound

Joins ==
  \/ Join("join_main", "main", "join_metrics")
  \/ Join("join_metrics", "metrics", "join_admin")
  \/ Join("join_admin", "admin", "exit_ok")

Serve ==
  \/ Load \/ CheckConfig \/ BuildState
  \/ BindMain \/ BindAdmin \/ BindFails
  \/ Spawn \/ BindMetrics \/ NoMetrics \/ Install
  \/ Notify \/ Joins

-----------------------------------------------------------------------------
(***************************************************************************)
(* The server tasks.                                                       *)
(***************************************************************************)
Becomes(s, state) == task' = [task EXCEPT ![s] = state]

IsTls(s) == s = "main" /\ config.tls

Start(s) ==
  /\ Alive /\ task[s] = "spawned" /\ ~IsTls(s)
  /\ Becomes(s, "serving")
  /\ UNCHANGED <<config, at, bound, waiting, told, open>>

(* With TLS the task still owns the plain listener when it binds the same   *)
(* address again, which fails because of it, as an unreadable certificate   *)
(* does before.  The error is kept for whoever joins the task.              *)
StartTls ==
  LET addr == config.bind["main"] IN
  /\ Alive /\ task["main"] = "spawned" /\ IsTls("main")
  /\ Becomes("main", IF addr \in bound THEN "failed" ELSE "serving")
  /\ bound' = IF addr \in bound THEN bound \ {addr} ELSE bound \cup {addr}
  /\ UNCHANGED <<config, at, waiting, told, open>>

Register(s) ==
  /\ Alive /\ task[s] = "serving" /\ s \notin waiting \cup told
  /\ waiting' = waiting \cup {s}
  /\ UNCHANGED <<config, at, bound, task, told, open>>

Accept(s) ==
  /\ Alive /\ task[s] = "serving" /\ open[s] < MaxOpen
  /\ open' = [open EXCEPT ![s] = @ + 1]
  /\ UNCHANGED <<config, at, bound, task, waiting, told>>

Answer(s) ==
  /\ Alive /\ open[s] > 0
  /\ open' = [open EXCEPT ![s] = @ - 1]
  /\ UNCHANGED <<config, at, bound, task, waiting, told>>

(* The woken future tells the accept loop to stop... *)
Drain(s) ==
  /\ Alive /\ task[s] = "serving" /\ s \in told
  /\ Becomes(s, "draining")
  /\ bound' = bound \ {config.bind[s]}
  /\ UNCHANGED <<config, at, waiting, told, open>>

(* ...and the server ends when its connections have. *)
End(s) ==
  /\ Alive /\ task[s] = "draining" /\ open[s] = 0
  /\ Becomes(s, "ended")
  /\ UNCHANGED <<config, at, bound, waiting, told, open>>

Next ==
  \/ Serve \/ Signal \/ StartTls
  \/ \E s \in Servers :
       Start(s) \/ Register(s) \/ Accept(s) \/ Answer(s) \/ Drain(s) \/ End(s)

(* The runtime polls every task that is ready.  Nothing is promised about   *)
(* signals, clients and the time it takes to answer them.                   *)
Fairness ==
  /\ WF_vars(Serve) /\ WF_vars(StartTls)
  /\ \A s \in Servers :
       WF_vars(Start(s)) /\ WF_vars(Register(s)) /\ WF_vars(Drain(s)) /\ WF_vars(End(s))

Spec == Init /\ [][Next]_vars /\ Fairness

-----------------------------------------------------------------------------
(***************************************************************************)
(* While the main server takes requests, every method it may be asked for  *)
(* is routed to a pool that exists and has upstreams, all of positive      *)
(* weight: "Pool not configured" cannot be the answer, and round-robin has *)
(* slots to choose from.                                                   *)
(***************************************************************************)
RoutesReachAPool ==
  task["main"] = "serving" =>
    \A m \in Methods : \E i \in DOMAIN config.pools :
      /\ IsPool(config, Route(config, m), i)
      /\ config.pools[i].upstreams # <<>>
      /\ \A j \in DOMAIN config.pools[i].upstreams : config.pools[i].upstreams[j] > 0

(***************************************************************************)
(* Route is what a lookup in the map that Router::new builds gives: for    *)
(* rules that overlap the later one counts, others fall to the default.    *)
(***************************************************************************)
RoutesLikeTheTable ==
  at = "build" =>
    LET table == Tables(config)[Len(config.rules)] IN
    \A m \in Methods :
      Route(config, m) = IF m \in DOMAIN table THEN table[m] ELSE config.default_pool

(***************************************************************************)
(* The process reports success only if every server ran and ended in good  *)
(* order: no task failed, and no request that a server had accepted was    *)
(* dropped with the runtime.  In particular a main server that never came  *)
(* up because of TLS is not passed over in silence.                        *)
(***************************************************************************)
CleanExit ==
  at = "exit_ok" => \A s \in Servers : task[s] = "ended" /\ open[s] = 0

(* Servers that would not hear of the shutdown now: they run, but their     *)
(* Notified future does not exist yet.                                      *)
Deaf == {s \in Servers :
           task[s] \in {"spawned", "serving"} /\ ~IsTls(s) /\ s \notin waiting}

(***************************************************************************)
(* If every server is listening for the shutdown when serve is about to    *)
(* notify them, the process exits, whatever the servers were doing, unless *)
(* a client's request is never answered.                                   *)
(***************************************************************************)
StopsWhenTold ==
  (at = "notify" /\ Deaf = {}) ~> (~Alive \/ \E s \in Servers : [](open[s] > 0))

=============================================================================
