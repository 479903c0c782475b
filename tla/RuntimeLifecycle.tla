-------------------------- MODULE RuntimeLifecycle --------------------------
(***************************************************************************)
(* What the proxy's handlers and operators may rely on from the managed    *)
(* runtimes, without locks, timers, tasks or counters: a backend has at    *)
(* most one child, a request joins it only once it is warm, children come  *)
(* and go by themselves, and closing leaves none behind.                   *)
(***************************************************************************)
CONSTANTS Requests, Backends, NoBackend

VARIABLES
    child,      \* child[b]: "absent", "loading" or "warm"
    using,      \* using[r]: the backend a request is using, or NoBackend
    closed      \* the proxy has stopped its runtimes

lvars == <<child, using, closed>>

LInit ==
    /\ child = [b \in Backends |-> "absent"]
    /\ using = [r \in Requests |-> NoBackend]
    /\ closed = FALSE

\* A child is started only where there is none.
Launch(b) ==
    /\ ~closed /\ child[b] = "absent"
    /\ child' = [child EXCEPT ![b] = "loading"]
    /\ UNCHANGED <<using, closed>>

\* The request that started the child joins it as it becomes warm.  A child
\* that exits after its last poll is noticed by the request's upstream call.
Join(r, b) ==
    /\ ~closed /\ using[r] = NoBackend
    /\ using' = [using EXCEPT ![r] = b]
    /\ child' \in {child, [child EXCEPT ![b] = "warm"]}
    /\ child[b] = "absent" => child' = child
    /\ child'[b] # "loading"
    /\ UNCHANGED closed

Depart(r) ==
    /\ using[r] # NoBackend
    /\ using' = [using EXCEPT ![r] = NoBackend]
    /\ UNCHANGED <<child, closed>>

Gone(b) ==
    /\ child[b] # "absent"
    /\ child' = [child EXCEPT ![b] = "absent"]
    /\ UNCHANGED <<using, closed>>

Close ==
    /\ \A b \in Backends : child[b] = "absent"
    /\ \A r \in Requests : using[r] = NoBackend
    /\ closed' = TRUE
    /\ UNCHANGED <<child, using>>

LNext ==
    \/ \E b \in Backends : Launch(b) \/ Gone(b)
    \/ \E r \in Requests : Depart(r) \/ \E b \in Backends : Join(r, b)
    \/ Close

LSpec == LInit /\ [][LNext]_lvars
=============================================================================
