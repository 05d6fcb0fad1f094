------------------------------ MODULE IdleModel ------------------------------
(***************************************************************************)
(* The holder of a model that is loaded when it is first used and released *)
(* when it has not been used for MODEL_IDLE_SECONDS (idle_model.py); the   *)
(* embedding model and the reranker are held by one each.  One lock covers *)
(* loading, use and release.  The timer is a thread of its own: when its   *)
(* delay is over it waits for the lock like everyone else, and may wait    *)
(* while others use the model.                                             *)
(***************************************************************************)
EXTENDS Naturals

CONSTANTS
    User,         \* threads that use the model
    IdleSeconds,  \* model_idle_seconds; 0: it is never released
    NoUser

ASSUME UserAssumption == NoUser \notin User
ASSUME IdleAssumption == IdleSeconds \in Nat /\ NoUser \notin Nat

VARIABLES
    loaded,  \* there is a model in memory
    holder,  \* the thread that has the lock, or NoUser
    using,   \* the holder has the model and works with it
    timer,   \* the delay that is left of the timer, or NoUser
    idle     \* seconds since the last use ended, as far as they matter

idleVars == <<loaded, holder, using, timer, idle>>

IdleInit ==
    /\ loaded = FALSE /\ holder = NoUser /\ using = FALSE
    /\ timer = NoUser
    /\ idle = IdleSeconds

\* use() takes the lock.
Enter(u) ==
    /\ holder = NoUser
    /\ holder' = u
    /\ using' = loaded
    /\ UNCHANGED <<loaded, timer, idle>>

Load(u) ==
    /\ holder = u /\ ~using
    /\ loaded' = TRUE /\ using' = TRUE
    /\ UNCHANGED <<holder, timer, idle>>

\* The load raises: neither the time of use nor the timer is touched.
LoadFails(u) ==
    /\ holder = u /\ ~using
    /\ holder' = NoUser
    /\ UNCHANGED <<loaded, using, timer, idle>>

\* _arm.
Armed(t) == IF IdleSeconds = 0 THEN NoUser ELSE t

\* The use ends, with or without an error. A timer that is armed stays as
\* it is: it will find out that it is early.
Leave(u) ==
    /\ holder = u /\ using
    /\ holder' = NoUser /\ using' = FALSE
    /\ idle' = 0
    /\ timer' = IF timer = NoUser THEN Armed(IdleSeconds) ELSE timer
    /\ UNCHANGED loaded

Remaining == IdleSeconds - idle

\* Mutant of Expire: a timer that comes early is not armed again.
ExpireOnce ==
    /\ timer = 0 /\ holder = NoUser
    /\ timer' = NoUser
    /\ loaded' = (loaded /\ Remaining > 0)
    /\ UNCHANGED <<holder, using, idle>>

\* _expire has the lock.
Expire ==
    /\ timer = 0 /\ holder = NoUser
    /\ IF Remaining > 0
       THEN timer' = Armed(Remaining) /\ UNCHANGED loaded
       ELSE timer' = NoUser /\ loaded' = FALSE
    /\ UNCHANGED <<holder, using, idle>>

\* A second passes.
Tick ==
    /\ idle' = IF idle < IdleSeconds THEN idle + 1 ELSE idle
    /\ timer' = IF timer # NoUser /\ timer > 0 THEN timer - 1 ELSE timer
    /\ idle' # idle \/ timer' # timer
    /\ UNCHANGED <<loaded, holder, using>>

IdleNext ==
    \/ \E u \in User : Enter(u) \/ Load(u) \/ LoadFails(u) \/ Leave(u)
    \/ Expire \/ Tick

IdleSpec == IdleInit /\ [][IdleNext]_idleVars

\* Time passes, a use ends, and the timer gets the lock in the end: an idle
\* timer has no deadline, but no one takes the lock again and again for good.
IdleFairSpec ==
    /\ IdleSpec
    /\ WF_idleVars(Tick) /\ SF_idleVars(Expire)
    /\ \A u \in User : WF_idleVars(Load(u) \/ Leave(u))

-----------------------------------------------------------------------------
IdleTypeOK ==
    /\ loaded \in BOOLEAN /\ using \in BOOLEAN
    /\ holder \in User \cup {NoUser}
    /\ timer \in (0 .. IdleSeconds) \cup {NoUser}
    /\ idle \in 0 .. IdleSeconds

\* No model stays in memory that is not used any more, although the timer of an
\* earlier use may come due early, or while the model is in use.
IdleFreed == IdleSeconds > 0 => []<>(~loaded \/ holder # NoUser)
=============================================================================
