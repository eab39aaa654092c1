------------------------------- MODULE PbftTimer -------------------------------
(***************************************************************************)
(* The view-change timer of one pbftCore: a Go timer, whose expiries go    *)
(* through a channel of capacity one, the thread that reads the channel    *)
(* and then waits for the lock, and the handlers that start and stop the   *)
(* timer under the lock meanwhile.  Two counters tell the thread whether   *)
(* the expiry that it holds is out of date.                                *)
(***************************************************************************)
EXTENDS Integers

CONSTANTS
    Prompt,      \* whether the thread always reads an expiry before the timer expires again
    MaxResets    \* bound: the timer is not started again after so many resets

ASSUME TimerAssumption == Prompt \in BOOLEAN /\ MaxResets \in Nat

VARIABLES
    running,     \* newViewTimer is running
    C,           \* the number of expiries in its channel
    handling,    \* the thread holds an expiry and waits for the lock
    timerActive,
    timerResetCount,
    timerExpiredCount

vars == <<running, C, handling, timerActive, timerResetCount, timerExpiredCount>>

Init ==
    /\ running = FALSE /\ C = 0 /\ handling = FALSE /\ timerActive = FALSE
    /\ timerResetCount = 1 /\ timerExpiredCount = 0

-----------------------------------------------------------------------------
\* Reset and Stop of the Go timer return FALSE when it is not running; with
\* timerActive this means that it has expired.
Expired == timerActive /\ ~running

\* Does not count.
countResetNever == timerResetCount

countReset == timerResetCount + (IF Expired THEN 1 ELSE 0)

startTimer ==
    /\ timerResetCount' = countReset
    /\ running' = TRUE /\ timerActive' = TRUE

\* Clears timerActive but does not stop the timer.
stopTimerRunsOn ==
    /\ timerResetCount' = countReset
    /\ timerActive' = FALSE /\ UNCHANGED running

stopTimer ==
    /\ timerResetCount' = countReset
    /\ running' = FALSE /\ timerActive' = FALSE

\* The timer expires.  The runtime does not wait for room in the channel: an expiry
\* that finds it full is dropped.
Fire ==
    /\ running /\ (Prompt => C = 0)
    /\ running' = FALSE /\ C' = 1
    /\ UNCHANGED <<handling, timerActive, timerResetCount, timerExpiredCount>>

\* A handler starts the timer: recvRequest and recvPrePrepare when it is not active,
\* executeOne and recvViewChange whether it is or not.
Start ==
    /\ timerResetCount < MaxResets
    /\ startTimer
    /\ UNCHANGED <<C, handling, timerExpiredCount>>

\* executeOne stops it, and so does sendViewChange when f+1 others change view.
Stop ==
    /\ timerResetCount < MaxResets
    /\ stopTimer
    /\ UNCHANGED <<C, handling, timerExpiredCount>>

\* timerHander takes an expiry, and waits for the lock...
Wake ==
    /\ ~handling /\ C > 0
    /\ handling' = TRUE /\ C' = C - 1
    /\ timerExpiredCount' = timerExpiredCount + 1
    /\ UNCHANGED <<running, timerActive, timerResetCount>>

\* Off by one: also out of date when the counts are equal.
outdatedEqual == timerResetCount >= timerExpiredCount

outdated == timerResetCount > timerExpiredCount

\* ...has it, and does nothing because the timer was reset meanwhile...
Suppress ==
    /\ handling /\ outdated
    /\ handling' = FALSE
    /\ UNCHANGED <<running, C, timerActive, timerResetCount, timerExpiredCount>>

\* ...or sends a view-change, which stops the timer.  If that completes a quorum for
\* the new view, the timer, which is inactive by then, is started for it.
ViewChange ==
    /\ handling /\ ~outdated
    /\ handling' = FALSE
    /\ stopTimer \/ (timerResetCount < MaxResets /\ startTimer)
    /\ UNCHANGED <<C, timerExpiredCount>>

Handler == Wake \/ Suppress \/ ViewChange

Next == Fire \/ Start \/ Stop \/ Handler

Spec == Init /\ [][Next]_vars

\* The thread is scheduled, and gets the lock.
FairSpec == Spec /\ WF_vars(Handler)

-----------------------------------------------------------------------------
(* Properties. *)

\* The state stays within its types, the channel within its capacity, and only an
\* active timer runs.
TypeOK ==
    /\ running \in BOOLEAN /\ handling \in BOOLEAN /\ timerActive \in BOOLEAN
    /\ C \in 0 .. 1 /\ timerResetCount \in Nat /\ timerExpiredCount \in Nat
    /\ running => timerActive

\* An expiry makes the replica change view only if the timer has not been started
\* or stopped since it expired: the race that timerHander's comment describes.
NoStaleViewChange == [][ViewChange => Expired]_vars

\* Once the timer has expired the replica changes view, or another handler starts or
\* stops the timer.
ExpiryActs == Expired ~> ~Expired

=============================================================================
