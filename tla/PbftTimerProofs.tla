--------------------------- MODULE PbftTimerProofs ---------------------------
(***************************************************************************)
(* PbftTimer: type correctness, and that no out-of-date expiry changes the *)
(* view, for every history of starts, stops and expiries, dropped expiries *)
(* included.                                                               *)
(***************************************************************************)
EXTENDS PbftTimer, TLAPS

\* The two halves of TypeOK: one for each kind of reasoning.
Flags == /\ running \in BOOLEAN /\ handling \in BOOLEAN /\ timerActive \in BOOLEAN
         /\ running => timerActive
Counts == C \in 0 .. 1 /\ timerResetCount \in Nat /\ timerExpiredCount \in Nat

\* The expiries that the reset count is ahead of, once those in the channel are read.
Lead == timerResetCount - timerExpiredCount - C

\* The inductive invariant: the reset count is never behind, and it is ahead by one
\* unless the timer has expired and nothing has reset it.
Inv == Flags /\ Counts /\ Lead >= 0 /\ (Expired \/ Lead >= 1)

\* newPbftCore sets the counts one apart.
LEMMA InitInv == Init => Inv
<1> SUFFICES ASSUME Init PROVE Inv
  OBVIOUS
<1>1. Flags
  BY Zenon DEF Init, Flags
<1>2. Counts /\ Lead = 1
  BY DEF Init, Lead, Counts
<1>3. Lead >= 0 /\ Lead >= 1
  BY <1>2
<1>4. QED
  BY <1>1, <1>2, <1>3, Zenon DEF Inv

\* startTimer and stopTimer count a reset if the timer has expired, and so leave the
\* count ahead.
LEMMA ResetLead ==
  ASSUME Inv, timerResetCount' = countReset, UNCHANGED <<C, timerExpiredCount>>
  PROVE  Counts' /\ Lead' >= 0 /\ Lead' >= 1
<1>1. CASE Expired
  BY <1>1 DEF Inv, Counts, Lead, countReset
<1>2. CASE ~Expired
  BY <1>2 DEF Inv, Counts, Lead, countReset
<1>3. QED
  BY <1>1, <1>2

\* Every step of the timer, of the handlers and of the thread keeps the lead.
LEMMA NextInv == Inv /\ [Next]_vars => Inv'
<1> SUFFICES ASSUME Inv, [Next]_vars PROVE Inv'
  OBVIOUS
<1>1. CASE Fire
  <2>1. Flags' /\ Expired'
    BY <1>1, Zenon DEF Fire, Inv, Flags, Expired
  <2>2. Lead >= 1
    BY <1>1, Zenon DEF Fire, Inv, Expired
  <2>3. Counts' /\ Lead' >= 0
    BY <1>1, <2>2 DEF Fire, Inv, Counts, Lead
  <2>4. QED
    BY <2>1, <2>3, Zenon DEF Inv
<1>2. CASE Start
  <2>1. Flags'
    BY <1>2, Zenon DEF Start, startTimer, Inv, Flags
  <2>2. Counts' /\ Lead' >= 0 /\ Lead' >= 1
    BY <1>2, ResetLead, Zenon DEF Start, startTimer
  <2>3. QED
    BY <2>1, <2>2, Zenon DEF Inv
<1>3. CASE Stop
  <2>1. Flags'
    BY <1>3, Zenon DEF Stop, stopTimer, Inv, Flags
  <2>2. Counts' /\ Lead' >= 0 /\ Lead' >= 1
    BY <1>3, ResetLead, Zenon DEF Stop, stopTimer
  <2>3. QED
    BY <2>1, <2>2, Zenon DEF Inv
<1>4. CASE Wake
  <2>1. Flags' /\ (Expired' <=> Expired)
    BY <1>4, Zenon DEF Wake, Inv, Flags, Expired
  <2>2. Counts' /\ Lead' = Lead
    BY <1>4 DEF Wake, Inv, Counts, Lead
  <2>3. QED
    BY <2>1, <2>2, Zenon DEF Inv
<1>5. CASE Suppress
  BY <1>5, Zenon DEF Suppress, Inv, Flags, Counts, Lead, Expired
<1>6. CASE ViewChange
  <2>1. Flags'
    BY <1>6, Zenon DEF ViewChange, startTimer, stopTimer, Inv, Flags
  <2>2. Counts' /\ Lead' >= 0 /\ Lead' >= 1
    BY <1>6, ResetLead, Zenon DEF ViewChange, startTimer, stopTimer
  <2>3. QED
    BY <2>1, <2>2, Zenon DEF Inv
<1>7. CASE UNCHANGED vars
  BY <1>7, Zenon DEF vars, Inv, Flags, Counts, Lead, Expired
<1>8. QED
  BY <1>1, <1>2, <1>3, <1>4, <1>5, <1>6, <1>7 DEF Next, Handler

\* The timer and its channel stay within their types: timerHander, startTimer and
\* stopTimer keep a running timer active.
THEOREM TypeCorrect == Spec => []TypeOK
<1>1. Inv => TypeOK
  BY Zenon DEF Inv, Flags, Counts, TypeOK
<1>2. QED
  BY InitInv, NextInv, <1>1, PTL DEF Spec

\* An expiry that was overtaken by a start or a stop never changes the view: when
\* timerHander finds the counts equal, the lead is zero.
THEOREM StaleExpirySuppressed == Spec => NoStaleViewChange
<1>1. Inv /\ ViewChange => Expired
  BY DEF Inv, Counts, Lead, ViewChange, outdated
<1>2. Inv /\ [Next]_vars => [ViewChange => Expired]_vars
  BY <1>1
<1>3. QED
  BY InitInv, NextInv, <1>2, PTL DEF Spec, NoStaleViewChange
=============================================================================
