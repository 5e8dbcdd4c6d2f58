------------------------ MODULE VerificationRequest ------------------------
(***************************************************************************)
(* What a caller of verifyReceipt and verifyCheckpoint is promised: one    *)
(* verdict, which is that of the synchronous verifier for the objects as   *)
(* they were at the call and for one instant between the call and the      *)
(* answer.                                                                 *)
(***************************************************************************)
EXTENDS Integers

CONSTANTS
  Objects,            \* what the caller's objects may hold
  StartNow, MaxNow,   \* the bounds of the clock
  Outcome(_, _)       \* the synchronous verdict on unchanging objects at an instant

Pending == "pending"
NoCall  == [clock |-> StartNow, objects |-> {}]

VARIABLES
  called,    \* the objects at the call, in a set of one, and the clock then
  clock,
  verdict

requestVars == << called, clock, verdict >>

RequestInit ==
  /\ called = NoCall
  /\ clock = StartNow
  /\ verdict = Pending

Request(objects) ==
  /\ called = NoCall
  /\ called' = [clock |-> clock, objects |-> {objects}]
  /\ UNCHANGED clock
  /\ \/ UNCHANGED verdict
     \/ verdict' = Outcome(objects, clock)

Answer ==
  /\ verdict = Pending
  /\ \E o \in called.objects, t \in called.clock .. clock : verdict' = Outcome(o, t)
  /\ UNCHANGED << called, clock >>

ClockTicks ==
  /\ clock < MaxNow
  /\ clock' = clock + 1
  /\ UNCHANGED << called, verdict >>

RequestNext ==
  \/ \E objects \in Objects : Request(objects)
  \/ Answer
  \/ ClockTicks

RequestSpec == RequestInit /\ [][RequestNext]_requestVars
=============================================================================
