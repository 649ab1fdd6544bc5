---------------------------- MODULE FallScheduler ----------------------------
(***************************************************************************)
(* _GlobalFallScheduler (vstorage/chunked_secure_box.py): a few worker     *)
(* threads share one heap of boxes ordered by the time of their next hop.  *)
(*                                                                         *)
(* The heap is ordered by (due time, sequence number).  Entries whose time *)
(* has come leave it first in, first out, because a push stamps them with  *)
(* the current time; the others become due one by one as time passes.  So  *)
(* the heap is a queue of due entries and a set of entries not due yet.    *)
(* A hop is one step here; ChunkedSecureBox shows what happens inside it.  *)
(***************************************************************************)
EXTENDS Naturals, Sequences, FiniteSets

CONSTANTS
    Boxes,    \* the boxes of the process
    Workers,  \* the pool of threads
    Paced,    \* boxes with hop_interval > 0
    Stuck,    \* boxes whose lock may be held for ever (a fetch that hangs)
    Fallible, \* boxes a hop of which may raise
    NoBox     \* no entry in a worker's hands

ASSUME FallAssumption ==
    /\ Paced \subseteq Boxes /\ Stuck \subseteq Boxes /\ Fallible \subseteq Boxes
    /\ NoBox \notin Boxes

VARIABLES
    due,          \* due entries of self._heap, in heap order
    pending,      \* entries of self._heap that are not due yet
    wakeup,       \* self._wakeup
    wpc,          \* where each worker is in _run
    job,          \* the box each worker has popped
    delay,        \* does the worker push its box back with a delay?
    known,        \* boxes that have been registered
    removedBoxes, \* boxes whose _removed is set
    raised,       \* boxes dropped because a hop raised
    reading,      \* a caller's progress on each box: pause flag, then lock
    hops          \* parity of each box's hop counter

heap     == <<due, pending>>
callers  == <<known, removedBoxes, reading>>
fallVars == <<heap, wakeup, wpc, job, delay, raised, callers, hops>>

WorkerPC == {"peek", "wait", "take", "got", "push"}
Reading  == {"no", "paused", "locked", "leaving"}

FallTypeOK ==
    /\ due \in Seq(Boxes)
    /\ pending \subseteq Boxes
    /\ wakeup \in BOOLEAN
    /\ wpc \in [Workers -> WorkerPC]
    /\ job \in [Workers -> Boxes \cup {NoBox}]
    /\ delay \in [Workers -> BOOLEAN]
    /\ known \subseteq Boxes /\ removedBoxes \subseteq known /\ raised \subseteq known
    /\ reading \in [Boxes -> Reading]
    /\ hops \in [Boxes -> {0, 1}]

FallInit ==
    /\ due = <<>> /\ pending = {} /\ wakeup = FALSE
    /\ wpc = [w \in Workers |-> "peek"]
    /\ job = [w \in Workers |-> NoBox]
    /\ delay = [w \in Workers |-> FALSE]
    /\ known = {} /\ removedBoxes = {} /\ raised = {}
    /\ reading = [b \in Boxes |-> "no"]
    /\ hops = [b \in Boxes |-> 0]

-----------------------------------------------------------------------------
(* A worker's loop.                                                        *)

Goto(w, label) == wpc' = [wpc EXCEPT ![w] = label]

\* Look at the top of the heap, then let go of the scheduler's lock.
Peek(w) ==
    /\ wpc[w] = "peek"
    /\ Goto(w, IF due = <<>> THEN "wait" ELSE "take")
    /\ UNCHANGED <<heap, wakeup, job, delay, raised, callers, hops>>

\* self._wakeup.wait(...) returns because the event is set; it is cleared.
WakeByEvent(w) ==
    /\ wpc[w] = "wait" /\ wakeup
    /\ wakeup' = FALSE
    /\ Goto(w, "peek")
    /\ UNCHANGED <<heap, job, delay, raised, callers, hops>>

\* Mutant of WakeByTimeout: wait() without a timeout.
NoTimeout(w) == FALSE /\ UNCHANGED fallVars

\* It returns after 10 or 50 ms; clear() also wipes out an event set by now.
WakeByTimeout(w) ==
    /\ wpc[w] = "wait"
    /\ wakeup' = FALSE
    /\ Goto(w, "peek")
    /\ UNCHANGED <<heap, job, delay, raised, callers, hops>>

\* Mutant of Take: the worker trusts its peek and takes what was on top
\* without taking it off the heap.
TakeWithoutPop(w) ==
    /\ wpc[w] = "take"
    /\ IF due = <<>>
       THEN Goto(w, "peek") /\ UNCHANGED job
       ELSE Goto(w, "got") /\ job' = [job EXCEPT ![w] = Head(due)]
    /\ UNCHANGED <<heap, wakeup, delay, raised, callers, hops>>

\* Re-check under the lock, because another worker may have been faster, and
\* pop what is due now.
Take(w) ==
    /\ wpc[w] = "take"
    /\ IF due = <<>>
       THEN Goto(w, "peek") /\ UNCHANGED <<due, job>>
       ELSE /\ Goto(w, "got")
            /\ job' = [job EXCEPT ![w] = Head(due)]
            /\ due' = Tail(due)
    /\ UNCHANGED <<pending, wakeup, delay, raised, callers, hops>>

\* The worker has the box's lock.
Holds(w) == wpc[w] = "got" /\ reading[job[w]] # "locked"

DropRemoved(w) ==
    /\ Holds(w) /\ job[w] \in removedBoxes
    /\ job' = [job EXCEPT ![w] = NoBox]
    /\ Goto(w, "peek")
    /\ UNCHANGED <<heap, wakeup, delay, raised, callers, hops>>

Postpone(w) ==
    /\ Holds(w) /\ job[w] \notin removedBoxes /\ reading[job[w]] # "no"
    /\ delay' = [delay EXCEPT ![w] = TRUE]
    /\ Goto(w, "push")
    /\ UNCHANGED <<heap, wakeup, job, raised, callers, hops>>

Hop(w) ==
    /\ Holds(w) /\ job[w] \notin removedBoxes /\ reading[job[w]] = "no"
    /\ hops' = [hops EXCEPT ![job[w]] = 1 - @]
    /\ delay' = [delay EXCEPT ![w] = job[w] \in Paced]
    /\ Goto(w, "push")
    /\ UNCHANGED <<heap, wakeup, job, raised, callers>>

\* _do_one_hop_locked raised: the box is dropped, the worker lives on.
HopFails(w) ==
    /\ Holds(w) /\ job[w] \notin removedBoxes /\ reading[job[w]] = "no"
    /\ job[w] \in Fallible
    /\ raised' = raised \cup {job[w]}
    /\ job' = [job EXCEPT ![w] = NoBox]
    /\ Goto(w, "peek")
    /\ UNCHANGED <<heap, wakeup, delay, callers, hops>>

Push(w) ==
    /\ wpc[w] = "push"
    /\ IF delay[w]
       THEN pending' = pending \cup {job[w]} /\ due' = due
       ELSE due' = Append(due, job[w]) /\ pending' = pending
    /\ job' = [job EXCEPT ![w] = NoBox]
    /\ Goto(w, "peek")
    /\ UNCHANGED <<wakeup, delay, raised, callers, hops>>

Run(w) ==
    \/ Peek(w) \/ WakeByEvent(w) \/ WakeByTimeout(w) \/ Take(w)
    \/ DropRemoved(w) \/ Postpone(w) \/ Hop(w) \/ HopFails(w) \/ Push(w)

-----------------------------------------------------------------------------
(* Time, and the callers of the boxes.                                     *)

\* The due time of an entry passes.
Ripen(b) ==
    /\ b \in pending
    /\ pending' = pending \ {b}
    /\ due' = Append(due, b)
    /\ UNCHANGED <<wakeup, wpc, job, delay, raised, callers, hops>>

\* A new box registers itself: due at once, and the workers are woken.
Register(b) ==
    /\ b \notin known
    /\ known' = known \cup {b}
    /\ due' = Append(due, b)
    /\ wakeup' = TRUE
    /\ UNCHANGED <<pending, wpc, job, delay, raised, removedBoxes, reading, hops>>

\* A caller's snapshot() or stream_to(): pause, lock, unlock, unpause.  None
\* begins on a box that is removed: its file is forgotten.
ReadStep(b) ==
    /\ b \in known /\ (reading[b] = "no" => b \notin removedBoxes)
    /\ reading' = [reading EXCEPT ![b] =
                     CASE @ = "no"      -> "paused"
                       [] @ = "paused"  -> "locked"
                       [] @ = "locked"  -> "leaving"
                       [] @ = "leaving" -> "no"]
    /\ UNCHANGED <<heap, wakeup, wpc, job, delay, raised, known, removedBoxes, hops>>

\* collapse() marks the box under its lock.
Remove(b) ==
    /\ b \in known \ removedBoxes
    /\ reading[b] # "locked"
    /\ removedBoxes' = removedBoxes \cup {b}
    /\ UNCHANGED <<heap, wakeup, wpc, job, delay, raised, known, reading, hops>>

FallNext ==
    \/ \E w \in Workers : Run(w)
    \/ \E b \in Boxes : Ripen(b) \/ Register(b) \/ ReadStep(b) \/ Remove(b)

FallSpec == FallInit /\ [][FallNext]_fallVars

\* Threads run, time passes, and a caller that began to read goes on to the
\* end, unless the box is one whose lock may be held for ever.
FairFallSpec ==
    /\ FallSpec
    /\ \A w \in Workers : WF_fallVars(Run(w))
    /\ \A b \in Boxes : WF_fallVars(Ripen(b))
    /\ \A b \in Boxes \ Stuck : WF_fallVars(reading[b] # "no" /\ ReadStep(b))

-----------------------------------------------------------------------------
(* Properties.                                                             *)

Occurrences(b) ==
    Cardinality({i \in DOMAIN due : due[i] = b})
    + (IF b \in pending THEN 1 ELSE 0)
    + Cardinality({w \in Workers : job[w] = b})

\* Two workers that race for the heap never service one box at a time, and no
\* worker loses a box: a box that is neither removed nor failed has exactly
\* one entry, in the heap or in one worker's hands.
OneEntryPerBox ==
    /\ FallTypeOK
    /\ \A b \in Boxes :
        /\ Occurrences(b) <= 1
        /\ b \in known \ (removedBoxes \cup raised) => Occurrences(b) = 1

\* "if 3 workers are blocked or busy, a 4th can still make progress": as long
\* as fewer boxes are stuck than there are workers, every other box that is
\* left alone hops again and again.
EveryBoxFalls ==
    \A b \in Boxes \ (Stuck \cup Fallible) :
        <>[](b \in known \ removedBoxes /\ reading[b] = "no") =>
            []<>(hops[b] = 0) /\ []<>(hops[b] = 1)

\* A removed box leaves the scheduler, which would otherwise keep it, its
\* pools and its guards alive for ever.
RemovedBoxesLeave ==
    \A b \in Boxes \ Stuck :
        b \in removedBoxes ~> [](Occurrences(b) = 0)

\* Whatever the workers, readers and failing boxes do, every box that is left alone
\* falls on, and every box that is removed leaves the heap.
BoxesFallOrLeave == EveryBoxFalls /\ RemovedBoxesLeave
=============================================================================
