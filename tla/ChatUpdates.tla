----------------------------- MODULE ChatUpdates -----------------------------
(***************************************************************************)
(* From Telegram to a handler, for one chat.  Telegram delivers an update  *)
(* until it gets a 200; the webhook drops what it saw already and hands    *)
(* the rest to the queue; workers run the handlers.  The webhook's mark    *)
(* and the conversation step live in one row, Nyabo Chat State, and every  *)
(* writer saves the whole row it read.  save() refuses a row that somebody *)
(* saved since (Frappe compares `modified`): stamp counts the saves.       *)
(***************************************************************************)
EXTENDS Naturals, Sequences

CONSTANTS
  LastUpdate,   \* bound on the update_ids of the chat
  Requests,     \* web processes that can serve a delivery at the same time
  Workers,      \* processes that take jobs off the short queue
  Free,         \* a web process or a worker with nothing to do
  MaxLosses     \* bound on dead processes and lost answers

Updates == 1 .. LastUpdate

(* Step 0: no conversation; step u: the one the handler of u opened.       *)
Row == [last : {0} \cup Updates, step : {0} \cup Updates, stamp : Nat]

RequestRow == [update : Updates, phase : {"read", "committed"}, row : Row]

JobRow == [update : Updates, row : Row]

ASSUME UpdatesAssumption ==
  /\ LastUpdate \in Nat \ {0}
  /\ MaxLosses \in Nat
  /\ Free \notin RequestRow \cup JobRow

VARIABLES
  row,       \* Nyabo Chat State: last_update_id, state, and its stamp
  request,   \* what each web process does
  job,       \* what each worker does
  queue,     \* the short queue
  answered,  \* updates Telegram got a 200 for
  recorded,  \* updates whose mark was committed
  refused,   \* updates answered as duplicates
  enqueued,  \* how often each update was handed to the queue
  lost       \* processes that died and answers that never arrived, so far

updatesVars == <<row, request, job, queue, answered, recorded, refused, enqueued, lost>>

UpdatesInit ==
  /\ row = [last |-> 0, step |-> 0, stamp |-> 0]
  /\ request = [r \in Requests |-> Free]
  /\ job = [w \in Workers |-> Free]
  /\ queue = <<>>
  /\ answered = {} /\ recorded = {} /\ refused = {}
  /\ enqueued = [u \in Updates |-> 0]
  /\ lost = 0

-----------------------------------------------------------------------------
(* Telegram: any update without an answer may be delivered, again or for   *)
(* the first time, and several at once.  Its handler's first query opens   *)
(* the snapshot.                                                           *)
Deliver(r, u) ==
  /\ request[r] = Free
  /\ u \notin answered
  /\ request' = [request EXCEPT ![r] = [update |-> u, phase |-> "read", row |-> row]]
  /\ UNCHANGED <<row, job, queue, answered, recorded, refused, enqueued, lost>>

(* Mutant: an update equal to the last one seen is let through.            *)
Duplicate_Below(r) == request[r].update < request[r].row.last

(* is_duplicate_update: at or below the last id seen.                      *)
Duplicate(r) == request[r].update <= request[r].row.last

(* Mutant: a duplicate is answered with an error.                          *)
RefuseDuplicate_Error(r) ==
  /\ request[r] # Free /\ request[r].phase = "read"
  /\ Duplicate(r)
  /\ request' = [request EXCEPT ![r] = Free]
  /\ refused' = refused \cup {request[r].update}
  /\ UNCHANGED <<row, job, queue, answered, recorded, enqueued, lost>>

RefuseDuplicate(r) ==
  /\ request[r] # Free /\ request[r].phase = "read"
  /\ Duplicate(r)
  /\ request' = [request EXCEPT ![r] = Free]
  /\ answered' = answered \cup {request[r].update}
  /\ refused' = refused \cup {request[r].update}
  /\ UNCHANGED <<row, job, queue, recorded, enqueued, lost>>

(* Mutant: the row is written without comparing stamps.                    *)
Fresh_Any(seen) == TRUE

(* What save() checks of the row it is about to write.                     *)
Fresh(seen) == seen.stamp = row.stamp

(* The mark is saved and the request's transaction commits ...             *)
Record(r) ==
  /\ request[r] # Free /\ request[r].phase = "read"
  /\ ~Duplicate(r)
  /\ Fresh(request[r].row)
  /\ row' = [last |-> request[r].update, step |-> request[r].row.step, stamp |-> row.stamp + 1]
  /\ request' = [request EXCEPT ![r].phase = "committed"]
  /\ recorded' = recorded \cup {request[r].update}
  /\ UNCHANGED <<job, queue, answered, refused, enqueued, lost>>

(* ... or save() refuses, and Telegram gets an error and will come again.  *)
Collide(r) ==
  /\ request[r] # Free /\ request[r].phase = "read"
  /\ ~Duplicate(r)
  /\ ~Fresh(request[r].row)
  /\ request' = [request EXCEPT ![r] = Free]
  /\ UNCHANGED <<row, job, queue, answered, recorded, refused, enqueued, lost>>

(* enqueue_after_commit: the job goes to the queue, then Telegram gets 200.*)
Enqueue(r) ==
  /\ request[r] # Free /\ request[r].phase = "committed"
  /\ queue' = Append(queue, request[r].update)
  /\ enqueued' = [enqueued EXCEPT ![request[r].update] = @ + 1]
  /\ answered' = answered \cup {request[r].update}
  /\ request' = [request EXCEPT ![r] = Free]
  /\ UNCHANGED <<row, job, recorded, refused, lost>>

(* The job is queued and the answer does not arrive.                       *)
AnswerLost(r) ==
  /\ request[r] # Free /\ request[r].phase = "committed"
  /\ lost < MaxLosses
  /\ lost' = lost + 1
  /\ queue' = Append(queue, request[r].update)
  /\ enqueued' = [enqueued EXCEPT ![request[r].update] = @ + 1]
  /\ request' = [request EXCEPT ![r] = Free]
  /\ UNCHANGED <<row, job, answered, recorded, refused>>

(* The process dies between the commit and the queue: the update is marked *)
(* and nobody has it.                                                      *)
RequestDies(r) ==
  /\ request[r] # Free /\ request[r].phase = "committed"
  /\ lost < MaxLosses
  /\ lost' = lost + 1
  /\ request' = [request EXCEPT ![r] = Free]
  /\ UNCHANGED <<row, job, queue, answered, recorded, refused, enqueued>>

-----------------------------------------------------------------------------
(* router.handle_update: a worker takes the oldest job; its snapshot holds *)
(* the conversation step it will go by.                                    *)
Take(w) ==
  /\ job[w] = Free
  /\ queue # <<>>
  /\ job' = [job EXCEPT ![w] = [update |-> Head(queue), row |-> row]]
  /\ queue' = Tail(queue)
  /\ UNCHANGED <<row, request, answered, recorded, refused, enqueued, lost>>

(* The handler moves the conversation on: set_state or clear_state.        *)
MoveOn(w, step) ==
  /\ job[w] # Free
  /\ step \in {0, job[w].update}
  /\ Fresh(job[w].row)
  /\ row' = [last |-> job[w].row.last, step |-> step, stamp |-> row.stamp + 1]
  /\ job' = [job EXCEPT ![w] = Free]
  /\ UNCHANGED <<request, queue, answered, recorded, refused, enqueued, lost>>

(* It has no step to write, save() refuses it (the router catches that and *)
(* apologises), or the worker is killed: a job is never taken up again.    *)
EndWithoutStep(w) ==
  /\ job[w] # Free
  /\ job' = [job EXCEPT ![w] = Free]
  /\ UNCHANGED <<row, request, queue, answered, recorded, refused, enqueued, lost>>

-----------------------------------------------------------------------------
Serve(r) == RefuseDuplicate(r) \/ Record(r) \/ Collide(r) \/ Enqueue(r)

Work(w) == Take(w) \/ EndWithoutStep(w) \/ (\E step \in {0} \cup Updates : MoveOn(w, step))

UpdatesNext ==
  \/ \E r \in Requests :
       \/ \E u \in Updates : Deliver(r, u)
       \/ Serve(r)
       \/ AnswerLost(r)
       \/ RequestDies(r)
  \/ \E w \in Workers : Work(w)

(* Web processes and workers finish what they have, and Telegram comes     *)
(* back with every update it has no answer for, whatever else it delivers. *)
Fairness ==
  /\ \A r \in Requests : WF_updatesVars(Serve(r))
  /\ \A w \in Workers : WF_updatesVars(Work(w))
  /\ \A u \in Updates : SF_updatesVars(\E r \in Requests : Deliver(r, u))

UpdatesSpec == UpdatesInit /\ [][UpdatesNext]_updatesVars /\ Fairness

-----------------------------------------------------------------------------
UpdatesTypeOK ==
  /\ row \in Row
  /\ request \in [Requests -> {Free} \cup RequestRow]
  /\ job \in [Workers -> {Free} \cup JobRow]
  /\ queue \in Seq(Updates)
  /\ answered \subseteq Updates /\ recorded \subseteq Updates /\ refused \subseteq Updates
  /\ enqueued \in [Updates -> Nat]
  /\ lost \in 0 .. MaxLosses

(* Telegram's retries never run a handler twice: however deliveries of one *)
(* update overlap with each other and with the handlers that save the same *)
(* row, it reaches the queue at most once (webhook, is_duplicate_update).  *)
HandedOverAtMostOnce == \A u \in Updates : enqueued[u] <= 1

(* The mark of the webhook never goes back, although every handler saves   *)
(* the whole row it read, the mark included.                               *)
MarkNeverGoesBack == [][row'.last >= row.last]_updatesVars

(* No conversation step is written over a step the writer had not read.    *)
StepsAreNotOverwritten ==
  [][\A w \in Workers :
       job[w] # Free /\ job'[w] = Free /\ row' # row => job[w].row.step = row.step]_updatesVars

(* Telegram is not left retrying and nothing is left lying: every update   *)
(* gets its 200 in the end, collisions, dead processes and lost answers    *)
(* notwithstanding, and every job that was enqueued is taken.              *)
EveryUpdateIsAnswered ==
  /\ \A u \in Updates : <>(u \in answered)
  /\ []<>(queue = <<>>)

(* state.py: "anything at or below the last seen id is a retry".           *)
OnlyRetriesAreRefused == refused \subseteq recorded
=============================================================================
