----------------------------- MODULE EmailQueue -----------------------------
(***************************************************************************)
(* Mail on its way from a service to the provider (email_service.py,       *)
(* email_worker.py): a service pushes a job to a Redis list, or sends the  *)
(* mail itself when the push raises; workers pop jobs and send them.       *)
(*                                                                         *)
(* The Redis client sends a command again when its answer does not come in *)
(* time (core/redis.py:55), so that a push may put several jobs in the     *)
(* list, and succeed or raise all the same.  A provider may fail after it  *)
(* has taken the mail.  A popped job is nowhere but in its worker.         *)
(* The jobs of a mail are told apart by the attempt that made them; number *)
(* 0 is the mail that the service sends itself.                            *)
(* Left out: templates and the three providers.                            *)
(***************************************************************************)
EXTENDS Naturals, Sequences, FiniteSets

CONSTANTS
  Mails,      \* mails the services send
  Workers,    \* email worker processes
  Malformed,  \* mails whose job a worker cannot read, or has no recipient
  Tries       \* how often the Redis client sends one command

Jobs  == Mails \X (0..Tries)
NoJob == <<"none", 0>>
Off   == <<"off", 0>>
Readable == {j \in Jobs : j[1] \notin Malformed}

(* What the constants may be.                                              *)
Parameters ==
  /\ Malformed \subseteq Mails
  /\ Mails \cap {"none", "off"} = {}
  /\ Tries \in Nat \ {0}

VARIABLES
  mail,      \* what the sending service does with each mail
  tries,     \* how often its push was sent to Redis
  queue,     \* the Redis list: pushed left, popped right
  hand,      \* the job each worker has popped
  sent,      \* how often the provider took each job (history)
  unclear    \* jobs that were pushed and not answered (history)

vars == <<mail, tries, queue, hand, sent, unclear>>

TypeOK ==
  /\ mail \in [Mails -> {"new", "queued", "direct", "done"}]
  /\ tries \in [Mails -> 0..Tries]
  /\ queue \in Seq(Jobs)
  /\ hand \in [Workers -> Jobs \cup {NoJob, Off}]
  /\ sent \in [Jobs -> Nat]
  /\ unclear \subseteq Jobs

Init ==
  /\ mail = [m \in Mails |-> "new"]
  /\ tries = [m \in Mails |-> 0]
  /\ queue = <<>>
  /\ hand = [w \in Workers |-> NoJob]
  /\ sent = [j \in Jobs |-> 0]
  /\ unclear = {}

-----------------------------------------------------------------------------
Popped == queue[1]

(* The job that the next LPUSH of a mail makes.                            *)
Job(m) == <<m, tries[m] + 1>>

Attempt(m) ==
  /\ mail[m] = "new"
  /\ tries' = [tries EXCEPT ![m] = @ + 1]

(* send(): LPUSH, and Redis answers.                                       *)
Push(m) ==
  /\ Attempt(m)
  /\ queue' = Append(queue, Job(m))
  /\ mail' = [mail EXCEPT ![m] = "queued"]
  /\ UNCHANGED <<hand, sent, unclear>>

(* Slip: the first sending is not counted.                                 *)
MayRepeatOnceMore(m) == tries[m] < Tries

(* The Redis client may send the command of this attempt again.            *)
MayRepeat(m) == tries[m] + 1 < Tries

(* No answer, with or without the job in the list: the client sends the    *)
(* LPUSH again while it may, or raises.                                    *)
PushFails(m) ==
  /\ Attempt(m)
  /\ \/ MayRepeat(m) /\ UNCHANGED mail
     \/ mail' = [mail EXCEPT ![m] = "direct"]
  /\ \/ UNCHANGED <<queue, unclear>>
     \/ queue' = Append(queue, Job(m)) /\ unclear' = unclear \cup {Job(m)}
  /\ UNCHANGED <<hand, sent>>

(* The provider takes the mail, or not, and what it raises is logged.      *)
SendDirect(m) ==
  /\ mail[m] = "direct"
  /\ mail' = [mail EXCEPT ![m] = "done"]
  /\ \/ sent' = [sent EXCEPT ![<<m, 0>>] = @ + 1]
     \/ UNCHANGED sent
  /\ UNCHANGED <<tries, queue, hand, unclear>>

-----------------------------------------------------------------------------
(* run(): BRPOP.                                                           *)
Pop(w) ==
  /\ hand[w] = NoJob /\ queue # <<>>
  /\ hand' = [hand EXCEPT ![w] = Popped]
  /\ queue' = Tail(queue)
  /\ UNCHANGED <<mail, tries, sent, unclear>>

(* BRPOP is done, and its answer is lost with the job.                     *)
PopFails(w) ==
  /\ hand[w] = NoJob /\ queue # <<>>
  /\ queue' = Tail(queue)
  /\ UNCHANGED <<mail, tries, hand, sent, unclear>>

(* A job that cannot be read is skipped, the loop goes on.                 *)
Skip(w) ==
  /\ hand[w] \in Jobs \ Readable
  /\ hand' = [hand EXCEPT ![w] = NoJob]
  /\ UNCHANGED <<mail, tries, queue, sent, unclear>>

Deliver(w) ==
  /\ hand[w] \in Readable
  /\ sent' = [sent EXCEPT ![hand[w]] = @ + 1]
  /\ hand' = [hand EXCEPT ![w] = NoJob]
  /\ UNCHANGED <<mail, tries, queue, unclear>>

(* Slip: a job that failed is put back.                                    *)
AfterFailurePutBack(w) == queue' = Append(queue, hand[w])

(* A job that failed is over.                                              *)
AfterFailure(w) == UNCHANGED queue

(* The provider raises, before or after it has taken the mail.             *)
DeliverFails(w) ==
  /\ hand[w] \in Readable
  /\ \/ UNCHANGED sent
     \/ sent' = [sent EXCEPT ![hand[w]] = @ + 1]
  /\ AfterFailure(w)
  /\ hand' = [hand EXCEPT ![w] = NoJob]
  /\ UNCHANGED <<mail, tries, unclear>>

(* The process ends with what it has in hand, before or after sending.     *)
Dies(w) ==
  /\ hand[w] # Off
  /\ hand' = [hand EXCEPT ![w] = Off]
  /\ UNCHANGED <<mail, tries, queue, sent, unclear>>

Restart(w) ==
  /\ hand[w] = Off
  /\ hand' = [hand EXCEPT ![w] = NoJob]
  /\ UNCHANGED <<mail, tries, queue, sent, unclear>>

Next ==
  \/ \E m \in Mails : Push(m) \/ PushFails(m) \/ SendDirect(m)
  \/ \E w \in Workers :
       \/ Pop(w) \/ PopFails(w) \/ Skip(w) \/ Deliver(w) \/ DeliverFails(w)
       \/ Dies(w) \/ Restart(w)

Spec == Init /\ [][Next]_vars

-----------------------------------------------------------------------------
(* Nobody gets a mail twice, whatever the provider, the workers and Redis  *)
(* do, but for LPUSHs that were done and not answered, each of which may   *)
(* be one mail more: a job is delivered once, and of a mail's jobs that    *)
(* are not of that kind, the one it sends itself included, only one is     *)
(* (email_service.py:256-281, email_worker.py:24-36, core/redis.py:51-60). *)
TwiceOnlyIfUnclear ==
  /\ \A j \in Jobs : sent[j] <= 1
  /\ \A i, j \in Jobs \ unclear : i[1] = j[1] /\ sent[i] > 0 /\ sent[j] > 0 => i = j
=============================================================================
