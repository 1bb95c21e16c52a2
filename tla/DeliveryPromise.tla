--------------------------- MODULE DeliveryPromise ---------------------------
(***************************************************************************)
(* What the durable delivery queue promises to the people who receive its  *)
(* notifications, with no worker, lease, database row or retry in sight.   *)
(*                                                                         *)
(* A notification job is a batch of Discord messages ("steps").  For every *)
(* job the promise relates two things only: the messages the recipient has *)
(* got, and the verdict the delivery history shows.                        *)
(*                                                                         *)
(*   - no message of a job reaches the recipient twice;                    *)
(*   - a job shown as not sent has delivered nothing, so sending it again  *)
(*     (a retry) is harmless;                                              *)
(*   - a job shown as sent has delivered something, and nothing more of it *)
(*     arrives afterwards;                                                 *)
(*   - once the outcome is shown as uncertain it stays so: late messages   *)
(*     may still arrive, and nobody ever sends the job again.              *)
(***************************************************************************)
CONSTANTS Jobs,   \* notification jobs
          Steps   \* numbers of the messages of a batch

VARIABLES verdict,  \* what the history shows for the job
          got       \* the steps of the job that reached the recipient

vars == <<verdict, got>>

\* "folded": the job's content travels inside another job's batch.
Verdicts == {"absent", "open", "folded", "sent", "uncertain", "unsent"}

TypeOK == /\ verdict \in [Jobs -> Verdicts]
          /\ got \in [Jobs -> SUBSET Steps]

Init == /\ verdict \in [Jobs -> {"absent", "open"}]
        /\ got = [j \in Jobs |-> {}]

Accept(j) == /\ verdict[j] = "absent"
             /\ verdict'[j] \in {"open", "folded"}
             /\ got'[j] = got[j]

Deliver(j) == /\ verdict[j] \in {"open", "uncertain"}
              /\ \E s \in Steps \ got[j] : got'[j] = got[j] \cup {s}
              /\ verdict'[j] = verdict[j]

ReportSent(j) == /\ verdict[j] = "open"
                 /\ got[j] # {}
                 /\ verdict'[j] = "sent"
                 /\ got'[j] = got[j]

ReportUncertain(j) == /\ verdict[j] = "open"
                      /\ verdict'[j] = "uncertain"
                      /\ got'[j] = got[j]

ReportUnsent(j) == /\ verdict[j] = "open"
                   /\ got[j] = {}
                   /\ verdict'[j] = "unsent"
                   /\ got'[j] = got[j]

Retry(j) == /\ verdict[j] = "unsent"
            /\ got[j] = {}
            /\ verdict'[j] = "open"
            /\ got'[j] = got[j]

Same(j) == verdict'[j] = verdict[j] /\ got'[j] = got[j]

JobStep(j) == \/ Accept(j)
              \/ Deliver(j)
              \/ ReportSent(j)
              \/ ReportUncertain(j)
              \/ ReportUnsent(j)
              \/ Retry(j)

\* One database transaction may report on several jobs at once.
Next == /\ DOMAIN verdict' = Jobs
        /\ DOMAIN got' = Jobs
        /\ \A j \in Jobs : JobStep(j) \/ Same(j)

Spec == Init /\ [][Next]_vars
=============================================================================
