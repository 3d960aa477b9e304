-------------------------------- MODULE EmailLogs --------------------------------
(***************************************************************************)
(* The table email_logs, its unique index, and what it must keep.           *)
(* EmailOutbox has the requests and the ticks that write it.                *)
(***************************************************************************)
EXTENDS Integers, Functions

CONSTANTS
  Mails,  \* rows of email_logs, numbered as they are stored
  Keys    \* idempotency keys

VARIABLE mail  \* the rows, and how often the email of each went out

MailRows ==
  [status: {"none", "PENDING", "SENDING", "SENT", "FAILED", "SKIPPED"}, key: Keys \cup {"none"},
   attempts: Nat, recent: BOOLEAN, delivered: Nat]

(* Variant of Indexed: what was sent may be sent again.                     *)
IndexedUntilSent == {"PENDING", "SENDING"}

(* idx_email_logs_org_idempotency: one row of a key has one of these.       *)
Indexed == {"PENDING", "SENDING", "SENT", "SKIPPED"}

Clashes(r, key) == \E q \in Mails \ {r} : mail[q].key = key /\ mail[q].status \in Indexed

(* An email of one key goes out once, whoever asks for it again after a     *)
(* failure, at the same time, or after a crash.                             *)
DeliveredOnce ==
  \A key \in Keys :
    SumFunctionOnSet([r \in Mails |-> mail[r].delivered], {r \in Mails : mail[r].key = key}) <= 1
=============================================================================
