------------------------------- MODULE EmailOutbox -------------------------------
(***************************************************************************)
(* The emails of email/email.service.ts: a caller stores a row of           *)
(* email_logs and sends it at once; every five minutes a tick sends again   *)
(* what is pending or has failed.  Nothing locks a row while its email is   *)
(* out, and a tick does not wait for the one before.  What keeps an email   *)
(* from going out twice is its idempotency key: the callers look for it,    *)
(* and a unique index covers the rows that are under way or done.           *)
(***************************************************************************)
EXTENDS EmailLogs, Sequences, FiniteSets

CONSTANTS
  Callers,    \* requests that send an email, at once
  Ticks,      \* ticks of the retry, which may overlap
  MaxRetries, \* EMAIL_MAX_RETRIES
  MaxPerRun,  \* EMAIL_MAX_PER_RUN
  MaxCrashes  \* bound: crashes of the server

VARIABLES
  enabled,  \* EMAIL_SENDING_ENABLED, fixed when the server starts
  crashes,
  req       \* what each worker is doing

vars == <<mail, enabled, crashes, req>>

Senders == Callers \cup Ticks

Idle == [op |-> "none", stage |-> "begin", key |-> "none", row |-> 0, todo |-> <<>>]

(* What the table, the settings and the workers hold.                       *)
TypeOK ==
  /\ mail \in [Mails -> MailRows]
  /\ enabled \in BOOLEAN /\ crashes \in 0..MaxCrashes
  /\ \A w \in Senders :
       /\ req[w].op \in {"none", "send", "tick"}
       /\ req[w].stage \in {"begin", "insert", "mark", "transmit", "accepted", "failed"}
       /\ req[w].row \in Mails \cup {0} /\ req[w].todo \in Seq(Mails)

Init ==
  /\ mail = [r \in Mails |->
       [status |-> "none", key |-> "none", attempts |-> 0, recent |-> FALSE, delivered |-> 0]]
  /\ enabled \in BOOLEAN
  /\ crashes = 0
  /\ req = [w \in Senders |-> Idle]

-----------------------------------------------------------------------------
Continue(w, next) == req' = [req EXCEPT ![w] = next]
At(w, stage) == req[w].op # "none" /\ req[w].stage = stage

(* The row is done: a tick goes on with the next one, a caller returns.     *)
Done(w) ==
  Continue(w, IF req[w].todo = <<>> THEN Idle
              ELSE [req[w] EXCEPT !.stage = "mark", !.row = Head(req[w].todo), !.todo = Tail(@)])

-----------------------------------------------------------------------------
(* send                                                                     *)
Send(w, key) ==
  /\ w \in Callers /\ req[w] = Idle
  /\ Continue(w, [Idle EXCEPT !.op = "send", !.key = key])
  /\ UNCHANGED <<mail, enabled, crashes>>

FindDuplicateLog(w) ==
  /\ At(w, "begin") /\ req[w].op = "send"
  /\ Continue(w, IF \E q \in Mails : /\ mail[q].key = req[w].key
                                     /\ mail[q].status \in {"PENDING", "SENDING", "SENT", "SKIPPED"}
                 THEN Idle ELSE [req[w] EXCEPT !.stage = "insert"])
  /\ UNCHANGED <<mail, enabled, crashes>>

NextRow(r) == mail[r].status = "none" /\ \A q \in Mails : q < r => mail[q].status # "none"

(* INSERT ... 'PENDING'; another row of the key makes it fail.              *)
InsertLog(w) ==
  /\ At(w, "insert")
  /\ \E r \in Mails :
       /\ NextRow(r)
       /\ IF Clashes(r, req[w].key)
          THEN Continue(w, Idle) /\ UNCHANGED mail
          ELSE /\ Continue(w, [req[w] EXCEPT !.stage = "mark", !.row = r])
               /\ mail' = [mail EXCEPT ![r].status = "PENDING", ![r].key = req[w].key]
  /\ UNCHANGED <<enabled, crashes>>

-----------------------------------------------------------------------------
(* retryQueuedEmails                                                        *)
Tick(w) ==
  /\ w \in Ticks /\ req[w] = Idle /\ enabled
  /\ Continue(w, [Idle EXCEPT !.op = "tick"])
  /\ UNCHANGED <<mail, enabled, crashes>>

(* Variant of Queued: what has failed is not tried again.                   *)
QueuedPending(r) == mail[r].status = "PENDING" /\ mail[r].attempts < MaxRetries

Queued(r) ==
  /\ mail[r].attempts < MaxRetries
  /\ \/ mail[r].status = "PENDING"
     \/ mail[r].status = "FAILED" /\ ~mail[r].recent

(* The oldest rows first, as many as one run may send.                      *)
Oldest(rows) == {r \in rows : Cardinality({q \in rows : q < r}) < MaxPerRun}

SelectQueued(w) ==
  LET todo == Oldest({r \in Mails : Queued(r)})
  IN /\ At(w, "begin") /\ req[w].op = "tick"
     /\ \E order \in [1..Cardinality(todo) -> todo] :
          /\ \A i, j \in DOMAIN order : i < j => order[i] < order[j]
          /\ Continue(w, IF todo = {} THEN Idle
                         ELSE [req[w] EXCEPT !.stage = "mark", !.row = Head(order), !.todo = Tail(order)])
     /\ UNCHANGED <<mail, enabled, crashes>>

-----------------------------------------------------------------------------
(* processQueuedEmail, whatever has become of the row since it was chosen.  *)
MarkSending(w) ==
  LET r == req[w].row
  IN /\ At(w, "mark")
     /\ IF Clashes(r, mail[r].key)
        THEN Done(w) /\ UNCHANGED mail
        ELSE /\ mail' = [mail EXCEPT ![r].status = "SENDING"]
             /\ Continue(w, [req[w] EXCEPT !.stage = "transmit"])
     /\ UNCHANGED <<enabled, crashes>>

(* finalizeSkipped                                                          *)
FinalizeSkipped(w) ==
  /\ At(w, "transmit") /\ ~enabled
  /\ mail' = [mail EXCEPT ![req[w].row].status = "SKIPPED"]
  /\ Done(w)
  /\ UNCHANGED <<enabled, crashes>>

(* sendMail: accepted; refused; or accepted, and the answer is lost.        *)
Transmit(w) ==
  /\ At(w, "transmit") /\ enabled
  /\ \E gone, answered \in BOOLEAN :
       /\ answered => gone
       /\ mail' = [mail EXCEPT ![req[w].row].delivered = IF gone THEN @ + 1 ELSE @]
       /\ Continue(w, [req[w] EXCEPT !.stage = IF answered THEN "accepted" ELSE "failed"])
  /\ UNCHANGED <<enabled, crashes>>

(* The UPDATE to SENT is part of what is tried: when another row of the key *)
(* makes it fail, the row is FAILED although its email went out.            *)
RecordSent(w) ==
  LET r == req[w].row
  IN /\ At(w, "accepted")
     /\ IF Clashes(r, mail[r].key)
        THEN Continue(w, [req[w] EXCEPT !.stage = "failed"]) /\ UNCHANGED mail
        ELSE /\ mail' = [mail EXCEPT ![r].status = "SENT", ![r].attempts = @ + 1, ![r].recent = FALSE]
             /\ Done(w)
     /\ UNCHANGED <<enabled, crashes>>

(* Variant of RecordFailed: a status that the table does not know.          *)
RecordFailedAsError(w) ==
  /\ At(w, "failed")
  /\ mail' = [mail EXCEPT ![req[w].row].status = "ERROR", ![req[w].row].attempts = @ + 1]
  /\ Done(w)
  /\ UNCHANGED <<enabled, crashes>>

RecordFailed(w) ==
  LET r == req[w].row
  IN /\ At(w, "failed")
     /\ mail' = [mail EXCEPT ![r].status = "FAILED", ![r].attempts = @ + 1, ![r].recent = TRUE]
     /\ Done(w)
     /\ UNCHANGED <<enabled, crashes>>

(* EMAIL_RETRY_DELAY_MINUTES go by.                                         *)
DelayOver(r) ==
  /\ mail[r].recent
  /\ mail' = [mail EXCEPT ![r].recent = FALSE]
  /\ UNCHANGED <<enabled, crashes, req>>

(* The server stops; the rows stay as they are.                             *)
Crash ==
  /\ crashes < MaxCrashes
  /\ crashes' = crashes + 1
  /\ req' = [w \in Senders |-> Idle]
  /\ UNCHANGED <<mail, enabled>>

Progress(w) ==
  \/ FindDuplicateLog(w) \/ InsertLog(w) \/ SelectQueued(w) \/ MarkSending(w)
  \/ FinalizeSkipped(w) \/ Transmit(w) \/ RecordSent(w) \/ RecordFailed(w)

Next ==
  \/ \E w \in Senders : Tick(w) \/ Progress(w) \/ \E key \in Keys : Send(w, key)
  \/ \E r \in Mails : DelayOver(r)
  \/ Crash

(* Senders go on, ticks come whatever the callers do, time goes by.         *)
Fairness ==
  /\ \A w \in Senders : WF_vars(Progress(w))
  /\ WF_vars(\E w \in Ticks : Tick(w))
  /\ WF_vars(\E r \in Mails : DelayOver(r))

Spec == Init /\ [][Next]_vars /\ Fairness

-----------------------------------------------------------------------------
(* Properties.                                                              *)

(* An email that is stored is sent, skipped, tried as often as the settings *)
(* allow, or has another row of its key that is under way or done.          *)
Settled(r) ==
  \/ mail[r].status \in {"none", "SENT", "SKIPPED"}
  \/ mail[r].status = "FAILED" /\ mail[r].attempts >= MaxRetries
  \/ \E q \in Mails \ {r} : mail[q].key = mail[r].key /\ mail[q].status \notin {"none", "FAILED"}
MailSettles == []<>(\A r \in Mails : Settled(r))
=============================================================================
