------------------------ MODULE RecipientLifecycle ------------------------
(***************************************************************************)
(* What the database promises about CampaignRecipient.sendStatus, whatever *)
(* the workers, the scheduler and the web application do: the transitions  *)
(* the BEFORE UPDATE trigger lets through.  "sent" and "skipped" have no   *)
(* way out, so a recipient reported sent is never sent again by a later    *)
(* transition.  Delivery is shown to implement this specification, that    *)
(* is, never to run into the trigger's RAISE EXCEPTION.                    *)
(***************************************************************************)
CONSTANT Recipients

VARIABLE row            \* CampaignRecipient.sendStatus of every recipient

SendStatus == {"pending", "queued", "sent", "failed", "skipped"}

TriggerAllows(from, to) ==
  \/ from = to
  \/ from = "pending" /\ to \in {"queued", "skipped"}
  \/ from = "queued" /\ to \in {"sent", "failed", "skipped", "pending"}
  \/ from = "failed" /\ to \in {"queued", "skipped"}

Init == row = [r \in Recipients |-> "pending"]

\* One UPDATE statement may touch many rows; the trigger judges each of them.
Update ==
  \E S \in SUBSET Recipients, to \in SendStatus :
    /\ \A r \in S : TriggerAllows(row[r], to)
    /\ row' = [r \in Recipients |-> IF r \in S THEN to ELSE row[r]]

Spec == Init /\ [][Update]_row

=============================================================================
