--------------------------- MODULE MCSmtpCooldown ---------------------------
(* One account that fails once. *)
EXTENDS SmtpAccounts

CONSTANT w1

Failure == {[x \in Events |-> IF x \in {"deliver", "fail"} THEN 1 ELSE 0]}
=============================================================================
