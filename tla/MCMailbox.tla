------------------------------- MODULE MCMailbox ------------------------------
(* Model-checking instance of one mailbox: a child, a sibling, four envelopes. *)
EXTENDS MailboxSpec
=============================================================================
