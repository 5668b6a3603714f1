---------------------------- MODULE MCMailOutbox -----------------------------
(* MailOutbox for TLC: a message for its one person.                          *)
EXTENDS MailOutbox, TLC

CONSTANTS m1, u1

OwnMail == m1 :> u1
=============================================================================
