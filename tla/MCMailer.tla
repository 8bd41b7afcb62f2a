------------------------------ MODULE MCMailer ------------------------------
(* Three mails; a channel of one or two is full soon enough.               *)
EXTENDS Mailer

CONSTANTS m1, m2, m3, m4

ThreeMails == {m1, m2, m3}
FourMails == {m1, m2, m3, m4}
=============================================================================
