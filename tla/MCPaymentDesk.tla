--------------------------- MODULE MCPaymentDesk ---------------------------
\* PaymentDesk on small instances; the constants are given by the .cfg files.
EXTENDS PaymentDesk, TLC

\* Sound for safety only: requests are interchangeable, and so are keys.
Symmetry == Permutations(Admin) \cup Permutations(Pk)

\* States are told apart without the webhook log: no guard and no property of
\* the desk reads it.
DeskView == <<payment, receipt, inbox, session, charged, sent, job, crashes,
              desk, acts>>
=============================================================================
