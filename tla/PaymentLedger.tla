---------------------------- MODULE PaymentLedger ----------------------------
(***************************************************************************)
(* What the billing component promises about money, without workflow steps, *)
(* references, idempotency keys or histories: an account is opened for some *)
(* dues, is credited until it is covered and not beyond, and is settled     *)
(* exactly from the moment it is covered to the first debit after it.       *)
(***************************************************************************)
EXTENDS Integers

CONSTANTS Account,  \* accounts
          Opened,   \* the ones that exist initially
          Dues      \* amounts an account may be opened for

VARIABLES open,      \* accounts that exist
          dues,      \* what is owed
          credited,  \* what is paid and not taken back
          settled    \* the accounts shown as paid

ledgerVars == <<open, dues, credited, settled>>

\* An account may be carried over as settled without any credit.
LedgerInit ==
  /\ open = Opened
  /\ settled \subseteq Opened
  /\ \A a \in Opened : credited[a] = 0 \/ (a \in settled /\ credited[a] = dues[a])
  /\ \A a \in Account \ Opened : credited[a] = 0

Open(a, d) ==
  /\ a \notin open
  /\ open' = open \cup {a}
  /\ dues' = [dues EXCEPT ![a] = d]
  /\ UNCHANGED <<credited, settled>>

Credit(a, amount) ==
  /\ a \in open \ settled
  /\ credited[a] + amount <= dues[a]
  /\ credited' = [credited EXCEPT ![a] = @ + amount]
  /\ settled' = IF credited'[a] = dues[a] THEN settled \cup {a} ELSE settled
  /\ UNCHANGED <<open, dues>>

Debit(a, amount) ==
  /\ a \in open
  /\ amount <= credited[a]
  /\ credited' = [credited EXCEPT ![a] = @ - amount]
  /\ settled' = settled \ {a}
  /\ UNCHANGED <<open, dues>>

LedgerNext ==
  \E a \in Account :
    \/ \E d \in Dues : Open(a, d)
    \/ \E amount \in 1 .. dues[a] : Credit(a, amount) \/ Debit(a, amount)

LedgerSpec == LedgerInit /\ [][LedgerNext]_ledgerVars

=============================================================================
