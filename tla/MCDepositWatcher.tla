-------------------------- MODULE MCDepositWatcher --------------------------
EXTENDS DepositWatcher

\* Neither transfer reaches the minimum alone; together they do.
MCAmount == [t \in Transfers |-> t]

MCSituations ==
  {[required |-> 2, sameIdentity |-> TRUE], [required |-> 2, sameIdentity |-> FALSE]}
=============================================================================
