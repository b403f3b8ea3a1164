-------------------------- MODULE MCCreditLedger --------------------------
EXTENDS CreditLedger

\* One transfer is below the minimum alone and two of them reach it together;
\* the other amount is credited at once.
MCAmounts == {MinTopUp \div 2, MinTopUp + 1}
=============================================================================
