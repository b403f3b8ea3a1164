--------------------------- MODULE MCImageBilling ---------------------------
EXTENDS ImageBilling, TLC

CONSTANTS r1, r2, r3, paid1, paid2, free1, free2

\* The model calls the image tool twice in one task, and once in another; or
\* two free images, whose runs overlap since the user lock may go.
MCDays ==
  {[requestOf |-> r1 :> paid1 @@ r2 :> paid1 @@ r3 :> paid2, expiringLocks |-> {}],
   [requestOf |-> r1 :> free1 @@ r2 :> free2, expiringLocks |-> {"user"}]}

OneRun == {[requestOf |-> r1 :> paid1, expiringLocks |-> {}]}
=============================================================================
