------------------------------ MODULE MCDispatch ------------------------------
EXTENDS Dispatch
CONSTANTS h1, h2
\* The second webhook lists the action of the first event only.
MCSubscribed == (Events \X {h1}) \cup ({1} \X {h2})
=============================================================================
