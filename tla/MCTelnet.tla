------------------------------ MODULE MCTelnet ------------------------------
(***************************************************************************)
(* The two halves of telnet.c in one run.  They meet only where a byte of  *)
(* data is put into tn_rx, so they are explored side by side: a behaviour  *)
(* is one of the rings and the session, or one of the filter, while the    *)
(* other half stays as it starts.  Nothing of the console is enabled there *)
(* without a client, so its fairness asks nothing of the filter's          *)
(* behaviours.                                                             *)
(***************************************************************************)
EXTENDS TelnetConsole, TelnetFilter

VARIABLE half     \* the half this behaviour is about

TelnetInit == Init /\ FilterInit /\ half \in {"console", "filter"}

TelnetNext ==
  \/ half = "console" /\ Next /\ UNCHANGED << half, filterVars >>
  \/ half = "filter" /\ FilterNext /\ UNCHANGED << half, vars >>

TelnetSpec ==
  /\ TelnetInit
  /\ [][TelnetNext]_<< half, vars, filterVars >>
  /\ WF_vars(TelnetThread)
=============================================================================
