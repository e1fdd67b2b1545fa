------------------------------ MODULE MCServer ------------------------------
(***************************************************************************)
(* Three requests for two threads.                                         *)
(***************************************************************************)
EXTENDS Server

Script(dates, end) == [dates |-> dates, end |-> end]

MCScripts ==
  {Script(<<TRUE, TRUE>>, "ok"), Script(<<TRUE, FALSE>>, "ok"), Script(<<TRUE>>, "module"),
   Script(<< >>, "syntax"), Script(<< >>, "query")}
==============================================================================
