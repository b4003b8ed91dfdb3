---------------------------- MODULE MCStreamGraph ----------------------------
EXTENDS StreamGraph

CONSTANTS call, message, j1, j2

MCCalls == {call}
MCInputs == {message}
MCJobs == {j1, j2}

(* The body of the substream splits into a direct branch, a user function  *)
(* that may throw, and a branch through a pool.  There a case sends the    *)
(* message to the result, or by a parallel call to a delay and a filter    *)
(* before it.  The input message takes the function's branch only.         *)
MCNodes == {"input", "entry", "split", "process", "case", "delay", "filter", "result"}
MCKind == [n \in MCNodes |-> n]
MCOut ==
  [n \in MCNodes |->
     CASE n = "input" -> <<"ip">>
       [] n = "entry" -> <<"es">>
       [] n = "split" -> <<"sp", "sc">>
       [] n = "process" -> <<"pr">>
       [] n = "case" -> <<"cr", "cd">>
       [] n = "delay" -> <<"df">>
       [] n = "filter" -> <<"fr">>
       [] n = "result" -> <<>>]
MCLinkTo ==
  [ip |-> "process", es |-> "split", sp |-> "process", sc |-> "case",
   pr |-> "result", cr |-> "result", cd |-> "delay", df |-> "filter", fr |-> "result"]
MCLinkCall ==
  [l \in DOMAIN MCLinkTo |->
     CASE l = "sc" -> "pool" [] l = "cd" -> "parallel" [] l = "df" -> "directAsync"
       [] OTHER -> "direct"]
=============================================================================
