----------------------------- MODULE MCParameters -----------------------------
(* use_sim_time, and a parameter that may be declared anew, as read-only.   *)
EXTENDS Parameters

CONSTANTS sim, gain, yes, no, large, unset, veto, app, service

MCDefaultOf == [n \in Names |-> no]
MCDescriptorsOf ==
  [n \in Names |->
    IF n = sim THEN {[allows |-> {yes, no, unset}, readOnly |-> FALSE]}
    ELSE {[allows |-> {yes, no}, readOnly |-> FALSE], [allows |-> {no, large}, readOnly |-> TRUE]}]
MCBatches ==
  {<<<<sim, yes>>, <<gain, yes>>>>, <<<<gain, large>>, <<sim, no>>>>, <<<<sim, no>>>>,
   <<<<sim, unset>>>>}
MCRefuses == [cb \in Vetoes |-> {<<gain, yes>>}]
===============================================================================
