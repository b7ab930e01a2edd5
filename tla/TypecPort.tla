----------------------------- MODULE TypecPort -----------------------------
(***************************************************************************)
(* The Type-C machine of a port as the port manager sees it: where it is,  *)
(* by what the manager tells apart, and what its last step told, or that   *)
(* the manager ordered it.  The steps are those PortManager takes for the  *)
(* machine's; TypeC implements them with the states of lib/typec.c.        *)
(***************************************************************************)

VARIABLES tc, told

Unattached == {"SnkUnattached", "SrcUnattached"}

TypeOK ==
    /\ tc \in Unattached \cup {"Disable", "Restart", "Toggle", "Wait", "Snk", "Src"}
    /\ told \in {"none", "TRY", "SUCCESS", "END", "order"}

Init == tc = "SnkUnattached" /\ told = "none"

Step(from, to, tell) == tc \in from /\ tc' \in to /\ told' = tell

Settle == Step({"Restart"}, {"Toggle"}, "none") \/ Step({"Toggle"}, Unattached, "none")
\* The pass that gives up may be the one that has found a partner.
GiveUp == Step({"Toggle"}, {"Toggle"} \cup Unattached, "END")
Find == Step(Unattached, {"Wait"}, "TRY")
Miss == Step(Unattached, {"Toggle"}, "none")
Lose == Step({"Wait"}, Unattached, "none")
Attach == Step({"Wait"}, {"Snk", "Src"}, "SUCCESS")
Detach ==
    \/ Step({"Snk"}, {"SnkUnattached"}, "END")
    \/ Step({"Src"}, {"SrcUnattached", "Wait", "Toggle"}, "END")

\* A step nobody is told of, in the middle of a state
Inside == tc' = tc /\ told' = "none"

\* The manager and the protections take the machine away and give it back.
Managed == tc' \in {"Disable", "Restart", "Toggle"} /\ told' = "order"

Next == Settle \/ GiveUp \/ Find \/ Miss \/ Lose \/ Attach \/ Detach \/ Inside \/ Managed

Spec == Init /\ [][Next]_<<tc, told>>
=============================================================================
