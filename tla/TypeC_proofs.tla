---------------------------- MODULE TypeC_proofs ----------------------------
(***************************************************************************)
(* Proofs about TypeC for all lengths of the toggle, all limits and every  *)
(* partner: the types, and that the machine implements TypecPort, step by  *)
(* step.  The refinement needs the types for one reason only: the passes   *)
(* of a half of the toggle are a number, so that one case of ToggleRead    *)
(* applies.                                                                *)
(***************************************************************************)
EXTENDS TypeC, TLAPS

\* One more pass of a half is still within the two halves.
LEMMA HalfFits ==
    /\ 0 \in 0 .. RdPasses+RpPasses /\ 1 \in 0 .. RdPasses+RpPasses
    /\ 0 \in 0 .. Detections /\ 0 \in 0 .. Tries /\ 0 \in 0 .. GiveUpPasses
    /\ \A i \in 1 .. RdPasses-1 : i+1 \in 0 .. RdPasses+RpPasses
    /\ \A i \in 1 .. RpPasses-1 : i+1 \in 0 .. RdPasses+RpPasses
  BY TypeCAssumption

LEMMA ReadingType == Cc \in Reading
  BY DEF Cc, Reading

\* A half of the toggle ends in another pass of it, in the other half, or where
\* it has found a partner.
LEMMA ToggleReadEnds ==
    ASSUME TypeOK, ToggleRead
    PROVE  /\ \/ UNCHANGED <<state, sub>>
              \/ state' \in {"SNK_Unattached", "SRC_Unattached"} /\ sub' = "enter"
           /\ cc' \in {"open", "rd", "rp"} /\ half' \in {"rd", "rp"}
           /\ n' \in 0 .. RdPasses+RpPasses /\ det' \in 0 .. Detections
<1> DEFINE limit == IF half = "rd" THEN RdPasses ELSE RpPasses
<1>1. /\ n \in Int /\ n >= 0 /\ det \in 0 .. Detections /\ half \in {"rd", "rp"}
      /\ limit \in Nat /\ n \in 0 .. RdPasses+RpPasses
      /\ cc \in {"open", "rd", "rp"}
  BY TypeCAssumption DEF TypeOK
<1>2. CASE n = 0 /\ Show(half) /\ n' = 1 /\ UNCHANGED <<half, det, state, sub>>
  BY <1>1, <1>2, HalfFits DEF Show
<1>3. CASE /\ UNCHANGED cc
           /\ IF det + 1 >= Detections
              THEN /\ Go(IF half = "rd" THEN "SNK_Unattached" ELSE "SRC_Unattached")
                   /\ det' = 0 /\ half' = "rd" /\ n' = 0
              ELSE det' = det + 1 /\ Stay /\ UNCHANGED <<half, n>>
  BY <1>1, <1>3, HalfFits, TypeCAssumption DEF Go, Stay
<1>4. CASE n \in 1 .. limit-1 /\ n' = n + 1 /\ det' = 0 /\ UNCHANGED <<cc, half, state, sub>>
  BY <1>1, <1>4, HalfFits, TypeCAssumption
<1>5. CASE /\ half' = IF half = "rd" THEN "rp" ELSE "rd"
           /\ n' = 0 /\ UNCHANGED <<cc, det, state, sub>>
  BY <1>1, <1>5, HalfFits
<1> QED
  BY <1>2, <1>3, <1>4, <1>5 DEF ToggleRead

-----------------------------------------------------------------------------
(* Types *)

LEMMA InitTypes == Init => TypeOK
<1> SUFFICES ASSUME Init PROVE TypeOK
  OBVIOUS
<1>1. age \in 0 .. 2 /\ tries \in 0 .. Tries /\ n \in 0 .. RdPasses+RpPasses
      /\ det \in 0 .. Detections /\ wait \in 0 .. GiveUpPasses
  BY HalfFits DEF Init
<1>2. {light, comm, hand, fixed} \subseteq BOOLEAN
  BY DEF Init
<1> QED
  BY <1>1, <1>2 DEF Init, TypeOK, State, Reading

\* What a step of the machine leaves of the part it does not write.
LEMMA EnvTypes == TypeOK /\ UNCHANGED env => {comm', hand', fixed'} \subseteq BOOLEAN
                                       /\ partner' \in {"none", "source", "sink", "debug", "accessory"}
                                       /\ vbus' \in {"low", "5V", "high"}
  BY DEF TypeOK, env

LEMMA ToggleTypes ==
    TypeOK /\ UNCHANGED toggle
        => /\ half' \in {"rd", "rp"} /\ n' \in 0 .. RdPasses+RpPasses
           /\ det' \in 0 .. Detections /\ wait' \in 0 .. GiveUpPasses
  BY DEF TypeOK, toggle

LEMMA ReadTypes == Read => seen' \in Reading
  BY ReadingType DEF Read, Reading

LEMMA MachineTypes == TypeOK /\ usb_tc_run => TypeOK'
<1> SUFFICES ASSUME TypeOK, usb_tc_run PROVE TypeOK'
  OBVIOUS
<1> USE DEF Go, Stay, Entered, Tell, Show, At, State
<1>1. CASE DisableEnter
  BY <1>1, EnvTypes, ToggleTypes DEF DisableEnter, TypeOK
<1>2. CASE DisableExit
  BY <1>2, EnvTypes, ToggleTypes DEF DisableExit, TypeOK
<1>3. CASE SnkUnattachedEnter
  BY <1>3, EnvTypes, ToggleTypes DEF SnkUnattachedEnter, TypeOK
<1>4. CASE SnkUnattachedExit
  BY <1>4, EnvTypes, ToggleTypes, ReadTypes DEF SnkUnattachedExit, TypeOK
<1>5. CASE WaitEnter
  <2>1. \A s \in DOMAIN Shown : Shown[s] \in {"open", "rd", "rp"} /\ s \in State
    BY DEF Shown, TypeOK
  <2> QED
    BY <1>5, <2>1, EnvTypes, ToggleTypes DEF WaitEnter, TypeOK
<1>6. CASE SnkAttachWaitExit
  <2>1. state' \in State /\ sub' \in {"enter", "exit"}
    BY <1>6 DEF SnkAttachWaitExit, TypeOK, TrySource
  <2>2. tries' \in 0 .. Tries
    BY <1>6, TypeCAssumption DEF SnkAttachWaitExit, TypeOK, TrySource, TriedOut
  <2> QED
    BY <1>6, <2>1, <2>2, EnvTypes, ToggleTypes, ReadTypes DEF SnkAttachWaitExit, TypeOK
<1>7. CASE AttachedEnter
  BY <1>7, EnvTypes, ToggleTypes, HalfFits DEF AttachedEnter, TypeOK
<1>8. CASE SnkAttachedExit
  BY <1>8, EnvTypes, ToggleTypes, ReadTypes DEF SnkAttachedExit, TypeOK
<1>9. CASE SrcUnattachedExit
  BY <1>9, EnvTypes, ToggleTypes, ReadTypes DEF SrcUnattachedExit, TypeOK
<1>10. CASE SrcAttachWaitExit
  BY <1>10, EnvTypes, ToggleTypes, ReadTypes DEF SrcAttachWaitExit, TypeOK
<1>11. CASE SrcAttachedExit
  <2>1. state' \in State /\ sub' \in {"enter", "exit"}
    BY <1>11 DEF SrcAttachedExit, TypeOK
  <2> QED
    BY <1>11, <2>1, EnvTypes, ToggleTypes, ReadTypes, HalfFits DEF SrcAttachedExit, Ended, TypeOK
<1>12. CASE SpecialEnter
  BY <1>12, EnvTypes, ToggleTypes DEF SpecialEnter, Special, TypeOK
<1>13. CASE SpecialExit
  BY <1>13, EnvTypes, ToggleTypes, ReadTypes DEF SpecialExit, TypeOK
<1>14. CASE ToggleEnter
  <2>1. seen' \in Reading
    BY <1>14, ReadTypes DEF ToggleEnter, TypeOK
  <2>2. light' \in BOOLEAN
    BY <1>14 DEF ToggleEnter, TypeOK
  <2>3. /\ half' \in {"rd", "rp"} /\ n' \in 0 .. RdPasses+RpPasses
        /\ det' \in 0 .. Detections /\ wait' \in 0 .. GiveUpPasses
    BY <1>14, ToggleTypes, HalfFits DEF ToggleEnter, TypeOK
  <2> QED
    BY <1>14, <2>1, <2>2, <2>3, EnvTypes DEF ToggleEnter, TypeOK
<1>15. CASE ToggleExit
  <2>1. wait' \in 0 .. GiveUpPasses
    BY <1>15, TypeCAssumption DEF ToggleExit, TypeOK
  <2> QED
    BY <1>15, <2>1, ToggleReadEnds, EnvTypes DEF ToggleExit, TypeOK
<1>16. CASE TrySrcExit
  BY <1>16, EnvTypes, ToggleTypes, ReadTypes DEF TrySrcExit, TypeOK
<1>17. CASE TryWaitSnkExit
  BY <1>17, EnvTypes, ToggleTypes, ReadTypes DEF TryWaitSnkExit, TypeOK
<1> QED
  BY <1>1, <1>2, <1>3, <1>4, <1>5, <1>6, <1>7, <1>8, <1>9, <1>10, <1>11, <1>12, <1>13,
     <1>14, <1>15, <1>16, <1>17 DEF usb_tc_run

LEMMA NextTypes == TypeOK /\ [Next]_vars => TypeOK'
<1> SUFFICES ASSUME TypeOK, [Next]_vars PROVE TypeOK'
  OBVIOUS
<1> USE DEF Tell
<1>1. CASE usb_tc_run
  BY <1>1, MachineTypes
<1>2. CASE Pass
  BY <1>2, EnvTypes, ToggleTypes DEF Pass, TypeOK
<1>3. CASE Plug
  BY <1>3, ToggleTypes DEF Plug, World, Machine, TypeOK
<1>4. CASE Manage
  BY <1>4, HalfFits DEF Manage, World, TypeOK, State, Reading
<1>5. CASE Ask
  BY ZenonT(40), <1>5, ToggleTypes DEF Ask, World, Machine, TypeOK
<1>6. CASE Settled
  BY <1>6, ToggleTypes DEF Settled, Machine, TypeOK
<1>7. CASE UNCHANGED vars
  BY <1>7, EnvTypes, ToggleTypes DEF vars, Machine, TypeOK
<1> QED
  BY <1>1, <1>2, <1>3, <1>4, <1>5, <1>6, <1>7 DEF Next

\* Every value has its type, whatever the limits are.
THEOREM TypeCorrect == Spec => []TypeOK
<1>1. Init => TypeOK
  BY InitTypes
<1>2. TypeOK /\ [Next]_vars => TypeOK'
  BY NextTypes
<1> QED
  BY <1>1, <1>2, PTL DEF Spec

-----------------------------------------------------------------------------
(* The refinement: View is the port as the manager sees it *)

LEMMA InitRefines == Init => Seen!Init
  BY DEF Init, Seen!Init, View

\* A state the manager does not tell from waiting for its partner.
Waits == {"SNK_AttachWait", "SRC_AttachWait", "DEBUG_Attached", "ACCESSORY_Attached",
          "Try_SRC", "TryWAIT_SNK"}

LEMMA ViewOfWait == state \in Waits \/ (state \in {"SNK_Attached", "SRC_Attached"} /\ sub = "enter")
                    => View = "Wait"
  BY DEF View, Waits

\* A callback that waits on, attaches or loses its partner.
WaitsOn ==
    /\ state \in Waits /\ told' = "none"
    /\ \/ state' \in Waits
       \/ state' \in {"SNK_Attached", "SRC_Attached"} /\ sub' = "enter"
       \/ state' \in {"SNK_Unattached", "SRC_Unattached"}

LEMMA WaitsOnRefines == WaitsOn => Seen!Next
<1> SUFFICES ASSUME WaitsOn PROVE Seen!Next
  OBVIOUS
<1>1. View = "Wait" /\ told' = "none"
  BY ViewOfWait DEF WaitsOn
<1>2. View' \in {"Wait", "SnkUnattached", "SrcUnattached"}
  BY DEF WaitsOn, View, Waits
<1> QED
  BY <1>1, <1>2 DEF Seen!Next, Seen!Lose, Seen!Inside, Seen!Step, Seen!Unattached

\* A step that neither moves the port nor tells anything.
LEMMA InsideRefines == View' = View /\ told' = "none" => Seen!Next
  BY DEF Seen!Next, Seen!Inside

LEMMA MachineRefines == TypeOK /\ usb_tc_run => Seen!Next
<1> SUFFICES ASSUME TypeOK, usb_tc_run PROVE Seen!Next
  OBVIOUS
<1> USE DEF Go, Stay, Entered, Tell, At
<1>1. CASE DisableEnter
  BY <1>1, InsideRefines DEF DisableEnter, View
<1>2. CASE DisableExit
  <2>1. CASE UNCHANGED <<state, sub, delay>>
    BY <1>2, <2>1, InsideRefines DEF DisableExit, View
  <2>2. CASE delay # "forever" /\ state' = "DRP_TOGGLE"
    BY <1>2, <2>2 DEF DisableExit, View, Seen!Next, Seen!Settle, Seen!Step
  <2> QED
    BY <1>2, <2>1, <2>2 DEF DisableExit
<1>3. CASE SnkUnattachedEnter
  BY <1>3 DEF SnkUnattachedEnter, View, Seen!Next, Seen!Miss, Seen!Inside, Seen!Step, Seen!Unattached
<1>4. CASE SnkUnattachedExit
  BY <1>4 DEF SnkUnattachedExit, View, Seen!Next, Seen!Find, Seen!Miss, Seen!Inside, Seen!Step,
       Seen!Unattached
<1>5. CASE WaitEnter
  <2>1. state' = state /\ state \in DOMAIN Shown /\ told' = "none"
    BY <1>5 DEF WaitEnter
  <2>2. View' = View
    BY <2>1 DEF View, Shown
  <2> QED
    BY <2>1, <2>2, InsideRefines
<1>6. CASE SnkAttachWaitExit
  <2>1. WaitsOn
    BY <1>6 DEF SnkAttachWaitExit, TrySource, WaitsOn, Waits
  <2> QED
    BY <2>1, WaitsOnRefines
<1>7. CASE AttachedEnter
  BY <1>7 DEF AttachedEnter, View, Seen!Next, Seen!Attach, Seen!Step
<1>8. CASE SnkAttachedExit
  BY <1>8 DEF SnkAttachedExit, View, Seen!Next, Seen!Detach, Seen!Inside, Seen!Step
<1>9. CASE SrcUnattachedExit
  BY <1>9 DEF SrcUnattachedExit, View, Seen!Next, Seen!Find, Seen!Miss, Seen!Inside, Seen!Step,
       Seen!Unattached
<1>10. CASE SrcAttachWaitExit
  <2>1. WaitsOn
    BY <1>10 DEF SrcAttachWaitExit, WaitsOn, Waits
  <2> QED
    BY <2>1, WaitsOnRefines
<1>11. CASE SrcAttachedExit
  <2>1. View = "Src"
    BY <1>11 DEF SrcAttachedExit, View
  <2>2. CASE Dropped
    BY <1>11, <2>1, <2>2 DEF SrcAttachedExit, Ended, View, Seen!Next, Seen!Detach, Seen!Step
  <2>3. CASE ~Dropped /\ light
    BY <1>11, <2>1, <2>3 DEF SrcAttachedExit, Ended, View, Seen!Next, Seen!Detach, Seen!Step
  <2>4. CASE ~Dropped /\ ~light
    BY <1>11, <2>4, InsideRefines DEF SrcAttachedExit, Ended, View
  <2> QED
    BY <2>2, <2>3, <2>4
<1>12. CASE SpecialEnter
  <2>1. WaitsOn
    BY <1>12 DEF SpecialEnter, Special, WaitsOn, Waits
  <2> QED
    BY <2>1, WaitsOnRefines
<1>13. CASE SpecialExit
  <2>1. WaitsOn
    BY <1>13 DEF SpecialExit, Special, WaitsOn, Waits
  <2> QED
    BY <2>1, WaitsOnRefines
<1>14. CASE ToggleEnter
  BY <1>14, InsideRefines DEF ToggleEnter, View
<1>15. CASE ToggleExit
  <2>1. View = "Toggle" /\ told' \in {"none", "END"}
    BY <1>15 DEF ToggleExit, View
  <2>2. View' \in {"Toggle", "SnkUnattached", "SrcUnattached"}
    BY <1>15, ToggleReadEnds DEF ToggleExit, View
  <2> QED
    BY <2>1, <2>2 DEF Seen!Next, Seen!Settle, Seen!GiveUp, Seen!Inside, Seen!Step, Seen!Unattached
<1>16. CASE TrySrcExit
  <2>1. WaitsOn
    BY <1>16 DEF TrySrcExit, WaitsOn, Waits
  <2> QED
    BY <2>1, WaitsOnRefines
<1>17. CASE TryWaitSnkExit
  <2>1. WaitsOn
    BY <1>17 DEF TryWaitSnkExit, WaitsOn, Waits
  <2> QED
    BY <2>1, WaitsOnRefines
<1> QED
  BY <1>1, <1>2, <1>3, <1>4, <1>5, <1>6, <1>7, <1>8, <1>9, <1>10, <1>11, <1>12, <1>13,
     <1>14, <1>15, <1>16, <1>17 DEF usb_tc_run

LEMMA NextRefines == TypeOK /\ [Next]_vars => [Seen!Next]_<<View, told>>
<1> SUFFICES ASSUME TypeOK, [Next]_vars PROVE [Seen!Next]_<<View, told>>
  OBVIOUS
<1>1. CASE usb_tc_run
  BY <1>1, MachineRefines
<1>2. CASE Pass \/ Plug \/ Ask \/ Settled
  <2>1. UNCHANGED <<state, sub, delay>> /\ told' = "none"
    BY <1>2 DEF Pass, Plug, Ask, Settled, Machine, Tell
  <2> QED
    BY <2>1, InsideRefines DEF View
<1>3. CASE Manage
  <2>1. View' \in {"Disable", "Restart", "Toggle"} /\ told' = "order"
    BY <1>3 DEF Manage, World, Tell, View
  <2> QED
    BY <2>1 DEF Seen!Next, Seen!Managed
<1>4. CASE UNCHANGED vars
  BY <1>4 DEF vars, Machine, View
<1> QED
  BY <1>1, <1>2, <1>3, <1>4 DEF Next

\* For every length of the toggle and every limit, the Type-C machine takes only
\* the steps, and posts only the events, the port manager's model relies on.
THEOREM MachineImplements == Spec => Implements
<1>1. Init => Seen!Init
  BY InitRefines
<1>2. TypeOK /\ [Next]_vars => [Seen!Next]_<<View, told>>
  BY NextRefines
<1> QED
  BY <1>1, <1>2, TypeCorrect, PTL DEF Spec, Implements, Seen!Spec
=============================================================================
