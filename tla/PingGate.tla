------------------------------ MODULE PingGate ------------------------------
(***************************************************************************)
(* Who may ping: the locks at the head of wpc_idle_phase_process, on the   *)
(* state of charge and on the battery's temperature, and the other writers *)
(* of what they share.  gd->wpc_disable is one flag and wpc_mode one mode  *)
(* for both locks, the key, the port manager, the USB bridge and the       *)
(* converter's protection: a writer that lets go lets go for all of them.  *)
(*                                                                         *)
(* One action is one event handler.  Of the modes only DISABLE is told     *)
(* from the others; the inside of a session (`powered`) is Wpc.tla.  The   *)
(* wireless thermistor's lock (app/prot.c) is left out: its reading is the *)
(* constant 25 in this build, so it never engages.                         *)
(***************************************************************************)
EXTENDS Integers

CONSTANTS
    Soc,            \* displayed states of charge
    Delay,          \* WPC_DELAY
    Key             \* whether the user presses the key

ASSUME PingGateAssumption == Soc \subseteq 0 .. 100 /\ Delay \in Nat \ {0} /\ Key \in BOOLEAN

VARIABLES
    soc,                            \* gd->real_soc_show
    extreme,                        \* bat_ntc_dual_dischg_lock
    port,                           \* g_port.port_state[0]
    connect,                        \* what the port manager waits for: nothing, CONNECT_SUCCESS, ENUM_DONE
    clicked,                        \* gd->sigle_clicked
    comm, protected,                \* gd->usb_comm_activated, buckboost_protection_flag
    disable, off,                   \* gd->wpc_disable; wpc_mode is DISABLE
    work_delay,                     \* tcpm_qi_work_delay
    socLock, tempLock,              \* wpc_dualsrc_low_soc_lock, wpc_dual_temp_lock
    powered,                        \* the phase is not IDLE
    stopping, overdue,              \* STOP_POWER is pending; since before the last ping event
    leaked                          \* history: another writer cleared `disable` under the SOC lock

inputs  == <<soc, extreme>>
manager == <<port, connect, clicked, comm, protected>>
gate    == <<disable, off, work_delay>>
locks   == <<socLock, tempLock>>
power   == <<powered, stopping, overdue>>
vars    == <<inputs, manager, gate, locks, power, leaked>>

TypeOK ==
    /\ soc \in Soc /\ extreme \in BOOLEAN
    /\ port \in {"NONE", "SINK", "SOURCE"} /\ connect \in {"NO", "SUCCESS", "DONE"}
    /\ clicked \in BOOLEAN /\ comm \in BOOLEAN /\ protected \in BOOLEAN
    /\ disable \in BOOLEAN /\ off \in BOOLEAN /\ work_delay \in 0 .. Delay
    /\ socLock \in BOOLEAN /\ tempLock \in BOOLEAN
    /\ powered \in BOOLEAN /\ stopping \in BOOLEAN /\ overdue \in BOOLEAN
    /\ leaked \in BOOLEAN

Init ==
    /\ soc \in Soc /\ extreme = FALSE
    /\ port = "NONE" /\ connect = "NO" /\ clicked = FALSE /\ comm = FALSE /\ protected = FALSE
    /\ disable = FALSE /\ off = FALSE /\ work_delay = 0
    /\ socLock = FALSE /\ tempLock = FALSE
    /\ powered = FALSE /\ stopping = FALSE /\ overdue = FALSE
    /\ leaked = FALSE

-----------------------------------------------------------------------------
\* tcpm_stop_wpc
StopWithoutDelay == stopping' = TRUE /\ UNCHANGED work_delay
StopWpc == stopping' = TRUE /\ work_delay' = Delay

\* What a lock makes of a flag that both of them share
Sets(flag, locked, released) == (flag \/ locked) /\ ~released

Counted(delay) == IF delay = 0 THEN {0} ELSE {delay, delay - 1}

Undisabled == ~off'
Enabled == ~off' /\ ~disable'

\* wpc_idle_phase_process.  `ready` stands for the conditions that other modules decide
\* (a dead battery, protections, foreign objects): it is FALSE when one of them returns.
Ping(ready) ==
    LET low  == ~socLock /\ soc <= 1
        high == socLock /\ soc >= 2
        hot  == port = "SOURCE" /\ ~tempLock /\ extreme
        cool == port = "SOURCE" /\ tempLock /\ ~extreme
        delay == IF low \/ hot THEN Delay ELSE work_delay
        idle == ~powered /\ (port = "NONE" \/ clicked)
    IN  /\ ~comm /\ ~overdue
        /\ socLock' = Sets(socLock, low, high)
        /\ tempLock' = (port = "SOURCE" /\ Sets(tempLock, hot, cool))
        /\ disable' = Sets(Sets(disable, low, high), hot, cool)
        /\ off' = Sets(Sets(off, low, high), hot, cool)
        /\ stopping' = (stopping \/ low \/ hot)
        /\ overdue' = stopping'
        /\ work_delay' \in IF idle THEN Counted(delay) ELSE {delay}
        /\ powered' = (powered \/ (ready /\ idle /\ delay = 0 /\ Enabled))
        /\ leaked' = (socLock' /\ (leaked \/ cool))
        /\ UNCHANGED <<inputs, manager>>

\* wpc_stop_power, handled before the next ping's event: that comes 100 ms later.
StopPower ==
    /\ stopping
    /\ stopping' = FALSE /\ overdue' = FALSE /\ powered' = FALSE
    /\ UNCHANGED <<inputs, manager, gate, locks, leaked>>

\* wpc_stop_to_idle, from inside the session
EndSession ==
    /\ powered /\ ~stopping /\ stopping' = TRUE
    /\ UNCHANGED <<inputs, manager, gate, locks, powered, overdue, leaked>>

-----------------------------------------------------------------------------
\* The port manager, the converter and the key: whoever stops the session sets the mode.
SetMode(disabled) ==
    /\ off' = disabled
    /\ StopWpc
    /\ UNCHANGED <<inputs, clicked, locks, powered, overdue>>

KeepFlag == UNCHANGED <<disable, leaked>>

ConnectStart ==
    /\ connect = "NO" /\ port = "NONE" /\ connect' = "SUCCESS"
    /\ SetMode(TRUE) /\ KeepFlag
    /\ UNCHANGED <<port, comm, protected>>

ConnectSuccess ==
    /\ connect = "SUCCESS" /\ ~comm /\ connect' = "DONE"
    /\ port' \in {"SINK", "SOURCE"}
    /\ UNCHANGED <<inputs, clicked, comm, protected, gate, locks, power, leaked>>

EnumDone ==
    /\ connect = "DONE" /\ connect' = "NO"
    /\ SetMode(FALSE) /\ KeepFlag
    /\ UNCHANGED <<port, comm, protected>>

ConnectClosed ==
    /\ connect = "NO" /\ port' = "NONE"
    /\ SetMode(FALSE) /\ KeepFlag
    /\ UNCHANGED <<connect, comm, protected>>

\* port_enum_scan_handle: a watchdog on the handling, the end of a port that is not in
\* hand, recharging, and a new request for the charge current
Scan ==
    /\ ~comm
    /\ \/ connect # "NO" /\ connect' = "NO" /\ UNCHANGED port
       \/ port' \in {"NONE", "SOURCE"} /\ UNCHANGED connect
       \/ connect = "NO" /\ port = "SINK" /\ connect' = "DONE" /\ UNCHANGED port
    /\ UNCHANGED <<inputs, clicked, comm, protected, gate, locks, power, leaked>>

\* buckboost_protection_handle
Protect ==
    /\ ~comm
    /\ port' \in {port, "NONE"} /\ protected' = TRUE /\ clicked' = FALSE
    /\ off' = TRUE /\ StopWpc /\ KeepFlag
    /\ UNCHANGED <<inputs, connect, comm, locks, powered, overdue>>

Unprotect ==
    /\ ~comm /\ protected /\ port = "NONE" /\ protected' = FALSE
    /\ SetMode(FALSE) /\ KeepFlag
    /\ UNCHANGED <<port, connect, comm>>

\* key_sigle_click_process, with buckboost_fault_restore
Click ==
    /\ Key
    /\ disable' = FALSE /\ leaked' = socLock
    /\ clicked' = (clicked \/ port # "NONE")
    /\ protected' = FALSE
    /\ IF protected THEN off' = FALSE /\ StopWpc ELSE UNCHANGED <<off, stopping, work_delay>>
    /\ UNCHANGED <<inputs, port, connect, comm, locks, powered, overdue>>

\* key_triple_click_process, with usb_comm_lock and usb_comm_unlock
TripleClick ==
    /\ Key /\ ~protected
    /\ comm' = ~comm /\ port' = IF comm THEN port ELSE "NONE"
    /\ SetMode(comm') /\ KeepFlag
    /\ UNCHANGED <<connect, protected>>

\* The double click, and the ends of a session or of a port that forget the click
Unclick ==
    /\ clicked' = FALSE
    /\ UNCHANGED <<inputs, port, connect, comm, protected, gate, locks, power, leaked>>

\* The gauge, and ntc.c with its hysteresis
Measure ==
    /\ soc' \in Soc /\ extreme' \in BOOLEAN
    /\ UNCHANGED <<manager, gate, locks, power, leaked>>

-----------------------------------------------------------------------------
Next ==
    \/ \E ready \in BOOLEAN : Ping(ready)
    \/ StopPower \/ EndSession
    \/ ConnectStart \/ ConnectSuccess \/ EnumDone \/ ConnectClosed \/ Scan
    \/ Protect \/ Unprotect
    \/ Click \/ TripleClick \/ Unclick
    \/ Measure

Spec == Init /\ [][Next]_vars

-----------------------------------------------------------------------------
(* Properties.                                                             *)

\* DIG_PING is handled before STOP_POWER when both are pending: only the delay keeps
\* a ping from starting under a stop that is about to be handled, when a port
\* changes, a protection trips or a lock engages between two pings.
NoPingUnderStop == [][~powered /\ powered' => ~stopping /\ ~stopping']_vars

\* A ping starts under a held SOC lock only after the temperature lock's release, or the
\* key, has cleared the flag they share.  Port changes, the protection and the USB
\* bridge do not let one start: they only set the mode.
SocLockLeaks == [][~powered /\ powered' /\ socLock' => leaked']_vars

\* "SOC lock with hysteresis: <=1% disable (stop + mode disable), >=2% re-enable"
\* (app/wpc_idle.c:745): at 1 % or less no ping starts.
NoPingAtLowSoc == [][~powered /\ powered' => soc > 1]_vars
=============================================================================
