------------------------------- MODULE MCWpc --------------------------------
(* Small instances of Wpc.tla: what the receivers send.                    *)
EXTENDS Wpc

\* What decides how a session is identified and configured
CnfgPackets == {"EPT", "SIG", "ID", "IDX", "XID", "XIDM", "XIDR", "PCH", "PCHX", "CFG",
                "OTHER", "BAD"}

\* An MPP receiver that negotiates, and again
NegoPackets == {"EPT", "SIG", "IDX", "XIDM", "XIDR", "CFG", "CE", "RP8", "XCE", "SRQ00",
                "SRQF0", "NEGO", "SADT", "OTHER", "BAD"}

\* One that cloaks
CloakPackets == {"EPT", "SIG", "IDX", "XIDM", "CFG", "XCE", "SRQ00", "CLOAK", "CLOAKX",
                 "GET", "REPORT", "REPORTX"}

MppPackets == NegoPackets \cup CloakPackets

CnfgLivePackets == CnfgPackets \cup {"CE", "RP8", "SRQ00", "CLOAK", "REPORT"}

NoCounts == {0}
Counts == {0, 1, 3}
=============================================================================
