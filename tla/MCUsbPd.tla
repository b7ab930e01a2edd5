------------------------------ MODULE MCUsbPd ------------------------------
EXTENDS UsbPd

\* Each scene gives the partner a part of the messages and the other tasks a part
\* of what they ask: together, every message, every request and every timing.
Scene(a, r, asked) == [as |-> a, rx |-> r, asks |-> asked]

MCScenes == {
    \* a sink's contract, its renegotiation, its hard resets
    Scene({"snk"}, {"SourceCap", "Accept", "PsRdy", "Reject"}, {"voltage", "mid", "hardreset"}),
    Scene({"snk"}, {"SourceCap", "SoftReset", "Accept"}, {"mid", "burst"}),
    Scene({"snk"}, {"SourceCap", "Accept", "PsRdy", "Unchunked", "GetBattCap", "GetBattStatus"}, {}),
    Scene({"snk"}, {"SourceCap", "Accept", "PsRdy", "GetSinkCap", "GetSourceCap", "GetSinkCapExt",
                       "GetRevision"}, {}),
    Scene({"snk"}, {"SourceCap", "NotSupp", "Unsupported", "Ignored"}, {"disable"}),
    \* a source's
    Scene({"src"}, {"ReqFixed", "ReqPps", "ReqBad", "Accept"}, {"mid"}),
    Scene({"src"}, {"ReqPps", "SoftReset"}, {"mid", "burst"}),
    Scene({"src"}, {"ReqFixed", "NotSupp", "GetSourceCap"}, {"softreset"}),
    Scene({"src"}, {"ReqPps", "GetRevision", "GetPpsStatus"}, {}),
    Scene({"src"}, {"ReqFixed", "BistCarrier", "BistTest", "EprRequest"}, {}),
    Scene({"src"}, {"ReqFixed", "Accept", "Reject"}, {"swap", "mid"}),
    \* and the two roles in turn
    Scene({"snk", "src"}, {"SourceCap", "ReqFixed"}, {"disable", "hardreset"}) }

\* Partners that fall silent, whatever they have been asked.
QuietScenes == {
    Scene({"snk"}, {"SourceCap", "Accept", "PsRdy"}, {"silence", "voltage"}),
    Scene({"src"}, {"ReqFixed"}, {"silence", "mid"}),
    Scene({"src"}, {"ReqPps"}, {"silence"}) }
=============================================================================
