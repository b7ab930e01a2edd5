----------------------------- MODULE DataStream ----------------------------
(***************************************************************************)
(* The data streams an MPP receiver authenticates the transmitter with     *)
(* (app/wpc_5_xfer_4_dstrm.c and the poll in app/wpc_xfer.c).  The         *)
(* receiver speaks and the transmitter answers; either may go unheard.     *)
(* The receiver opens a stream, sends its request in pieces and closes the *)
(* stream with a checksum; called by an attention pattern it polls, and    *)
(* the transmitter opens a stream the other way.  A checksum stands for    *)
(* the sequence of pieces it was computed over.                            *)
(***************************************************************************)
EXTENDS Naturals, Sequences

CONSTANTS Requests,     \* bound: the requests of one behaviour, see Response
          Faults      \* bound: how many faults a request meets

VARIABLES
  wants,                        \* the requests the receiver makes in this behaviour
  in_status, in_parity, recv_buf, have_recv, recv_crc, auth_request_type,
  out_status, out_parity, have_send, last_send, need_send, send_crc, send_cpy,
  need_atn_cnt, need_atn_evt,   \* the attention pattern is due; a response waits
  auth_timer,                   \* WPC_AUTH_TIMER: the chip is to sign the challenge
  array_chall,                  \* the signature, or the code of an error
  renego,                       \* a changed capability waits for a poll: "no",
                                \* "once", or "hot" (at every poll)
  ask, fsk,                     \* what is in the air: a word and its answer
  prx,                          \* the receiver
  passed,                       \* history: a poll meant for this request's response
                                \* fetched the capability instead
  faults                        \* packets lost and cloaks since the last request
incoming == <<in_status, in_parity, recv_buf, have_recv, recv_crc>>
outgoing == <<out_status, out_parity, have_send, last_send, need_send, send_crc, send_cpy>>
attention == <<need_atn_cnt, need_atn_evt, auth_timer>>
vars == <<incoming, auth_request_type, outgoing, attention, array_chall, renego, ask, fsk, prx, passed, faults, wants>>

\* A request in pieces, the first with its type; only a challenge has another,
\* its nonce.  The response to it: a header, and what follows it.
Pieces(q, nonce) == IF q \in {"challenge", "wrongSlot"} THEN <<q, nonce>> ELSE <<q>>
Response(q, nonce) ==
  CASE q = "digests" -> <<"DIGESTS", "digest">>
    [] q = "noSlots" -> <<"DIGESTS">>
    [] q = "certificate" -> <<"CERTIFICATE", "cert1", "cert2">>
    [] q = "challenge" -> <<"CHALLENGE_AUTH", nonce>>
    [] OTHER -> <<"error">>
Answers == {"digests", "noSlots", "certificate", "challenge"}   \* the others are errors

None == [type |-> "none"]
Silent == [type |-> "silent"]
Packet(t, x) == [type |-> t, data |-> x]
Word(t) == [type |-> t]
Data(t, p, x) == [type |-> t, parity |-> p, data |-> x]

Does == {"rests", "opens", "sends", "closes", "waits", "polls", "replies", "unanswered"}
TypeOK ==
  /\ {in_status, out_status} \subseteq {"standby", "opening", "sending", "closing"}
  /\ {in_parity, out_parity, prx.parity, prx.nonce} \subseteq 0..1
  /\ have_recv \in 0..2 /\ {have_send, need_send} \subseteq 0..3 /\ last_send \in 0..1
  /\ {need_atn_cnt, need_atn_evt, auth_timer, passed, prx.done} \subseteq BOOLEAN
  /\ renego \in {"no", "once", "hot"} /\ prx.does \in Does
  /\ wants \in Requests /\ prx.q \in wants /\ prx.reply \in {"ack", "unexpected", "crc"}

Init ==
  /\ in_status = "standby" /\ in_parity = 0 /\ recv_buf = <<"-", 0>> /\ have_recv = 0
  /\ recv_crc = <<>> /\ auth_request_type = "-"
  /\ out_status = "standby" /\ out_parity = 0 /\ have_send = 0 /\ last_send = 0 /\ need_send = 0
  /\ send_crc = <<>> /\ send_cpy = Silent
  /\ need_atn_cnt = FALSE /\ need_atn_evt = FALSE /\ auth_timer = FALSE
  /\ array_chall = "-" /\ renego = "no" /\ passed = FALSE /\ ask = None /\ fsk = None /\ faults = 0
  /\ wants \in Requests
  /\ \E q \in wants : prx = [does |-> "rests", q |-> q, nonce |-> 0, sent |-> 0, got |-> <<>>,
                                parity |-> 0, reply |-> "ack", done |-> FALSE]

-----------------------------------------------------------------------------
(* The transmitter's handlers.                                             *)

\* ds_mpp_ptx_sadc_open decides what the response is, again at every poll.  (An
\* error is one value here: a second poll may turn one code into another.)
Verdict == IF auth_request_type \in Answers THEN auth_request_type ELSE "error"
Content == IF auth_request_type \in Answers THEN Response(auth_request_type, array_chall) ELSE <<"error">>
ds_mpp_ptx_sadc_open ==
  /\ auth_request_type' = Verdict
  /\ array_chall' = IF Verdict = "error" THEN "error" ELSE array_chall
  /\ need_send' = Len(Response(Verdict, 0)) /\ have_send' = 0 /\ last_send' = 0 /\ out_parity' = 1
  /\ fsk' = Packet("open", need_send') /\ send_cpy' = fsk' /\ UNCHANGED send_crc

\* have pieces have been sent: the next one
ds_mpp_ptx_sadt_xfer(have) ==
  LET piece == Content[have + 1]
  IN /\ out_parity' = 1 - out_parity /\ have_send' = have /\ last_send' = 1
     /\ fsk' = Data("data", out_parity', piece) /\ send_cpy' = fsk'
     /\ send_crc' = Append(IF have = 0 THEN <<>> ELSE send_crc, piece)
     /\ UNCHANGED <<need_send, auth_request_type, array_chall>>

ds_mpp_ptx_sadc_close ==
  /\ have_send' = have_send + last_send
  /\ fsk' = Packet("close", send_crc) /\ send_cpy' = fsk'
  /\ UNCHANGED <<out_parity, last_send, need_send, send_crc, auth_request_type, array_chall>>
Says(packet) == /\ fsk' = packet
                /\ UNCHANGED <<out_parity, have_send, last_send, need_send, send_crc, send_cpy,
                               auth_request_type, array_chall>>
ds_resend_ptx_fsk_dataAnew ==
  IF out_status = "sending" THEN ds_mpp_ptx_sadt_xfer(have_send) /\ UNCHANGED out_status
  ELSE Says(send_cpy) /\ UNCHANGED out_status
ds_resend_ptx_fsk_data == Says(send_cpy) /\ UNCHANGED out_status

\* The reply to a piece or to the opening or closing of the response.
ds_mpp_prx_sdsr_pkt_handler(reply) ==
  /\ UNCHANGED <<incoming, auth_timer, renego>>
  /\ need_atn_cnt' = (need_atn_cnt \/ (out_status = "closing" /\ reply = "crc"))
  /\ need_atn_evt' = IF out_status = "closing" /\ reply # "unexpected" THEN reply = "crc" ELSE need_atn_evt
  /\ \/ out_status = "opening" /\ reply = "ack" /\ out_status' = "sending" /\ ds_mpp_ptx_sadt_xfer(0)
     \/ /\ out_status = "sending" /\ reply \in {"ack", "unexpected"}
        /\ IF have_send + last_send >= need_send
           THEN out_status' = "closing" /\ ds_mpp_ptx_sadc_close
           ELSE UNCHANGED out_status /\ ds_mpp_ptx_sadt_xfer(have_send + last_send)
     \/ out_status = "closing" /\ reply = "ack" /\ out_status' = "standby" /\ Says(Word("null"))
     \/ out_status = "closing" /\ reply = "crc" /\ out_status' = "standby" /\ Says(Silent)
     \/ /\ \/ out_status = "opening" /\ reply # "ack"
           \/ out_status = "sending" /\ reply = "crc"
           \/ out_status = "closing" /\ reply = "unexpected"
        /\ ds_resend_ptx_fsk_data
     \/ out_status = "standby" /\ Says(Word("null")) /\ UNCHANGED out_status

\* A changed capability goes first; every poll ends the attention pattern.
mpp_dsr_poll_handler ==
  /\ need_atn_cnt' = FALSE /\ UNCHANGED <<incoming, auth_timer, need_atn_evt>>
  /\ \/ /\ renego # "no" /\ renego' = IF renego = "hot" THEN "hot" ELSE "no"
        /\ Says(Word("ecap")) /\ UNCHANGED out_status
     \/ /\ renego = "no" /\ UNCHANGED renego /\ need_atn_evt
        /\ IF out_status \in {"standby", "opening"} THEN out_status' = "opening" /\ ds_mpp_ptx_sadc_open
           ELSE ds_resend_ptx_fsk_data
     \/ renego = "no" /\ ~need_atn_evt /\ Says(Silent) /\ UNCHANGED <<renego, out_status>>

\* The request: its opening, its pieces and its closing.
sadc_open ==
  /\ in_status' = "opening" /\ in_parity' = 0 /\ have_recv' = 0 /\ recv_crc' = <<>>
  /\ auth_request_type' = "-" /\ fsk' = Packet("sdsr", "ack")
  /\ UNCHANGED <<recv_buf, outgoing, attention, array_chall, renego>>
sadc_close(crc) ==
  LET right == crc = recv_crc
  IN /\ in_status' = "standby" /\ fsk' = Packet("sdsr", IF right THEN "ack" ELSE "crc")
     /\ auth_timer' = (auth_timer \/ (right /\ auth_request_type = "challenge"))
     /\ need_atn_cnt' = (need_atn_cnt \/ (right /\ auth_request_type # "challenge"))
     /\ need_atn_evt' = (need_atn_evt \/ right)
     /\ out_status' = IF right THEN "standby" ELSE out_status
     /\ UNCHANGED <<in_parity, recv_buf, have_recv, recv_crc, auth_request_type, out_parity, have_send,
                    last_send, need_send, send_crc, send_cpy, array_chall, renego>>

Taken(p, piece) ==
  /\ recv_crc' = Append(recv_crc, piece) /\ in_parity' = 1 - p
  /\ recv_buf' = [i \in 1..2 |-> IF i = have_recv + 1 THEN piece ELSE recv_buf[i]]
  /\ have_recv' = have_recv + 1
ds_mpp_prx_sadt_pkt_process(p, piece) ==
  /\ IF in_status = "standby" THEN fsk' = Word("nd") /\ UNCHANGED <<incoming, auth_request_type>>
     ELSE /\ IF p = in_parity THEN Taken(p, piece)
             ELSE UNCHANGED <<recv_crc, in_parity, recv_buf, have_recv>>
          /\ fsk' = Word("ack") /\ in_status' = "sending"
          /\ auth_request_type' = IF in_status = "opening" THEN piece ELSE auth_request_type
  /\ UNCHANGED <<outgoing, attention, array_chall, renego>>

\* A packet is longer than WPC_AUTH_TIMER runs: the challenge is signed first.
Handle ==
  /\ ask # None /\ ~auth_timer /\ ask' = None
  /\ passed' = (passed \/ (ask.type = "poll" /\ renego # "no"))
  /\ \/ ask.type = "open" /\ sadc_open
     \/ ask.type = "data" /\ ds_mpp_prx_sadt_pkt_process(ask.parity, ask.data)
     \/ ask.type = "close" /\ sadc_close(ask.data)
     \/ ask.type = "sdsr" /\ ds_mpp_prx_sdsr_pkt_handler(ask.data)
     \/ ask.type = "poll" /\ mpp_dsr_poll_handler
  /\ UNCHANGED <<prx, faults>>

\* WPC_EVT_SE_IC_TBS_AUTH: the chip signs what was received.
SignUnsaid ==
        /\ auth_timer /\ auth_timer' = FALSE /\ array_chall' = recv_buf[2]
        /\ UNCHANGED <<incoming, auth_request_type, outgoing, need_atn_cnt, need_atn_evt, renego, ask, fsk,
                       prx, passed, faults>>
Sign == /\ auth_timer /\ auth_timer' = FALSE /\ need_atn_cnt' = TRUE /\ array_chall' = recv_buf[2]
        /\ UNCHANGED <<incoming, auth_request_type, outgoing, need_atn_evt, renego, ask, fsk, prx, passed, faults>>
-----------------------------------------------------------------------------
(* The receiver, and what else happens in the power transfer.              *)

Idle == ask = None /\ fsk = None
Speak ==
  /\ Idle   \* a receiver whose reply goes unanswered polls or repeats it
  /\ \/ prx.does = "opens" /\ ask' = Word("open")
     \/ prx.does = "sends" /\ ask' = Data("data", prx.sent % 2, Pieces(prx.q, prx.nonce)[prx.sent + 1])
     \/ prx.does = "closes" /\ ask' = Packet("close", Pieces(prx.q, prx.nonce))
     \/ prx.does \in {"polls", "unanswered"} /\ ask' = Word("poll")
     \/ prx.does \in {"replies", "unanswered"} /\ ask' = Packet("sdsr", prx.reply)
  /\ UNCHANGED <<incoming, auth_request_type, outgoing, attention, array_chall, renego, fsk, prx, passed, faults>>

Lose == /\ \/ ask # None /\ ask' = None
           \/ fsk \notin {None, Silent} /\ UNCHANGED ask
        /\ fsk' = Silent /\ faults < Faults[prx.q] /\ faults' = faults + 1
        /\ UNCHANGED <<incoming, auth_request_type, outgoing, attention, array_chall, renego, prx, passed>>

Replies(r) == [prx EXCEPT !.does = "replies", !.reply = r, !.done = FALSE]
Hears ==
  CASE fsk.type = "sdsr" -> [prx EXCEPT !.does = IF fsk.data # "ack" THEN "opens"
                                                 ELSE IF prx.does = "opens" THEN "sends" ELSE "waits",
                                        !.sent = 0]
    [] fsk.type = "ack" -> LET n == prx.sent + 1
                           IN [prx EXCEPT !.sent = n, !.does = IF n = Len(Pieces(prx.q, prx.nonce))
                                                               THEN "closes" ELSE "sends"]
    [] fsk.type = "nd" -> [prx EXCEPT !.does = "opens"]
    [] fsk.type = "open" -> [Replies("ack") EXCEPT !.got = <<>>, !.parity = 0]
    [] fsk.type = "data" -> IF fsk.parity # prx.parity THEN Replies("unexpected")
                            ELSE [Replies("ack") EXCEPT !.got = Append(@, fsk.data), !.parity = 1 - @]
    [] fsk.type = "close" -> IF fsk.data = prx.got THEN [Replies("ack") EXCEPT !.done = TRUE]
                             ELSE Replies("crc")
    [] fsk.type = "null" -> [prx EXCEPT !.does = IF prx.done THEN "rests" ELSE "waits"]
    [] fsk.type = "ecap" -> [prx EXCEPT !.does = "waits"]
Hear ==
  /\ fsk \notin {None, Silent} /\ fsk' = None /\ prx' = Hears
  /\ UNCHANGED <<incoming, auth_request_type, outgoing, attention, array_chall, renego, ask, passed, faults>>
\* Nothing heard: a receiver that has found the checksum wrong waits for the
\* attention pattern, one that has all it wanted rests, others try again.
Miss ==
  /\ fsk = Silent /\ fsk' = None
  /\ prx' = [prx EXCEPT !.does = IF @ \notin {"replies", "unanswered"} THEN @
                                 ELSE IF prx.done THEN "rests"
                                 ELSE IF prx.reply = "crc" /\ need_atn_cnt THEN "waits" ELSE "unanswered"]
  /\ UNCHANGED <<incoming, auth_request_type, outgoing, attention, array_chall, renego, ask, passed, faults>>

Ask == /\ Idle /\ prx.does = "rests"
       /\ \E q \in wants :
            prx' = [prx EXCEPT !.does = "opens", !.q = q, !.nonce = 1 - @, !.sent = 0, !.done = FALSE]
       /\ passed' = FALSE /\ faults' = 0
       /\ UNCHANGED <<incoming, auth_request_type, outgoing, attention, array_chall, renego, ask, fsk>>
\* A control error is answered by the attention pattern (app/wpc_xfer.c).
Attend == /\ Idle /\ prx.does = "waits" /\ need_atn_cnt /\ prx' = [prx EXCEPT !.does = "polls"]
          /\ UNCHANGED <<incoming, auth_request_type, outgoing, attention, array_chall, renego, ask, fsk, passed, faults>>
\* The pattern came and the poll brought no response: the receiver starts anew.
GiveUp == /\ Idle /\ prx.does = "waits" /\ passed /\ ~need_atn_cnt /\ prx' = [prx EXCEPT !.does = "rests"]
          /\ UNCHANGED <<incoming, auth_request_type, outgoing, attention, array_chall, renego, ask, fsk, passed, faults>>
\* The answer to a power report is the pattern: the capability has changed, and
\* in the heat it stays so until the coil has cooled.
Renego == /\ Idle /\ prx.does = "waits" /\ renego = "no" /\ renego' \in {"once", "hot"}
          /\ prx' = [prx EXCEPT !.does = "polls"]
          /\ UNCHANGED <<incoming, auth_request_type, outgoing, attention, array_chall, ask, fsk, passed, faults>>
Cool == /\ Idle /\ renego = "hot" /\ renego' = "once"
        /\ UNCHANGED <<incoming, auth_request_type, outgoing, attention, array_chall, ask, fsk, prx, passed, faults>>
\* The receiver cloaks: both streams are dropped, and the attention is renewed.
Cloak == /\ Idle /\ faults < Faults[prx.q] /\ faults' = faults + 1
         /\ need_atn_evt /\ ~need_atn_cnt /\ prx.does # "rests"
         /\ in_status' = "standby" /\ out_status' = "standby" /\ need_atn_cnt' = TRUE
         /\ prx' = [prx EXCEPT !.does = IF @ \in {"opens", "sends", "closes"} THEN @ ELSE "waits"]
         /\ UNCHANGED <<in_parity, recv_buf, have_recv, recv_crc, auth_request_type, out_parity, have_send,
                        last_send, need_send, send_crc, send_cpy, need_atn_evt, auth_timer, array_chall,
                        renego, ask, fsk, passed>>
\* auth_init: a new power transfer
Restart == /\ Idle /\ in_status' = "standby" /\ out_status' = "standby"
           /\ need_atn_cnt' = FALSE /\ need_atn_evt' = FALSE /\ prx' = [prx EXCEPT !.does = "rests"]
           /\ UNCHANGED <<in_parity, recv_buf, have_recv, recv_crc, auth_request_type, out_parity, have_send,
                          last_send, need_send, send_crc, send_cpy, auth_timer, array_chall,
                          renego, ask, fsk, passed, faults>>

Step == Handle \/ Sign \/ Speak \/ Hear \/ Miss \/ Attend
Next == (Step \/ Lose \/ Ask \/ GiveUp \/ Renego \/ Cool \/ Cloak \/ Restart) /\ UNCHANGED wants
Spec == Init /\ [][Next]_vars /\ WF_vars(Step /\ UNCHANGED wants)
-----------------------------------------------------------------------------
\* The response a receiver accepts is the whole response to its last request,
\* with the signature of its own nonce, whatever packets were lost on the way.
Intact == prx.does \in {"replies", "unanswered"} /\ prx.done
            => prx.got = Response(prx.q, prx.nonce)
\* A request whose closing was acknowledged is answered, unless the poll for it
\* fetched a changed capability or the power transfer starts anew.
Answered == []<>(need_atn_evt => prx.done \/ passed)
=============================================================================
