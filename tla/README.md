# Verification of the power bank firmware

TLA+ specifications of the firmware in `src/`, their TLC runs, and proofs checked by
TLAPS. The firmware drives a battery power bank with a Qi wireless transmitter (BPP and
MPP profiles) and a USB-C port, on a single core: a cooperative event scheduler, a dozen
tasks, and interrupts. `PROJECT.json` lists the parts, the runs, the definitions with the
source lines they model, the hazards and the theorems.

Modelled configuration (`app/config.h`): wireless transmission on, EPP off
(`ENABLE_EPP_FUNC 0`), Samsung PPDE on, the triple-click USB bridge on, one port of type C
(`CONFIG_TYPECA`).

## 1. The system

| Part | Source | State it keeps | Operations |
| --- | --- | --- | --- |
| Scheduler | `osal/osal.c` | event word per task, timer table, tick counters | post, dispatch, start/stop/update timers |
| Interrupts | `hal/timer.c`, `fml/fsk.c`, `hal/ecap.c` | tick, software watchdog, duty ramp, FSK bits, edges | post events, add ticks, write PWM |
| Wireless task | `app/_wpc.c`, `app/wpc_*.c` | phase, receiver's profile and counts, session flags, five timers | one handler per event; packets by phase |
| Ping gate | `app/wpc_idle.c` with `fml/tcpm.c` | `wpc_disable`, `wpc_mode`, `tcpm_qi_work_delay`, two locks | locks and lets go, counts the delay, pings |
| ASK receiver | `lib/ask.c` | capture buffer, bit and packet decoder | decode edges, post header and packet events |
| FSK transmitter | `fml/fsk.c` | bits left, polarity | start, half-cycle interrupt, completion event |
| Data stream | `app/wpc_5_xfer_4_dstrm.c` | segments, acknowledgements | send, receive, retry |
| Protection | `app/prot.c`, `app/fod.c`, `app/qfod.c`, `lib/pfod.c` | debounce counts, flags | trip, recover, stop power |
| Power control | `app/pid.c` | duty, phase, frequency, voltage | control-error step |
| Port manager | `app/port_manager.c` | state per port, the port in hand, pending ends | connect, set voltage, set charge, done, close, scan |
| Type-C and PD | `lib/typec.c`, `lib/pd_tc.c`, `lib/usb_pd.c`, `usbpd/` | connection and policy states, timers | attach, negotiate, swap, reset |
| Fast charging | `fml/dpdm.c`, `fml/usb_qc.c`, `lib/afc_scp.c`, `lib/ufcs.c` | protocol state, voltage | detect, negotiate |
| Buck-boost | `power/buckboost.c`, `hal/nu6805.c` | mode, protection, retry counts | set mode, trip, restore |
| Battery | `power/bat.c`, `fml/ntc.c`, `gauge/` | charge state, forbids, temperature locks | charge steps, hysteresis |
| Battery record | `app/bat_record.c` | paged flash log, window statistics | append, rotate, recover, erase |
| Sleep | `app/sleep.c` | wake source, counters, saved time | check, enter, wake |
| Bridge, LED, key | `app/usb_bridge.c`, `app/led.c` | session, click counts | commands, clicks |

How they interact. `osal_start_system` feeds the watchdog, updates the timers and lets
every task handle its event word, forever. Everything between two handlers goes through
an event word, a timer of the table, or the global `gd`; interrupts post to the same
words at any instruction. Handlers of one task are called once per set bit of a *copy* of
its word, lowest bit first, so what a handler finds may be older than what the handler
before it did. Other parts end a wireless session by `wpc_stop_to_idle` (an event, not a
call), and keep the next one from starting through one flag, one mode and one delay that
all of them share.

What is hard, and where: `PROJECT.json`, "hazards". In short: posts lost between a load
and a store; a tick counter that wraps; events of an ended session handled in the next;
timers that share a slot; flags that outlive their session; the duty ramp restarting a
stopped PWM; locks that release each other; the port manager's shared connection timer
and watchdog; flash writes cut by a reset.

What makes each part correct:

- Scheduler: no post is lost but in the window of `osal_set_event`; timers fire no earlier
  than asked and none is skipped; every pass ends, every event is delivered.
- Wireless task: phases follow the session's order; a powered session is always watched by
  a timeout; a silent receiver loses power; the coil is off in IDLE and a ping is armed;
  nothing learnt of one receiver is used for the next.
- Ping gate: no ping under a pending stop; each lock holds until its own condition goes.
- Port manager: a port in hand is finished or released; a handler acts on the port its
  event was for; a port that has gone ends as NONE with its gate closed.
- Protection and converter: a tripped flag stops power, and clears only by its recovery.
- Battery record: a reset at any write costs at most the page being written; ids grow.
- Sleep: nothing pending is dropped on entry; time advances by what has passed.
- PD and Type-C: every wait has a timeout; a hard reset ends in a defined state.

## 2. Plan and state

| Modules | Model | Checked in | Proved |
| --- | --- | --- | --- |
| `OsalEvents`, `Osal` | mailbox; scheduler and timers, which implement it | `osal` | all safety properties, the refinement |
| `Wpc` | wireless task | `wpc_cnfg`, `wpc_mpp` | all safety properties |
| `PingGate` | who may ping | `links`, `gate_low_soc` | both action properties of `links` |
| `PortManager` | `port_manager.c`, `tcpm.c`, the shared timer, the watchdog | `port_ports`, `port_faults`, `links` | all safety properties |
| `TypecPort`, `TypeC` | the port as the manager sees it; `typec.c`, which implements it | `typec` | the refinement |
| `UsbPd` | PD policy engine and protocol layer | `usb_pd`, `usb_quiet` | all safety properties |
| `BatRecord` | the exception log in flash | `log` | all safety properties |
| `Regulator`, `Charger`, `Faults`, `Battery`, `Prot`, `Sleep`, `FastCharge`, `Led`, `Key` | converter, protections, level, sleep, D+/D-, lights and key, composed by `Power` | `power` | all safety properties |
| `AskDecoder`, `Demod`, `DataStream`, `SecureElement`, `I2c`, `UsbBridge` | packets, streams, authentication chip, buses, composed with `PingGate` and `PortManager` by `Links` | `links` | all safety properties but `Heard` |

The abstract specifications are the mailbox (`OsalEvents`) and the port (`TypecPort`).
Section 6 lists what is only model-checked.

## 3. The modules

### Osal, OsalEvents
`OsalEvents` is what the scheduler promises: a set of posted events, each posted and
delivered, and the one way to lose one. `Osal` is the code at the grain interrupts see:
`Load` and `Store` are the two halves of `osal_set_event`, `ReadInterval` and
`RereadTicks` the two reads of `sys_ticks`, `CountDown`/`Expire`/`Fire`/`UpdateDone` the
loop of `osal_timer_update`, `ScanNext` .. `PassDone` that of `osal_event_handle`,
`HandlerPost` and the timer calls what handlers do, `Tick` the 1 ms interrupt. `wdt`
counts ticks since the last feed; at `WdtTicks` TMR2 resets the chip. Left out:
`osal_clear_event`, which has no caller, and masking by callers (no nesting in `vic.c`).

### Wpc
One action per event of the wireless task (`Handle`), the copy of the event word (`Take`),
and the environment: timers, the decoder, the FSK interrupt, other tasks' stops, the duty
ramp. `posted` and `batch` are the word and its copy; `Handling(e)` takes the lowest bit.
`tm` is what each timer of the task would post. A packet is a kind (`Packet`): what the
handlers tell apart. Time is abstract: an armed timer may expire at any moment;
`PassesAreShort` keeps only the 90 and 100 ms ping timer from overtaking a stop or a
32 ms window, as a pass of the loop is far shorter. The four windows after a control error
are one. Measurements, power arithmetic and foreign object verdicts are choices. `known`
and `astray` are history: the identification packets of the session, and which of the
code's known irregularities has happened since the last ping:

| `astray` | What the code does |
| --- | --- |
| `relit` | the ramp of TMR3 restarts the PWM a stop has just ended (`hal/timer.c:272`) |
| `left` | a receiver found gone in cloak while the PWM runs sets IDLE without a stop (`wpc_idle.c:670`) |
| `reason` | a cloak packet with a reason above 6 stops the timers that would end the session (`wpc_xfer.c`) |
| `late` | the repeated end of negotiation is honoured in whatever phase (`_wpc.c:258`) |
| `lost` | the cloak acknowledgement completes after the stop and arms a cloak ping in IDLE (`_wpc.c:495`) |

The properties hold but for these, each named where it excuses something. One more is not
an exception but is worth knowing: a stop handled after the cloak flag is set and before
its acknowledgement completes leaves the phase CLOAK with power off and no timer armed.
No property covers it, as CLOAK without a timer is not ruled out by anything the source says.

### PingGate
The head of `wpc_idle_phase_process` and everything else that writes `wpc_disable`,
`wpc_mode` and `tcpm_qi_work_delay`: the port manager, the converter's protection, the key
and the USB bridge, one action per handler. The inside of a session is `powered`. The
wireless thermistor lock is left out, its reading is the constant 25 in this build
(`app/prot.c:138`); so are waking from sleep and the mini-current mode, which write the
mode on states this module does not have.

### PortManager
The manager takes one port in hand at a time, `inhand`, and walks it through steps that it
posts to itself or puts on one timer, `PORT_CONNECT_TIMER`, which all ports share. One
action per event (`Start0` .. `Closed3`), and the scan by its outcomes (`ScanLocked`,
`ScanBusy`, `ScanNothing`, `ScanNext`). `Take` and `Handling` are the scheduler's copy of
the event word, as in `Wpc`; the scan is the highest bit and so comes last. `pend` is
`port_event`, what the other tasks ask for; `TRYn` and `ENDn` stand for
`PORTn_EVENT_TRY_CONNECT` and `PORTn_EVENT_UNCONNECT`.

Around it are the Type-C machine of port 0 (`Tc...`: all states between unattached and
attached are one, `Wait`, as the manager is told of none of them), the receiver (`Answer`,
`EndSession`, `ReceiverGone`) and the handlers that write the manager's state without it:
`Protect`, `Unprotect`, `Click`, `CommLock`, `CommUnlock`, `Renew`, `Recharge`. `Actors`
says which of them take part in a run. Time is in ticks that are long to the 1 ms scan:
none passes while the task, the timer or the scan has something due.

Left out: voltages, currents, mini-current mode and roles but for the converter's mode;
what the policy engine itself does to the gate; role swaps; ports 1 and 2, which this build
does not have. `tcpm_stop_wpc` is the immediate end of the session: `Wpc` has its details.

The actors that write behind the manager's back are `protect` (the converter's protection),
`comm` (the communication mode) and `recharge` (the connector's temperature lock);
`receiver` (the wireless partner) and `reset` (the renewal of the charge) go through it.

### TypecPort, TypeC
`TypecPort` is the Type-C machine as `PortManager` has it: between unattached and attached
there is one `Wait`, and a step tells the manager `TRY`, `SUCCESS` or `END`. `TypeC` is
`lib/typec.c`, one pass of `usb_tc_run` per step: the state's callback reads the pin and
decides by `sub`, the limits passed (`age`) and the counts of the toggle. Lengths of the
toggle, of the detections and of the tries are constants; a state's time is the number of
its limits it has passed. The map of its states to those of `TypecPort` is the refinement.
`PortManager` in turn takes those steps for the machine's, so that what is proved of the
manager rests on what is proved of the machine. A pass is of one port: the build has one.

### UsbPd
A pass of the main loop is `at`: one event (`usb_pdevt_run`), the state's callbacks until
nothing changes (`usb_pd_run`), then the rest of the loop, in which the converter, the
Type-C machine and the requests of other tasks act. The interrupt of the PHY (a packet, a
hard reset, the end of a transmission) may come between any two of these. `pd` is the
policy engine's state with its counters, `tm` its timers, `rx` the two packet buffers and
their count, `air` what is being sent, `reg` the converter as the engine sees it. A message
is its kind; its id decides only whether it is dropped as a repetition, and both happen.
A *scene* limits which messages, requests and roles a behaviour has, since all at once are
too many for TLC; the proofs hold for every set of scenes.

### BatRecord
A record is appended by reading its page into RAM, erasing the page and programming it
word by word. `todo` has the pages the running call is to rewrite, the lowest first, and
`Program` is the rewrite of one: one thread runs it all, so that it is one step, and `Reset`
picks what flash keeps of it (`Torn`). `pc` is what runs: the boot's recovery
(`battery_record_init`), the window of exceptions, the flush at its end, the check before
sleep, which restores RAM on its own (`sleep_check`). The page sequence and the record ids
wrap (`PageSeqMod`, `IdMod`). A chip comes erased, with a log of the old format (`OldLogs`) or
with full pages in service (`Worn`, the sequence of the first). History: `kept`, the records
saved and neither recycled, erased nor torn; `owed`, the kinds seen since their last saved
record; `garbled`, a scan took the id of an unwritten slot for a record's.

### The power side (Power)
One small module per component. As modelled they share nothing, so `Power` lets one of them
(`which`) move in each behaviour while the others rest; its constants are theirs, with one
named assumption each (`SleepBounds` .. `KeyBounds`), and `MCPower` gives them small values.

- `Regulator`: an order of voltage is noted, delayed, programmed, delayed again and
  reported. `Delivered`: what is reported done is what was asked. `Settles`: it is reached.
- `Charger`: the charging limits of the chip and of the software (`Limited`).
- `Faults`: the debounces of `power/buckboost.c`, the lock and the release.
  `LocksForAReason`: a lock needs the run of readings its cause is debounced by. `Unlocks`.
- `Prot`: the debounces of `app/prot.c` (`Debounced`), the over-voltage forbid with its
  doubt about readings the cells cannot have (`Believed`), no coil under a fault.
- `Battery`: the level shown walks after the energy counted; empty and full are reached.
- `Sleep`: entry, wake by timer, CC block, pin or reset, cold and warm boot.
  `PluggedInWakes` (`WakesRight`), and `TimerWakesForAReason`, one part of the action property
  `ActsForAReason`; the others are `LocksForAReason`, `Debounced` and `Believed`.
- `FastCharge`: BC1.2, HVDCP and QC as sink, QC, AFC, FCP and SCP as source, with the
  interrupts that write what the task reads. `BusFollows` the device; `QcFound`. `feeds` says
  which of the two directions the behaviour is about: a pack that feeds a device, or one at
  a charger.
- `Key`, `Led`: the clicks from the pin to the task (`Counted`: none lost or told twice),
  what they do and how the lights end (`MiniEnds`, `EmptyOff`).

### The links (Links)
`Links` extends `PingGate` and has an instance of each of the others. As modelled they share
nothing, so that one of them (`which`) moves in each behaviour while the others rest in one
of their initial states; its constants are theirs, with named assumptions (`StreamBounds` ..
`PortBounds`), and `MCLinks` gives them small values.

- `AskDecoder`: two decoders hear the same intervals; what is sent is told once, as it was
  sent (`Received`), nothing else (`NothingElse`), and whatever the intervals are never
  twice (`Once`). `Demod`: which path is captured; the
  front end and the capture units agree on it (`Agrees`).
- `DataStream`: the two streams over a link that loses packets; `wants` are the requests of
  one behaviour. A receiver that accepts a
  response accepts the whole one, signed for its own nonce (`Intact`); `Answered`.
- `SecureElement`: T91206's commands over a bus that fails: what a command returns is what
  the chip holds (`Intact`), and it returns (`Returns`). `I2c`: the master that drives the
  pins by hand against a device that sees only the lines (`Transferred`): a transfer is what
  is said and what is read, a step of it has rounds (a bit, or what is around the bits), and a
  round is a row of pin operations.
- `UsbBridge`: telemetry, commands, product data, sleep and the push of the log through a
  bus whose reads fail; `scene` is who acts in one behaviour. `VirtualOnlyInEng`, `EveryRecord`.
- `PingGate` and a small `PortManager`, for their temporal properties.

The properties of the run: `Heard` is AskDecoder's; `Whole` what has crossed the other wires,
with every component's types; `Signed` SecureElement's `Intact`; `Answers` both what is
asked by the receiver and of the chip; `Offered` the bridge's `EveryRecord`.

## 4. The runs

| Run | Question | Bounds |
| --- | --- | --- |
| `osal` | Is a post ever lost, a timer early or skipped (`OnTime`)? Is the mailbox implemented, every standing event delivered and the watchdog fed (`Served`)? | 2 tasks, 1 timer, 2 bits, ticks modulo 4, watchdog 1: the counter wraps several times and every start meets every phase of the loop |
| `wpc_cnfg` | Has everyone with power been identified, at 360 kHz if restricted (`Admitted`)? Does a silent receiver lose power (`Silence`)? | the packets of these phases, packet count modulo 8, configuration counts 0, 1, 3; 1 event posted |
| `wpc_mpp` | Is a powered session always watched (`Attended`)? Power off and a ping armed in IDLE (`IdleIsIdle`)? Do the phases keep their order (`SessionOrder`)? | all MPP packets with renegotiation and cloak, count modulo 5; 1 event posted |
| `port_ports` | Two ports and renewed charges share one timer: is each partner known (`PartnersKnown`) and each chain of steps continued (`ChainsEnd`)? Does a step find another port in hand? | timeouts 2, 1, 5 and 4 ticks, in the order of the code's |
| `port_faults` | Is every port let go of though protection, key, communication mode and temperature interfere (`LetGo`)? | all timeouts 1 tick, without the receiver |
| `log` | Do resets cost only the page they fall into, and do ids grow (`LogGrows`)? Does the oldest go first (`RecyclesOldest`)? Is every exception kept until its record is saved, and counted only then (`EventsCount`)? | 2 pages of 2 records, page numbers modulo 4, ids modulo 16, window 1, 6 records, 2 resets: the log wraps, and a reset falls into every step of a rewrite, also of the rewrite that repairs an earlier one |
| `usb_pd` | Is there always something to come (`NoDeadEnd`)? Does the gate open at 5 V only (`GateReopensAt5V`), and PS_RDY only on delivery? | 12 scenes; 1 hard reset, no repetition of the capabilities, 1 loop, 2 packets stored |
| `usb_quiet` | Is a silent partner given up? | 3 scenes with one of every retry |
| `typec` | Does the machine implement `TypecPort` (`Implements`)? Is a partner that stays found (`StayersFound`), one that does not let go (`GivenUp`)? | 2 passes per half of the toggle, 2 detections, 2 tries |
| `power` | Section 3, the power side | every count of the code at its smallest value that keeps the order of the counts |
| `links` | Section 3, the links | 4 packets with 3 preambles and 5 shifts of the duty cycle; a challenge with one fault, a certificate and a wrong slot without; bytes of 2 bits, data of 2 bytes; 2 pages of 2 records, one failed read; a host that listens, one that commands and one that produces; 4 tries of 2-byte chunks; SOC 1 and 2 with a delay of 2; ports with 2, 1, 2 and 1 ticks: each refusal, loss and retry meets every step, and the log wraps under the push |
| `gate_low_soc` | Does the SOC lock hold at 1 %, as its comment says? **No** | without the key |

Bounds. `MaxPosted` limits the events pending in `posted` when interrupts, timers and the
decoder post; handlers' own posts are not limited and `batch` holds as many again. With
one, a stop posted by a handler, a packet of the batch and one other event still meet.
`OptMod` at 5 or 8 stands for 256: the code only needs the configuration counts to be
more than four below it, which the assumption states and the proof uses. The port
manager's bounds are on time alone: its words and requests are sets, and nothing in it
counts. With a step of 2 or 1 ticks and a watchdog of 5, two chains of steps fit under one
watchdog and a third does not, as in the code; with all at 1 the watchdog, the timer and
the receiver's silence may end in the same tick in any order. In `usb_pd` a repetition of
the capabilities only renews the same wait; `usb_quiet` has one, for the retries. Deadlock
is checked in every run but `log`, where the bound on records and resets ends behaviours.

`port_ports` does not hold with every actor, and no run hides it. With the
protection a port may be left deaf, its chain cut, or without current; the communication
lock cuts the wireless chain, since it resets the ports and not the manager; the connector's
temperature lock breaks all, since it makes port 0 a source with no partner and withholds
current, as it is meant to. This is the hypothesis `Alone` of the proofs.
`StepsOfPortInHand` holds with all of them, as proved.

Fairness. Weak fairness of the main loop's steps, since the loop never blocks; in `Osal`
strong fairness of handlers' return, since they are called and not awaited however often
they post. Strong fairness of timers' expiry, since `osal_timer_update` looks at every
timer in every pass while other posts may disable the action for a moment (`Wpc`: NEXT,
CEP and RPP; `PortManager`: time, the timer and the receiver's silence; `UsbPd`: the timers,
the converter, and the end of a transmission, which fails when nobody acknowledges it).
Partners, receivers, hosts, keys, faults and interrupts have none, with four exceptions: the
authentication chip does not fail for ever (`SecureElement`), the receiver of a stream has a
bounded number of losses (`DataStream`, by `Faults`, which is `Losses` in `Links`), the
D+/D- block reports the end of a detection it was told to begin (`FastCharge`), and the
lighting mode of a partner who has gone ends (`TypeC`). `Power` and
`Links` state the fairness of the component that moves, one
clause for several components of which at most one can take a step of it. `LetGo` and
`EndGetsThrough` are checked without the receiver, and `Silence` without renegotiation,
with which the graphs are too large for a liveness check.

## 5. Findings

`gate_low_soc`: the SOC lock engages, then the temperature lock; the temperature lock
releases and clears the shared flag; the port goes; the next ping starts at 1 % although the
comment at `wpc_idle.c:745` says that the SOC lock re-enables at 2 % only.

Further irregularities were met while modelling. The models have them; where one limits a
property the property names it, and no run counts them as violations.

- Wireless. The temperature lock is forgotten and its flag is not (`wpc_idle.c:794`). The
  renegotiation timeout survives the stop (`wpc_xfer.c:600`). The digital path stays open for
  a receiver that is not MPP at 360 kHz (`wpc_cnfg.c:386`). A packet with zeros of unsure
  width is lost when its last edge is missing. The ring of 64 edges has no overflow check.
- Data stream. A poll that fetches a changed capability clears the count of attention
  patterns (`wpc_xfer.c:377`). `WPC_AUTH_TIMER` is `WPC_NEGO_TIMER` (`osal.h:14`). The two
  streams share the receive buffer.
- Port manager. The watchdog sets the manager idle and no more (`port_manager.c:1355`).
  Port 3's end is served before its connection (`:1402`). A `CLOSED0` and a timer's step may
  be of the same pass (`:1487`). The communication lock resets the ports and not the manager
  (`buckboost.c:504`).
- PD. A packet of the last session is handled after the next attachment (`usb_pd.c:1852`). A
  packet or the end of a transmission after a hard reset cancels the recovery. A success
  after the detachment overrides the disable. `pe_tran_cb_type` is old in battery-status
  replies (`:1748`). `hardreset_counter` is not cleared at attachment. A `continue` leaves
  interrupts masked (`:1836`). The event word is changed by the main loop unmasked.
- Type-C. DEBUG and ACCESSORY never answer the manager's `TRY` until they leave.
- Converter. A stale `DELAYDONE` ends the next delay (`buckboost.c:863`; `late` in
  `Regulator`). An over-current alone never locks (`:468`). A low battery locks and unlocks
  in turn every ten rounds (`:318`). `adc_protect_flag` is cleared by one good sample.
- Protection. Counts are statics that outlive the session (`prot.c:894`); both directions of
  the power reduction share one (`:213`); four clicks take a verdict back half
  (`led.c:811`).
- Level. `temp_bat_ui` wraps (`bat.c:244`); the energy count is not clamped; `FULL` is never
  set.
- Log. The page order does not survive all wraps (`bat_record.c:393`), id 0 is taken for none
  (`:607`).
- Fast charging. `DPDM_SINK_TIMER` is not stopped at detachment (`typec.c:281`). AFC 12 V
  after 9 V keeps 9 V. AFC ignores a PD contract.
- Sleep. A lit port with a dead battery sleeps with neither wake. Time before a GPIO or
  protocol wake is not counted; time added on wake races the tick interrupt (`sleep.c:975`).
- Chips and bridge. A malformed last frame leaves the status word unwritten
  (`t91206.c:966`; `astray` in `SecureElement`). A failed read of `work_mode` leaves
  engineering mode, a failed read of the cycle count saves 0 (`usb_bridge.c:208`, `:275`).
- Elsewhere. The sort of current samples swaps through 8 bits (`app.c:166`). Masking does not
  nest (`i2cm.c:623`). Both directions of a thermistor lock share one count (`ntc.c:284`).

## 6. The proofs

TLAPS checks the theorems for every value of the constants that the named assumptions of
the modules allow. Each safety theorem comes from one inductive invariant, which TLC was
shown first on the runs' instances, by one lemma per action or handler.

`Osal_proofs`: for every number of tasks, timers and bits and every width of the counter,
from `OsalAssumption` and `TimeoutFits` (timeouts stay two watchdog periods below the
counter's range, as all in the code do). One inductive invariant relates the timer table
to the real ticks left: what a timer has remaining is what is due, plus the ticks not yet
credited, plus what rereading has skipped. Alone, `NeverEarly` is not inductive: between the
read and the update of the last timer the uncredited ticks are counted in `elapsed` for
some timers and in the gap for others. From it follow `TypeCorrect`, `TimersNotEarly`,
`TimersNotLate`, `TimersOnTime`, `PostsKept`, and `Refinement`: each step is a step of the
mailbox or a stutter.

`Wpc_proofs`: for every width of the packet count, set of packets and bound on posts, from
`WpcAssumption`.
- `TypeCorrect`, in four parts (flags, data, timers, queue).
- `OnlyMpp` is inductive: the profile is forgotten only by the strength packet, which is
  handled in PING, where no flag of negotiation or cloak survives.
- `OrderOfPhases`, `OffInIdle` and `PingsInIdle` follow with it, and from them the two
  properties of the run, `SessionsInOrder` and `IdleSilentAndPinging`.
- `IdentifiedFirst` needs `IdentInv`. The identification is implied by the packet count
  only while the count has not wrapped; an early configuration packet wraps it below zero.
  The invariant says that then a stop is pending and at most one more packet is handled
  before it, which can neither match a configuration's count nor leave the phase.
- `RestrictedGetsFrequency` needs `RestrictedInv`, by the same argument on the stop that
  sends a restricted receiver away from 128 kHz. Together they are `Admission`.
- `AlwaysAttended` needs `Guarded`: a driven coil is watched either by a timer that only a
  stop or another such timer takes away (in power transfer and renegotiation), or by the
  timer all phases share, or the end of an acknowledgement, while no late `PCH_TO` or
  window is about that would take that timer. That none is about when a ping begins needs
  `AtRest` (what may be armed or pending in IDLE), `OnlyStops` (timers post between batches
  only) and the order of the bits in a batch: a digital ping is handled first, a cloak ping
  after the windows. This uses `PassesAreShort`, the model's one assumption on time.

`Links_proofs`: for every set of states of charge, positive delay, length of a byte and of the
data, request, number of losses, size of the log and of the chip's memory, and all lengths of
the ports' timeouts, from `StreamBounds` .. `PortBounds`. One inductive invariant per component
(`LinksInv`, theorem `Inductive`); a step of one leaves the others' alone (`StepParts`).
- The gate alone: `Delayed` (a stop the next ping's event may overtake has set the delay, or
  finds a session) gives `DelayKeepsPingsAway`; `Held` (a held lock's flag is set, or was
  cleared by another writer) gives `OnlyLeaksPassSocLock`. `GateRuns` says that the gate of
  `Links` is that gate, so that both hold there.
- `WholeAlways`, by its parts. A transfer (`I2cInv`): that the device has heard what was said is
  not inductive, as the device sees lines and not steps. `AtStart` .. `AtEnd` say, for each pin
  operation, what it has made of them: what was said up to this step (`Sound`), the bits of
  this byte (`Has`), the bit it holds out and the ones that were taken (`Holds`, `Taken`), or
  that it has let go of the bus (`Hung`). That T91206's last byte may be acknowledged rests on
  `HasMore`: the chip's frame is at its end. Responses (`StreamInv`): which pieces the
  transmitter has (`Took`), what it knows of them (`Knows`), how far its answer is
  (`Answered`), and that what is in the air fits where the receiver is (`Aired`, `Hearing`): it
  is this that keeps a repeated piece from being taken for the next. The path (`DemodInv`):
  which entries of a table are digital, and that a table ends on one only if it is. The
  host's values (`BridgeInv`). A packet comes once (`AskInv`): the lock that the first decoder
  to finish takes holds for 20 ms, longer than what is left of the transmission. The
  ports' types are `PortManager_proofs`', by an instance of that module whose assumption is
  proved of this one's constants.
- `SignedAlways` needs `ElementInv`: the read under way is one of the command's own
  (`OfCommand`), and the buffer holds what the chip does from the read's offset on, as far as
  it goes (`Filled`), however many tries have failed.

`PortManager_proofs`: for all lengths of the timeouts, from `PortManagerAssumption`.
- With every set of actors: `TypeCorrect` and `OwnStepsOnly`. The latter rests on three more
  facts: at most one of the four steps that assume their port in hand is queued (`CLOSED3`
  may change the port), only the scan posts them and finds none when it runs, being the
  last of its batch, and the timer never posts one. The proof does not use that the manager
  is idle when the scan takes a port: it is the order of the bits that keeps the steps
  apart, and the run's mutant moves the scan to a bit between the ports.
- With nobody behind the manager (`Alone`: the actors are among `receiver` and `reset`):
  `PartnersStayKnown` and `ChainsAlwaysEnd`. Neither is inductive: both speak of moments at
  which nothing is queued, and what makes them true happens in the middle of a batch.
  `CInv` says what holds there: a connection is handled before the machine takes another
  step (`Told`), and its partner is there or its end on the way (`Known`); while the
  wireless port is in hand nothing of port 0 can arm the one timer, and its own next step
  is on the way (`Started`, `Tended`); a machine that is off will be turned on again
  (`Waking`), a source without current gets it at the end of the chain (`Delivering`); and
  in the middle of a batch only two events are posted (`PostedInBatch`), which is what makes
  the order of the bits count. The hypothesis holds in the run `port_ports`, and is needed
  (section 4).

`TypeC_proofs`: for all lengths of the toggle, limits, and partners. `MachineImplements`:
every pass of the machine is a step of `TypecPort` under the map of its states, or a
stutter. It needs the types only: the passes of a half of the toggle are a number within
its limits, so that one of the cases of `ToggleRead` applies.

`UsbPd_proofs`: for every partner, request, message and limit, from `UsbPdAssumption`.
The invariant `IInv` has the types and seven parts:
- `Moving`: a state has what moves it: a timer that runs, a transmission of its own, the
  next callback, or a rest that may be for ever;
- `BusyOnAir`, `BusyRuns`, `AirOfPhy`: `pe_prl_busy` is set only while the PHY has something
  on air, a PHY that is off has nothing, and the callbacks that run on after one has begun to
  send do not touch the PHY;
- `Recovering`: the recovery of a source has no change of the voltage before it;
- `Alone`: without a partner the converter stays at 5 V or what is left is about to be
  forgotten;
- `Supplying`: a source that has accepted a request has the change ordered, or to order.

`NoDeadEnd` follows from the first four. It is not inductive alone: a transmission's end
leads on only if nobody else has taken its state, which the interrupt may do between any
two callbacks; `BusyRuns` names the callbacks that may run on with a message on air.
`GateSafe` needs `Recovering` and `Alone` (the two who open the gate are a recovery and a
new partner), and `PsRdyTrue` needs `Supplying`.

`BatRecord_proofs`: for all numbers of pages, of records on a page and of kinds, widths of
the page sequence and logs in service, and ids that do not run out (`BoundsAssumption`).
- `TypeCorrect` and the first half of `RecordsSurvive` come from `LogInv`. That what was saved
  stays readable is not inductive: a page is rewritten as a whole. `Carried` says that what is
  to be written has every record that is kept; `Synced` that RAM, once restored (`Ready`),
  points behind the records of the active page, so that the next one overwrites none;
  `Mended` that a page with a broken count is repaired before anything is appended to it;
  `Unread` that a load that found no page finds RAM at the log's start.
- The ids need `Ids`: no id is larger than its record's number, so that the id a scan
  restores is larger than all of what is kept, unless it took the id of an unwritten slot.
- `EventsCounted` needs `Owing` (what is owed is among what the flush has still to write)
  and `Counted` (the slots in use are no more than the records issued, also once the images
  to be written are, of which only the lowest may use new slots).
- `OldestFirst` is for two pages, as the code has (`LOG1`, `LOG2`), and a sequence of more than
  two values. `OrderInv`: of what is kept, the newer page has the later records (`Older`), a
  record is on one page only (`Apart`), both also once the image to be written is, and RAM
  points to the newer page or, when none can be read, to the log's start (`PlacedIn`). A
  load may still take the wrong page across a wrap, or a repaired one for the newest; then the
  sequences are more than half the range apart, and are not again before the page passed
  over has been rewritten or lost.

The library's induction theorems cannot be applied here. What the loops over the pages compute
is proved by `UpTo`, from the least element of a set of numbers, which `LeastExists` takes
from the order of the finite sets.

`Power_proofs`: for all counts, delays, limits and levels that `SleepBounds` .. `KeyBounds`
allow. The invariant is one per component; since they share no variable, a step of one
leaves the others' alone (`StepParts`), and each is proved by itself.
- `TypesKept` is inductive by itself for the level and the lights, and comes with the rest of
  the invariant elsewhere. The level's energy count stays in its range by the arithmetic of
  division rounded down.
- `BusFollowsAlways` needs `Pending`: while the bus is not what the device last asked for, the
  event that will set it (`Due`) is in the table, or in the task's copy with no new start of
  the detection behind it, and an output of AFC half written (`Halfway`) is being served; and
  `Speakers`: the events that touch the bus are those of the device that is there.
- `RegulatedAlways` needs `RegulatorInv`: of the two stages of an order at most one is under way,
  a new order finds the timer off, and from the programming on the voltage is there, unless
  a stale end of a delay has come (`late`, section 5); and `ChargerInv`: the chip draws what
  the ramp says, and the ramp does not pass the limit it climbs to.
- `ActsForAReasonAlways` needs `SleepInv`, `FaultsInv`, `Runs` and `Doubts`: the code's counters are never ahead of the
  readings in a row that the history counts, so a counter at its limit means a whole run.
- `KeptAlways`: no coil under a fault is inductive by itself. That no click is lost needs `Waits`:
  an event that waits for the task was left so lately that the next cannot come yet. This
  holds only because five quick clicks do not fit between two looks of the task. `KeyBounds` says that as tightly as
  the code does: of 3 ticks each and as many between them they take 26 or more, the task looks
  every 25.

Only model-checked, with the reason:
- `Heard`. That a packet's intervals decode to that packet is what two folds
  over data (coding a packet into intervals, and the decoder's run over them) give when one
  follows the other; for all packets it would be an induction over data, and for all noise
  it is false. TLC checks it for the packets, preambles, shifts and noise of the run; `Once`
  is the part that holds whatever the intervals are, and is proved.
- Liveness: `Served`, `Silence`, `LetGo`, `EndGetsThrough`, `SilentPartnerGivenUp`, `StayersFound`,
  `GivenUp`, `WakesRight`, `QcFound`, `Settles`, `Shown`, `Answers` and `Offered`. Liveness under
  fairness and ENABLED are beyond this prover. No module has a RECURSIVE operator.

## 7. Not modelled

`PROJECT.json`, "components", gives the reason for each part: compiled out (EPP, UFCS);
arithmetic on measurements (power control, foreign objects, loss accounting, the
thermistors' hysteresis); register access (drivers); generated or external (gauge); calls
in turn of parts that are modelled (application polling). In the parts that are modelled,
the data the properties do not tell apart: contents of packets, certificates and PDOs,
patterns of the LEDs, the filters of the digital demodulator.
